---------------------------- MODULE ReviewWeekProofs ----------------------------
(***************************************************************************)
(* The submits of ReviewWeek, for any rows and any number of mutations in   *)
(* flight.                                                                  *)
(***************************************************************************)
EXTENDS ReviewWeek, TLAPS

-----------------------------------------------------------------------------
(* The inductive invariant.                                                 *)

CallsTyped == call \in [Slot -> Call \cup {None}]

\* Unless a review was left, a pending submit is the only one, awaited by the
\* view on the screen, and the modal is locked for it.
LockedWhileSubmitting ==
  ~left =>
    /\ Submits = MySubmits
    /\ \A s, t \in Submits : s = t
    /\ Submits # {} => syncing /\ view = "review"

IInv == CallsTyped /\ LockedWhileSubmitting

\* The calls there are, in another state, as far as submits go.
SameSubmits ==
  \A s \in Slot :
    /\ s \in Submits' <=> s \in Submits
    /\ s \in MySubmits' <=> s \in MySubmits

\* A mutation in flight is a record.
LEMMA CallType ==
  ASSUME CallsTyped, NEW s \in Slot, call[s] # None
  PROVE  call[s] \in Call
BY DEF CallsTyped

-----------------------------------------------------------------------------
(* What the steps do to the calls.                                          *)

\* A step that leaves the submits, their view and its lock.
LEMMA SameKept ==
  ASSUME LockedWhileSubmitting, SameSubmits, left' = left,
         syncing' = syncing, view' = view
  PROVE  LockedWhileSubmitting'
<1>1. Submits' = Submits /\ MySubmits' = MySubmits
  BY DEF SameSubmits, Submits, MySubmits, Pending
<1>. QED
  BY <1>1 DEF LockedWhileSubmitting

\* A step that leaves the calls.
LEMMA StillKept ==
  ASSUME IInv, UNCHANGED <<call, left, syncing>>,
         view' = view \/ (view \in {"closed", "summary"} /\ Submits = {})
  PROVE  IInv'
<1>1. Submits' = Submits /\ MySubmits' = MySubmits
  BY DEF Submits, MySubmits, Pending
<1>. QED
  BY <1>1 DEF IInv, CallsTyped, LockedWhileSubmitting

\* A row that goes leaves its save awaited by nobody, and no more.
LEMMA UnmountKept ==
  ASSUME NEW c \in [Slot -> Call \cup {None}], NEW now
  PROVE  /\ Unmount(c, now) \in [Slot -> Call \cup {None}]
         /\ \A s \in Slot :
              \/ Unmount(c, now)[s] = c[s]
              \/ /\ c[s] # None /\ Unmount(c, now)[s] # None
                 /\ c[s].kind = "edit" /\ Unmount(c, now)[s].kind = "edit"
<1>1. ASSUME NEW s \in Slot, c[s] # None, c[s].kind = "edit"
      PROVE  LET d == [c[s] EXCEPT !.from = FALSE] IN
               d \in Call /\ d.kind = "edit" /\ d # None
  BY <1>1, NoneAssumption DEF Call
<1>. QED
  BY <1>1 DEF Unmount

\* So the submits stay.
LEMMA UnmountSame ==
  ASSUME IInv, NEW now, call' = Unmount(call, now), UNCHANGED <<left, syncing, view>>
  PROVE  IInv'
<1>1. call \in [Slot -> Call \cup {None}]
  BY DEF IInv, CallsTyped
<1>2. /\ call' \in [Slot -> Call \cup {None}]
      /\ \A s \in Slot : \/ call'[s] = call[s]
                         \/ /\ call[s] # None /\ call'[s] # None
                            /\ call[s].kind = "edit" /\ call'[s].kind = "edit"
  BY <1>1, UnmountKept
<1>3. SameSubmits
  BY <1>2 DEF SameSubmits, Submits, MySubmits, Pending
<1>. QED
  BY <1>2, <1>3, SameKept DEF IInv, CallsTyped

\* A card that takes the rows' place leaves the submits.
LEMMA FailsKept == ASSUME IInv, FetchFails PROVE IInv'
<1>1. call' = [s \in Slot |-> IF call[s] = None \/ call[s].kind = "submit" THEN call[s]
                             ELSE [call[s] EXCEPT !.from = FALSE]]
      /\ UNCHANGED <<left, syncing, view>>
  BY DEF FetchFails
<1>2. ASSUME NEW s \in Slot, call[s] # None
      PROVE  LET d == [call[s] EXCEPT !.from = FALSE] IN
               d \in Call /\ d # None /\ d.kind = call[s].kind
  BY <1>2, CallType, NoneAssumption DEF Call, IInv
<1>3. CallsTyped'
  BY <1>1, <1>2 DEF IInv, CallsTyped
<1>4. SameSubmits
  BY <1>1, <1>2 DEF SameSubmits, Submits, MySubmits, Pending
<1>. QED
  BY <1>1, <1>3, <1>4, SameKept DEF IInv

\* A view that goes lets its calls go on for nobody.
LEMMA TeardownKept ==
  ASSUME IInv, NEW next, Teardown(next),
         ~left' => ~left /\ MySubmits = {}
  PROVE  IInv'
<1>1. call' = [s \in Slot |-> IF call[s] = None THEN None ELSE [call[s] EXCEPT !.from = FALSE]]
  BY DEF Teardown
<1>2. ASSUME NEW s \in Slot, call[s] # None
      PROVE  LET d == [call[s] EXCEPT !.from = FALSE] IN
               d \in Call /\ d # None /\ d.kind = call[s].kind
  BY <1>2, CallType, NoneAssumption DEF Call, IInv
<1>3. CallsTyped'
  BY <1>1, <1>2 DEF CallsTyped
<1>4. Submits' \subseteq Submits
  BY <1>1, <1>2 DEF Submits, Pending
<1>5. MySubmits' \subseteq Submits'
  BY DEF MySubmits
<1>. QED
  BY <1>3, <1>4, <1>5 DEF IInv, LockedWhileSubmitting

\* A mutation that is sent is one.
LEMMA SendsKept ==
  ASSUME IInv, NEW s \in Slot, NEW kind \in Kind \ {"submit"}, NEW row \in Entry \cup {None},
         Sends(s, kind, row), UNCHANGED <<left, syncing, view>>
  PROVE  IInv'
<1> DEFINE c == [kind |-> kind, row |-> row, from |-> TRUE, answer |-> "none", bad |-> {}]
<1>1. c \in Call /\ c.kind # "submit"
  BY DEF Call
<1>2. call' = [call EXCEPT ![s] = c] /\ call[s] = None
  BY DEF Sends, Pending
<1>3. SameSubmits
  BY <1>1, <1>2 DEF SameSubmits, Submits, MySubmits, Pending, IInv, CallsTyped
<1>4. CallsTyped'
  BY <1>1, <1>2 DEF IInv, CallsTyped
<1>. QED
  BY <1>3, <1>4, SameKept DEF IInv

\* A submit starts where this view has none pending.
LEMMA SubmitKept == ASSUME IInv, NEW s \in Slot, HandleSubmit(s) PROVE IInv'
<1> DEFINE c == [kind |-> "submit", row |-> None, from |-> TRUE, answer |-> "none", bad |-> {}]
           more == [call EXCEPT ![s] = c]
           now == Kept(expanded, {}, page)
<1>1. /\ MySubmits = {} /\ view = "review" /\ view' = view /\ syncing' = TRUE /\ left' = left
      /\ call' = Unmount(more, now)
  BY DEF HandleSubmit, SubmitDisabled, Showing
<1>2. more \in [Slot -> Call \cup {None}]
  BY DEF IInv, CallsTyped, Call, Kind
<1>3. /\ call' \in [Slot -> Call \cup {None}]
      /\ \A t \in Slot : \/ call'[t] = more[t]
                         \/ /\ more[t] # None /\ call'[t] # None
                            /\ more[t].kind = "edit" /\ call'[t].kind = "edit"
  BY <1>1, <1>2, UnmountKept
<1>4. \A t \in Slot \ {s} : more[t] = call[t]
  BY DEF IInv, CallsTyped
<1>5. more[s] = c
  BY DEF IInv, CallsTyped
<1>6. call'[s] = c
  BY <1>3, <1>5
<1>7. Submits' \subseteq Submits \cup {s}
  BY <1>3, <1>4 DEF Submits, Pending
<1>8. CASE left
  BY <1>1, <1>3, <1>8 DEF IInv, CallsTyped, LockedWhileSubmitting
<1>9. CASE ~left
  <2>1. Submits = {}
    BY <1>1, <1>9 DEF IInv, LockedWhileSubmitting
  <2>2. Submits' \subseteq {s} /\ MySubmits' = Submits'
    BY <1>6, <1>7, <2>1 DEF MySubmits
  <2>. QED
    BY <1>1, <1>3, <2>2 DEF IInv, CallsTyped, LockedWhileSubmitting
<1>. QED
  BY <1>8, <1>9

\* What a request reports are rows.
LEMMA OutcomeType ==
  ASSUME NEW c \in Call, NEW o \in Outcomes(c) PROVE o[2] \in SUBSET Entry
BY DEF Outcomes, Call, Kind, Todo

\* An answer leaves who asked for what.
LEMMA ServeKept == ASSUME IInv, NEW s \in Slot, Serve(s) PROVE IInv'
<1>1. call[s] # None /\ call[s] \in Call
  BY CallType DEF Serve, IInv
<1>2. UNCHANGED <<left, syncing, view>>
  BY DEF Serve, ui
<1>3. \/ \E o \in Outcomes(call[s]) : call' = [call EXCEPT ![s].answer = "ok", ![s].bad = o[2]]
      \/ call' = [call EXCEPT ![s].answer = "error"]
  BY DEF Serve
<1>4. /\ call'[s] \in Call /\ call'[s].kind = call[s].kind /\ call'[s].from = call[s].from
      /\ call' \in [Slot -> Call \cup {None}]
      /\ \A t \in Slot \ {s} : call'[t] = call[t]
  <2>1. CASE call' = [call EXCEPT ![s].answer = "error"]
    BY <1>1, <2>1 DEF IInv, CallsTyped, Call
  <2>2. ASSUME NEW o \in Outcomes(call[s]),
               call' = [call EXCEPT ![s].answer = "ok", ![s].bad = o[2]]
        PROVE  /\ call'[s] \in Call /\ call'[s].kind = call[s].kind
               /\ call'[s].from = call[s].from
               /\ call' \in [Slot -> Call \cup {None}]
               /\ \A t \in Slot \ {s} : call'[t] = call[t]
    <3>1. o[2] \in SUBSET Entry
      BY <1>1, <2>2, OutcomeType
    <3>. QED
      BY <1>1, <2>2, <3>1 DEF IInv, CallsTyped, Call
  <2>. QED
    BY <1>3, <2>1, <2>2
<1>5. call'[s] # None
  BY <1>4, NoneAssumption
<1>6. SameSubmits
  BY <1>1, <1>4, <1>5 DEF SameSubmits, Submits, MySubmits, Pending
<1>. QED
  BY <1>2, <1>4, <1>6, SameKept DEF IInv, CallsTyped

\* A mutation that is over unlocks the modal only if it was this view's submit.
LEMMA DropsKept ==
  ASSUME IInv, NEW s \in Slot, call[s] # None, Drops(s),
         syncing' = syncing \/ s \in Submits
  PROVE  IInv'
<1>1. /\ call' = [call EXCEPT ![s] = None] /\ view' = view
      /\ left' = (left /\ Submits \ {s} # {})
  BY DEF Drops
<1>2. Submits' = Submits \ {s} /\ MySubmits' = MySubmits \ {s}
  BY <1>1 DEF IInv, CallsTyped, Submits, MySubmits, Pending
<1>3. CallsTyped'
  BY <1>1 DEF IInv, CallsTyped
<1>4. LockedWhileSubmitting'
  <2>1. CASE left
    BY <1>1, <1>2, <2>1 DEF LockedWhileSubmitting, MySubmits
  <2>2. CASE ~left
    BY <1>1, <1>2, <2>2 DEF IInv, LockedWhileSubmitting
  <2>. QED
    BY <2>1, <2>2
<1>. QED
  BY <1>3, <1>4 DEF IInv

-----------------------------------------------------------------------------
(* The theorems.                                                            *)

\* The invariant holds at first.
LEMMA InitInv == Init => IInv
BY DEF Init, IInv, CallsTyped, LockedWhileSubmitting, Submits, MySubmits, Pending

\* And every step keeps it.
LEMMA InvKept == IInv /\ [Next]_vars => IInv'
<1>. SUFFICES ASSUME IInv, [Next]_vars PROVE IInv'
  OBVIOUS
<1>1. CASE OpenModal \/ OpenReview
  <2>1. UNCHANGED <<call, left, syncing>> /\ view \in {"closed", "summary"}
    BY <1>1 DEF OpenModal, OpenReview, data
  <2>2. CASE left
    BY <2>1, <2>2 DEF IInv, CallsTyped, LockedWhileSubmitting
  <2>3. CASE ~left
    BY <2>1, <2>3, StillKept DEF IInv, LockedWhileSubmitting
  <2>. QED
    BY <2>2, <2>3
<1>2. CASE Back \/ Close
  <2>1. PICK next : Unmounts(next)
    BY <1>2 DEF Back, Close
  <2>. QED
    BY <2>1, TeardownKept DEF Unmounts
<1>3. CASE ToggleClient \/ FetchArrives
  <2>1. \E now : call' = Unmount(call, now)
    BY <1>3 DEF ToggleClient, FetchArrives
  <2>. QED
    BY <1>3, <2>1, UnmountSame DEF ToggleClient, FetchArrives
<1>4. CASE OpenForm \/ CancelForm \/ Others \/ Focus \/ FetchServed
  BY <1>4, StillKept DEF OpenForm, CancelForm, Others, Focus, FetchServed, ui, data
<1>5. CASE \E e \in Entry : StartEdit(e) \/ CancelEdit(e)
  BY <1>5, StillKept DEF StartEdit, CancelEdit, data
<1>6. ASSUME NEW s \in Slot,
             (\E e \in Entry : SaveEdit(e, s) \/ DeleteEntry(e, s))
               \/ SetClientBillable(s) \/ AddEntry(s)
      PROVE  IInv'
  <2>1. PICK kind \in Kind \ {"submit"}, row \in Entry \cup {None} : Sends(s, kind, row)
    BY <1>6 DEF SaveEdit, DeleteEntry, SetClientBillable, AddEntry, Kind
  <2>2. UNCHANGED <<left, syncing, view>>
    BY <1>6 DEF SaveEdit, DeleteEntry, SetClientBillable, AddEntry, ui
  <2>. QED
    BY <2>1, <2>2, SendsKept
<1>7. ASSUME NEW s \in Slot, Success(s) \/ Failure(s) PROVE IInv'
  <2>1. call[s] # None /\ Drops(s)
    BY <1>7 DEF Success, Failure
  <2>2. syncing' = syncing \/ s \in Submits
    BY <1>7 DEF Success, Failure, Submits, Pending
  <2>. QED
    BY <2>1, <2>2, DropsKept
<1>8. CASE UNCHANGED vars
  BY <1>8, StillKept DEF vars, ui, data
<1>. QED
  BY <1>1, <1>2, <1>3, <1>4, <1>5, <1>6, <1>7, <1>8, SubmitKept, ServeKept,
     FailsKept DEF Next

\* In every behaviour of the modal.
THEOREM Invariance == Spec => []IInv
BY InitInv, InvKept, PTL DEF Spec

\* Whoever submits the week and does not walk back sees what came of it.
THEOREM SubmitterSees == Spec => []OutcomeSeen
<1>1. IInv => OutcomeSeen
  BY DEF IInv, LockedWhileSubmitting, OutcomeSeen
<1>. QED
  BY <1>1, Invariance, PTL

\* Nor does anyone submit it twice at once.
THEOREM SubmitsAlone == Spec => []OneSubmit
<1>1. IInv => OneSubmit
  BY DEF IInv, LockedWhileSubmitting, OneSubmit
<1>. QED
  BY <1>1, Invariance, PTL

-----------------------------------------------------------------------------
(* The page and the editors: the invariant.                                 *)

\* Mutations that took effect and whose success is still to be told.
Told == {s \in Pending : call[s].answer = "ok"}

\* Unless something changed unseen or a success is about to refetch, an answer
\* on its way is the week of the server, and so is the one in the cache that
\* is neither marked nor in error.
CopiesFit ==
  ~blind /\ Told = {} =>
    /\ fetch = "idle" /\ page # None /\ ~erred => page = rows
    /\ fetch = "answered" => fetched = rows

WeeksTyped ==
  /\ rows \in Week /\ (fetch = "answered" => fetched \in Week)
  /\ editor \in [Entry -> Editing]

PInv == WeeksTyped /\ CopiesFit

-----------------------------------------------------------------------------
(* What the steps do to the rows.                                           *)

LEMMA OutcomeRows ==
  ASSUME rows \in Week, NEW c \in Call, NEW o \in Outcomes(c)
  PROVE  o[1] \in Week
<1>1. \A e \in Entry : rows[e] # None => rows[e] \in Row
  BY DEF Week
<1>2. CASE c.kind = "submit"
  <2>1. PICK done \in SUBSET Todo : o = <<Locks(rows, done), Todo \ done>>
    BY <1>2 DEF Outcomes
  <2>2. \A e \in Entry : Locks(rows, done)[e] \in Row \cup {None}
    BY <1>1 DEF Locks, Row, Lock, Week
  <2>. QED
    BY <2>1, <2>2 DEF Locks, Week
<1>3. CASE c.kind = "edit"
  <2>1. PICK e \in Drafts : o = <<[rows EXCEPT ![e].edited = TRUE], {}>>
    BY <1>3 DEF Outcomes
  <2>2. [rows[e] EXCEPT !.edited = TRUE] \in Row
    BY <1>1 DEF Drafts, Row
  <2>. QED
    BY <2>1, <2>2 DEF Week, Drafts
<1>4. CASE c.kind = "delete"
  <2>1. PICK e \in Drafts : o = <<[rows EXCEPT ![e] = None], {}>>
    BY <1>4 DEF Outcomes
  <2>. QED
    BY <2>1 DEF Week, Drafts
<1>5. CASE c.kind = "billable"
  <2>1. \A e \in Drafts : [rows[e] EXCEPT !.edited = TRUE] \in Row
    BY <1>1 DEF Drafts, Row
  <2>2. o[1] = [e \in Entry |-> IF e \in Drafts THEN [rows[e] EXCEPT !.edited = TRUE] ELSE rows[e]]
    BY <1>5 DEF Outcomes
  <2>. QED
    BY <2>1, <2>2 DEF Week
<1>6. CASE c.kind = "add"
  <2>1. PICK e \in Entry : o = <<[rows EXCEPT ![e] = [lock |-> "draft", edited |-> FALSE]], {}>>
    BY <1>6 DEF Outcomes
  <2>2. [lock |-> "draft", edited |-> FALSE] \in Row
    BY DEF Row, Lock
  <2>. QED
    BY <2>1, <2>2 DEF Week
<1>. QED
  BY <1>2, <1>3, <1>4, <1>5, <1>6 DEF Call, Kind

LEMMA OthersRows == ASSUME rows \in Week, Others PROVE rows' \in Week
<1>1. PICK e \in Entry :
        \/ rows' = [rows EXCEPT ![e] = [lock |-> "draft", edited |-> FALSE]]
        \/ rows' = [rows EXCEPT ![e] = None]
        \/ rows[e] # None /\ rows' = [rows EXCEPT ![e].lock = "synced"]
  BY DEF Others
<1>2. rows[e] # None => [rows[e] EXCEPT !.lock = "synced"] \in Row
  BY DEF Week, Row, Lock
<1>3. [lock |-> "draft", edited |-> FALSE] \in Row
  BY DEF Row, Lock
<1>. QED
  BY <1>1, <1>2, <1>3 DEF Week

\* A step that leaves the copies, and no success untold.
LEMMA CopiesKept ==
  ASSUME CopiesFit, Told' = Told, UNCHANGED <<page, erred, fetch, fetched, rows, blind>>
  PROVE  CopiesFit'
BY DEF CopiesFit

\* Calls awaited by fewer are told the same.
LEMMA UnmountTells ==
  ASSUME CallsTyped, NEW now, call' = Unmount(call, now)
  PROVE  Told' = Told
<1>1. ASSUME NEW s \in Slot, call[s] # None
      PROVE  LET d == [call[s] EXCEPT !.from = FALSE] IN
               d # None /\ d.answer = call[s].answer
  BY <1>1, CallType, NoneAssumption DEF Call
<1>. QED
  BY <1>1 DEF Unmount, Told, Pending

LEMMA TeardownTells ==
  ASSUME CallsTyped, NEW next, Teardown(next)
  PROVE  Told' = Told
<1>1. ASSUME NEW s \in Slot, call[s] # None
      PROVE  LET d == [call[s] EXCEPT !.from = FALSE] IN
               d # None /\ d.answer = call[s].answer
  BY <1>1, CallType, NoneAssumption DEF Call
<1>. QED
  BY <1>1 DEF Teardown, Told, Pending

LEMMA FailsTells ==
  ASSUME CallsTyped, FetchFails
  PROVE  Told' = Told
<1>1. ASSUME NEW s \in Slot, call[s] # None
      PROVE  LET d == [call[s] EXCEPT !.from = FALSE] IN
               d # None /\ d.answer = call[s].answer
  BY <1>1, CallType, NoneAssumption DEF Call
<1>. QED
  BY <1>1 DEF FetchFails, Told, Pending

LEMMA SendsTells ==
  ASSUME CallsTyped, NEW s \in Slot, NEW kind, NEW row, Sends(s, kind, row)
  PROVE  Told' = Told
BY DEF Sends, CallsTyped, Told, Pending

-----------------------------------------------------------------------------
(* Every step keeps them.                                                   *)

LEMMA PageInit == Init => PInv
<1>. SUFFICES ASSUME Init PROVE PInv
  OBVIOUS
<1>1. rows \in Week
  BY DEF Init, Week, Row, Lock
<1>. QED
  BY <1>1 DEF Init, PInv, WeeksTyped, CopiesFit, Editing

LEMMA SubmitPage == ASSUME IInv, PInv, NEW s \in Slot, HandleSubmit(s) PROVE PInv'
<1> DEFINE c == [kind |-> "submit", row |-> None, from |-> TRUE, answer |-> "none", bad |-> {}]
           more == [call EXCEPT ![s] = c]
           now == Kept(expanded, {}, page)
<1>1. /\ call' = Unmount(more, now) /\ editor' = now /\ s \notin Pending
      /\ UNCHANGED <<page, erred, fetch, fetched, rows, blind>>
  BY DEF HandleSubmit, data
<1>2. /\ more \in [Slot -> Call \cup {None}] /\ more[s] = c
      /\ \A t \in Slot \ {s} : more[t] = call[t]
  BY DEF IInv, CallsTyped, Call, Kind
<1>3. ASSUME NEW t \in Slot, more[t] # None
      PROVE  LET d == [more[t] EXCEPT !.from = FALSE] IN
               d # None /\ d.answer = more[t].answer
  <2>1. more[t] \in Call
    BY <1>2, <1>3
  <2>. QED
    BY <2>1, NoneAssumption DEF Call
<1>4. \A t \in Slot : call'[t] # None /\ call'[t].answer = "ok"
                        <=> more[t] # None /\ more[t].answer = "ok"
  BY <1>1, <1>3 DEF Unmount
<1>5. Told' = Told
  <2>1. Told' = {t \in Slot : call'[t] # None /\ call'[t].answer = "ok"}
    BY DEF Told, Pending
  <2>2. Told = {t \in Slot : more[t] # None /\ more[t].answer = "ok"}
    BY <1>1, <1>2 DEF Told, Pending
  <2>. QED
    BY <1>4, <2>1, <2>2
<1>6. WeeksTyped'
  BY <1>1 DEF PInv, WeeksTyped, Kept, Editing
<1>. QED
  BY <1>1, <1>5, <1>6, CopiesKept DEF PInv

LEMMA ServePage == ASSUME IInv, PInv, NEW s \in Slot, Serve(s) PROVE PInv'
<1>1. /\ call[s] # None /\ call[s] \in Call /\ call[s].answer = "none"
      /\ UNCHANGED <<page, erred, fetch, fetched, editor>>
  BY CallType DEF Serve, IInv, ui
<1>2. rows' \in Week
  BY <1>1, OutcomeRows DEF Serve, PInv, WeeksTyped
<1>3. WeeksTyped'
  BY <1>1, <1>2 DEF PInv, WeeksTyped
<1>4. CopiesFit'
  <2>1. ASSUME NEW o \in Outcomes(call[s]),
               call' = [call EXCEPT ![s].answer = "ok", ![s].bad = o[2]]
        PROVE  Told' # {}
    <3>1. call'[s] \in Call /\ call'[s].answer = "ok"
      <4>1. o[2] \in SUBSET Entry
        BY <1>1, OutcomeType
      <4>. QED
        BY <1>1, <2>1, <4>1 DEF IInv, CallsTyped, Call
    <3>. QED
      BY <3>1, NoneAssumption DEF Told, Pending
  <2>2. ASSUME call' = [call EXCEPT ![s].answer = "error"], ~blind, rows' = rows
        PROVE  CopiesFit'
    <3>1. call'[s].answer = "error" /\ \A t \in Slot \ {s} : call'[t] = call[t]
      BY <1>1, <2>2 DEF IInv, CallsTyped, Call
    <3>2. Told' = Told
      BY <1>1, <3>1 DEF Told, Pending
    <3>. QED
      BY <1>1, <2>2, <3>2 DEF PInv, CopiesFit
  <2>3. CASE blind'
    BY <2>3 DEF CopiesFit
  <2>4. ASSUME ~blind'
        PROVE  \/ \E o \in Outcomes(call[s]) : call' = [call EXCEPT ![s].answer = "ok", ![s].bad = o[2]]
               \/ call' = [call EXCEPT ![s].answer = "error"] /\ ~blind /\ rows' = rows
    BY <2>4, Zenon DEF Serve
  <2>. QED
    BY <2>1, <2>2, <2>3, <2>4 DEF CopiesFit
<1>. QED
  BY <1>3, <1>4 DEF PInv

\* A success refetches, or marks for a refetch, or is told too late.
LEMMA SuccessPage == ASSUME IInv, PInv, NEW s \in Slot, Success(s) PROVE PInv'
<1>1. Invalidate /\ UNCHANGED <<page, erred, rows>>
  BY DEF Success, Drops
<1>2. CopiesFit'
  BY <1>1 DEF Invalidate, CopiesFit
<1>3. editor' \in [Entry -> Editing]
  BY DEF Success, PInv, WeeksTyped, Editing
<1>4. WeeksTyped'
  BY <1>1, <1>3 DEF Invalidate, PInv, WeeksTyped
<1>. QED
  BY <1>2, <1>4 DEF PInv

LEMMA FailurePage == ASSUME IInv, PInv, NEW s \in Slot, Failure(s) PROVE PInv'
<1>1. /\ call[s] # None /\ call[s].answer = "error" /\ call' = [call EXCEPT ![s] = None]
      /\ UNCHANGED <<page, erred, fetch, fetched, rows, blind>>
  BY DEF Failure, Drops
<1>2. Told' = Told
  BY <1>1 DEF IInv, CallsTyped, Told, Pending
<1>3. editor' \in [Entry -> Editing]
  BY DEF Failure, PInv, WeeksTyped, Editing
<1>. QED
  BY <1>1, <1>2, <1>3, CopiesKept DEF PInv, WeeksTyped

LEMMA PageKept == IInv /\ PInv /\ [Next]_vars => PInv'
<1>. SUFFICES ASSUME IInv, PInv, [Next]_vars PROVE PInv'
  OBVIOUS
<1>. CallsTyped /\ WeeksTyped /\ CopiesFit
  BY DEF IInv, PInv
<1>1. ASSUME Told' = Told, UNCHANGED <<page, erred, fetch, fetched, rows, blind>>,
             editor' \in [Entry -> Editing]
      PROVE  PInv'
  BY <1>1, CopiesKept DEF PInv, WeeksTyped
<1>2. ASSUME call' = call PROVE Told' = Told
  BY <1>2 DEF Told, Pending
<1>3. CASE OpenModal \/ OpenForm \/ CancelForm \/ (\E e \in Entry : StartEdit(e) \/ CancelEdit(e))
  BY <1>1, <1>2, <1>3
     DEF OpenModal, OpenForm, CancelForm, StartEdit, CancelEdit, data, WeeksTyped, Editing
<1>4. CASE OpenReview \/ Focus \/ FetchServed
  BY <1>2, <1>4 DEF OpenReview, Focus, Fetches, FetchServed, ui, PInv, WeeksTyped, CopiesFit
<1>5. CASE Back \/ Close
  <2>1. PICK next : Unmounts(next)
    BY <1>5 DEF Back, Close
  <2>2. Teardown(next)
    BY <2>1 DEF Unmounts
  <2>3. Told' = Told
    BY <2>2, TeardownTells
  <2>. QED
    BY <1>1, <2>2, <2>3 DEF Teardown, data, Editing
<1>6. CASE ToggleClient
  <2>1. call' = Unmount(call, Kept(~expanded, failed, page))
    BY <1>6 DEF ToggleClient
  <2>2. Told' = Told
    BY <2>1, UnmountTells
  <2>. QED
    BY <1>1, <1>6, <2>2 DEF ToggleClient, data, Kept, Editing, WeeksTyped
<1>7. CASE FetchArrives
  <2>1. call' = Unmount(call, Kept(expanded, failed, fetched))
    BY <1>7 DEF FetchArrives
  <2>2. Told' = Told
    BY <2>1, UnmountTells
  <2>. QED
    BY <1>7, <2>2 DEF FetchArrives, Kept, Editing, PInv, WeeksTyped, CopiesFit
<1>8. ASSUME NEW s \in Slot,
             (\E e \in Entry : SaveEdit(e, s) \/ DeleteEntry(e, s))
               \/ SetClientBillable(s) \/ AddEntry(s)
      PROVE  PInv'
  <2>1. PICK kind, row : Sends(s, kind, row)
    BY <1>8 DEF SaveEdit, DeleteEntry, SetClientBillable, AddEntry
  <2>2. Told' = Told
    BY <2>1, SendsTells
  <2>. QED
    BY <1>1, <1>8, <2>2
       DEF SaveEdit, DeleteEntry, SetClientBillable, AddEntry, ui, data, WeeksTyped, Editing
<1>9. CASE Others
  <2>1. rows' \in Week
    BY <1>9, OthersRows DEF WeeksTyped
  <2>. QED
    BY <1>9, <2>1 DEF Others, ui, PInv, WeeksTyped, CopiesFit
<1>10. CASE UNCHANGED vars
  BY <1>1, <1>2, <1>10 DEF vars, ui, data, WeeksTyped
<1>11. CASE FetchFails
  BY <1>11, FailsTells DEF FetchFails, PInv, WeeksTyped, CopiesFit, Editing
<1>. QED
  BY <1>3, <1>4, <1>5, <1>6, <1>7, <1>8, <1>9, <1>10, <1>11, SubmitPage, ServePage, SuccessPage,
     FailurePage DEF Next

\* In every behaviour an answer that is neither marked nor in error is the
\* server's week, and so is one on its way.
THEOREM PageInvariance == Spec => []PInv
BY InitInv, InvKept, PageInit, PageKept, PTL DEF Spec

\* At rest the review shows the server's rows, however answers, failures and
\* refetches overtook one another, unless it shows an answer marked while it
\* was off the screen.
THEOREM PageComesToBeTheWeek == Spec => []PageIsTheWeek
<1>1. PInv => PageIsTheWeek
  BY DEF PInv, CopiesFit, Told, PageIsTheWeek, Showing
<1>. QED
  BY <1>1, PageInvariance, PTL

\* An editor is closed by its user, by its accepted save, with its row or with
\* the rows of its client, by the card of a refetch that failed, and by
\* nothing else.
THEOREM EditorsStay == Spec => EditorsKept
<1> DEFINE ClosedFor(e) ==
             editor[e] # "closed" /\ editor'[e] = "closed" =>
               \/ view' # view \/ ~IsOpen(expanded', failed', page')
               \/ editor[e] = "open" /\ CancelEdit(e)
               \/ \E s \in Pending : call[s].row = e /\ call[s].kind = "edit" /\ Success(s)
               \/ page'[e] = None
               \/ erred'
<1>1. ASSUME PInv, [Next]_vars, NEW e \in Entry PROVE ClosedFor(e)
  <2>. editor \in [Entry -> Editing]
    BY <1>1 DEF PInv, WeeksTyped
  <2>1. CASE editor' = editor
    BY <2>1
  <2>2. CASE Back \/ Close
    BY <2>2 DEF Back, Close, Unmounts, Teardown
  <2>3. CASE ToggleClient
    BY <2>3 DEF ToggleClient, Kept, data, Showing
  <2>4. ASSUME NEW s \in Slot, HandleSubmit(s) PROVE ClosedFor(e)
    BY <2>4 DEF HandleSubmit, Kept, data, Showing
  <2>5. CASE FetchArrives
    <3>1. fetched # None
      BY <1>1, <2>5, NoneAssumption DEF FetchArrives, PInv, WeeksTyped
    <3>. QED
      BY <2>5, <3>1 DEF FetchArrives, Kept
  <2>6. ASSUME NEW f \in Entry, StartEdit(f) \/ \E s \in Slot : SaveEdit(f, s)
        PROVE  ClosedFor(e)
    BY <2>6 DEF StartEdit, SaveEdit
  <2>7. ASSUME NEW f \in Entry, CancelEdit(f) PROVE ClosedFor(e)
    <3>1. f = e \/ editor'[e] = editor[e]
      BY <2>7 DEF CancelEdit
    <3>2. editor[f] = "open"
      BY <2>7 DEF CancelEdit
    <3>. QED
      BY <2>7, <3>1, <3>2
  <2>8. ASSUME NEW s \in Slot, Success(s) PROVE ClosedFor(e)
    BY <2>8 DEF Success, Pending
  <2>9. ASSUME NEW s \in Slot, Failure(s) PROVE ClosedFor(e)
    BY <2>9 DEF Failure
  <2>10. ASSUME NEW s \in Slot,
                (\E f \in Entry : DeleteEntry(f, s)) \/ SetClientBillable(s) \/ AddEntry(s) \/ Serve(s)
         PROVE  editor' = editor
    BY <2>10 DEF DeleteEntry, SetClientBillable, AddEntry, Serve, ui
  <2>11. ASSUME \/ OpenModal \/ OpenReview \/ OpenForm \/ CancelForm
                \/ Others \/ Focus \/ FetchServed \/ UNCHANGED vars
         PROVE  editor' = editor
    BY <2>11 DEF OpenModal, OpenReview, OpenForm, CancelForm, Others, Focus, FetchServed,
                 vars, ui
  <2>12. CASE FetchFails
    BY <2>12 DEF FetchFails
  <2>. QED
    BY <1>1, <2>1, <2>2, <2>3, <2>4, <2>5, <2>6, <2>7, <2>8, <2>9, <2>10, <2>11, <2>12 DEF Next
<1>2. PInv /\ [Next]_vars => [\A e \in Entry : ClosedFor(e)]_vars
  BY <1>1
<1>. QED
  BY <1>2, PageInvariance, PTL DEF Spec, EditorsKept
=============================================================================
