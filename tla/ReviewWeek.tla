------------------------------- MODULE ReviewWeek -------------------------------
(***************************************************************************)
(* The developer's review of the week (CapacityModal, ReviewSubmitView and *)
(* the hooks of useMyTimesheet), with the submit to QuickBooks on          *)
(* (VITE_QUICKBOOKS_SUBMIT): the rows of one client on one day, shown from *)
(* a cached answer, edited in place, added, deleted, marked billable and   *)
(* submitted.  The hooks' callbacks refetch; those given to mutate are     *)
(* dropped when the view that called it is gone.                           *)
(*                                                                         *)
(* A row is edited or as it was logged (hours, description, billable).  The *)
(* server's side is what its endpoints do to the rows; TimesheetSync has    *)
(* the push itself.                                                         *)
(***************************************************************************)
EXTENDS Naturals

CONSTANTS
  Entry,        \* bound: rows of the week
  Slot,         \* bound: mutations in flight
  MaxCalls,     \* bound: mutations in all
  MaxOthers,    \* bound: changes by the admin's push and other pages
  None

ASSUME ReviewAssumption ==
  Entry # {} /\ Slot # {} /\ MaxCalls \in Nat /\ MaxOthers \in Nat

VARIABLES
  view,       \* the modal: closed, its summary or the review
  syncing,    \* isSyncing, which locks the modal
  banner,     \* lastResult or lastError is shown
  failed,     \* the rows lastResult reports (failedById)
  expanded,   \* the client is in expandedClients
  editor,     \* the editor of each row
  form,       \* the form that adds a row
  page,       \* the cached answer
  erred,      \* timesheetQuery.error: the last fetch failed
  fetch,      \* the query: idle, due (invalidated), sent or answered
  fetched,    \* the answer on its way
  rows,       \* the server's rows
  call,       \* mutations
  left,       \* the review was left while a submit was pending
  blind,      \* rows changed and no refetch will tell
  others, sent

ui == <<view, syncing, banner, failed, expanded, editor, form, left>>
data == <<page, erred, fetch, fetched, rows, blind, others>>
vars == <<ui, data, call, sent>>

Lock == {"draft", "submitted", "synced"}
Row == [lock : Lock, edited : BOOLEAN]
Week == [Entry -> Row \cup {None}]
Editing == {"closed", "open", "saving"}
Kind == {"submit", "edit", "delete", "billable", "add"}
\* from: the component that waits for the answer is still mounted.  bad: the
\* rows a submit reports as failed.
Call == [kind : Kind, row : Entry \cup {None}, from : BOOLEAN,
         answer : {"none", "ok", "error"}, bad : SUBSET Entry]

ASSUME NoneAssumption == None \notin Call /\ None \notin Entry /\ None \notin Week

TypeOK ==
  /\ view \in {"closed", "summary", "review"} /\ syncing \in BOOLEAN
  /\ banner \in {"none", "result", "error"}
  /\ failed \subseteq Entry /\ (failed # {} => banner = "result")
  /\ expanded \in BOOLEAN
  /\ editor \in [Entry -> Editing] /\ form \in Editing
  /\ page \in Week \cup {None}
  /\ fetch \in {"idle", "due", "sent", "answered"}
  /\ fetched \in Week \cup {None} /\ (fetched # None <=> fetch = "answered")
  /\ rows \in Week
  /\ call \in [Slot -> Call \cup {None}]
  /\ left \in BOOLEAN /\ blind \in BOOLEAN /\ erred \in BOOLEAN /\ others \in 0..MaxOthers
  /\ sent \in 0..MaxCalls
  /\ \A e \in Entry : editor[e] # "closed" =>
       view = "review" /\ ~erred /\ page[e] # None /\ (expanded \/ failed # {})
  /\ form # "closed" => view = "review" /\ ~erred /\ page # None

Init ==
  /\ view = "closed" /\ syncing = FALSE /\ banner = "none" /\ failed = {}
  /\ expanded = FALSE /\ editor = [e \in Entry |-> "closed"] /\ form = "closed"
  /\ page = None /\ erred = FALSE /\ fetch = "idle" /\ fetched = None
  /\ rows \in [Entry -> [lock : {"draft"}, edited : {FALSE}] \cup {None}]
  /\ call = [s \in Slot |-> None]
  /\ left = FALSE /\ blind = FALSE /\ others = 0 /\ sent = 0

Pending == {s \in Slot : call[s] # None}
Submits == {s \in Pending : call[s].kind = "submit"}
MySubmits == {s \in Submits : call[s].from}
\* A query in error shows its card in place of the week.
Showing == view = "review" /\ page # None /\ ~erred
Draft(e) == page[e] # None /\ page[e].lock = "draft"

\* The rows of the client are mounted while it is expanded or one of them
\* failed (isOpen); a row that is not mounted has no editor.
IsOpen(wide, bad, shown) ==
  wide \/ (shown # None /\ \E e \in bad : shown[e] # None)
Kept(wide, bad, shown) ==
  [e \in Entry |-> IF IsOpen(wide, bad, shown) /\ shown # None /\ shown[e] # None
                   THEN editor[e] ELSE "closed"]
\* Their saves go on, awaited by nobody.
Unmount(c, now) ==
  [s \in Slot |-> IF c[s] # None /\ c[s].kind = "edit" /\ c[s].from
                       /\ now[c[s].row] = "closed"
                  THEN [c[s] EXCEPT !.from = FALSE] ELSE c[s]]

-----------------------------------------------------------------------------
(* The modal.                                                               *)

OpenModal ==
  /\ view = "closed" /\ view' = "summary"
  /\ UNCHANGED <<syncing, banner, failed, expanded, editor, form, left, data, call, sent>>

\* A fetch that starts; the error of the last one goes when there is no answer.
Fetches ==
  /\ fetch \in {"idle", "due"} /\ fetch' = "sent"
  /\ blind' = FALSE /\ erred' = (erred /\ page # None)

\* A new view fetches when there is no answer at all: refetchOnMount is FALSE,
\* so a cached one is shown as it is, be it old, invalidated or in error.
OpenReview ==
  /\ view = "summary" /\ view' = "review"
  /\ \/ page = None /\ Fetches
     \/ (page # None \/ fetch = "sent" \/ fetch = "answered") /\ UNCHANGED <<fetch, blind, erred>>
  /\ UNCHANGED <<syncing, banner, failed, expanded, editor, form, left, page, fetched,
                 rows, call, others, sent>>

\* The view goes, with its banner, its editors and its lock of the modal.
Teardown(next) ==
  /\ view' = next
  /\ banner' = "none" /\ failed' = {} /\ expanded' = FALSE
  /\ editor' = [e \in Entry |-> "closed"] /\ form' = "closed"
  /\ call' = [s \in Slot |-> IF call[s] = None THEN None ELSE [call[s] EXCEPT !.from = FALSE]]
  /\ UNCHANGED <<data, sent>>

Unmounts(next) ==
  Teardown(next) /\ left' = (left \/ MySubmits # {}) /\ syncing' = FALSE

\* The Back arrow works at any time, a submit pending or not.
Back == view = "review" /\ Unmounts("summary")

(* Faulty: the modal closes while the submit runs. *)
CloseUnlocked == view # "closed" /\ Teardown("closed") /\ syncing' = FALSE /\ UNCHANGED left
\* handleOpenChange: no closing while syncing.
Close == view # "closed" /\ ~syncing /\ Unmounts("closed")

ToggleClient ==
  /\ Showing /\ expanded' = ~expanded
  /\ LET now == Kept(~expanded, failed, page) IN
       editor' = now /\ call' = Unmount(call, now)
  /\ UNCHANGED <<view, syncing, banner, failed, form, left, data, sent>>

-----------------------------------------------------------------------------
(* Rows and the submit.                                                     *)

Sends(s, kind, row) ==
  /\ s \notin Pending /\ sent < MaxCalls /\ sent' = sent + 1
  /\ call' = [call EXCEPT ![s] =
       [kind |-> kind, row |-> row, from |-> TRUE, answer |-> "none", bad |-> {}]]

\* A locked row has no buttons.
StartEdit(e) ==
  /\ Showing /\ IsOpen(expanded, failed, page) /\ Draft(e)
  /\ editor[e] = "closed" /\ editor' = [editor EXCEPT ![e] = "open"]
  /\ UNCHANGED <<view, syncing, banner, failed, expanded, form, left, data, call, sent>>

CancelEdit(e) ==
  /\ editor[e] = "open" /\ editor' = [editor EXCEPT ![e] = "closed"]
  /\ UNCHANGED <<view, syncing, banner, failed, expanded, form, left, data, call, sent>>

SaveEdit(e, s) ==
  /\ editor[e] = "open" /\ editor' = [editor EXCEPT ![e] = "saving"]
  /\ Sends(s, "edit", e)
  /\ UNCHANGED <<view, syncing, banner, failed, expanded, form, left, data>>

\* Confirmed; nothing keeps it from being asked for again.
DeleteEntry(e, s) ==
  /\ Showing /\ IsOpen(expanded, failed, page) /\ Draft(e) /\ editor[e] = "closed"
  /\ Sends(s, "delete", e)
  /\ UNCHANGED <<ui, data>>

SetClientBillable(s) ==
  /\ Showing /\ \E e \in Entry : Draft(e)
  /\ Sends(s, "billable", None)
  /\ UNCHANGED <<ui, data>>

OpenForm ==
  /\ Showing /\ form = "closed" /\ form' = "open"
  /\ UNCHANGED <<view, syncing, banner, failed, expanded, editor, left, data, call, sent>>

CancelForm ==
  /\ form = "open" /\ form' = "closed"
  /\ UNCHANGED <<view, syncing, banner, failed, expanded, editor, left, data, call, sent>>

AddEntry(s) ==
  /\ form = "open" /\ form' = "saving"
  /\ Sends(s, "add", None)
  /\ UNCHANGED <<view, syncing, banner, failed, expanded, editor, left, data>>

(* Faulty: the pending submit is overlooked. *)
DisabledWhenNothing == ~\E e \in Entry : Draft(e)
\* submitDisabled, by the page and by the mutation of this view.
SubmitDisabled == (~\E e \in Entry : Draft(e)) \/ MySubmits # {}

\* The last result is cleared, and the client with it that only its failures
\* kept open.
HandleSubmit(s) ==
  /\ Showing /\ ~SubmitDisabled
  /\ banner' = "none" /\ failed' = {} /\ syncing' = TRUE
  /\ s \notin Pending /\ sent < MaxCalls /\ sent' = sent + 1
  /\ LET now == Kept(expanded, {}, page)
         submit == [kind |-> "submit", row |-> None, from |-> TRUE,
                    answer |-> "none", bad |-> {}] IN
       editor' = now /\ call' = Unmount([call EXCEPT ![s] = submit], now)
  /\ UNCHANGED <<view, expanded, form, left, data>>

-----------------------------------------------------------------------------
(* The server.  A request may fail before or after it did its work.          *)

Locks(now, done) ==
  [e \in Entry |-> IF now[e] = None \/ now[e].lock = "synced" THEN now[e]
                   ELSE [now[e] EXCEPT !.lock = IF e \in done THEN "synced" ELSE "submitted"]]
Todo == {e \in Entry : rows[e] # None /\ rows[e].lock # "synced"}
Drafts == {e \in Entry : rows[e] # None /\ rows[e].lock = "draft"}

\* What a request makes of the rows when it succeeds, and the rows it reports.
Outcomes(c) ==
  CASE c.kind = "submit" -> {<<Locks(rows, done), Todo \ done>> : done \in SUBSET Todo}
    [] c.kind = "edit" ->
         {<<[rows EXCEPT ![e].edited = TRUE], {}>> : e \in Drafts \cap {c.row}}
    [] c.kind = "delete" -> {<<[rows EXCEPT ![e] = None], {}>> : e \in Drafts \cap {c.row}}
    [] c.kind = "billable" ->
         {<<[e \in Entry |-> IF e \in Drafts THEN [rows[e] EXCEPT !.edited = TRUE]
                             ELSE rows[e]], {}>>}
    [] c.kind = "add" ->
         {<<[rows EXCEPT ![e] = [lock |-> "draft", edited |-> FALSE]], {}>> :
             e \in {f \in Entry : rows[f] = None}}

Serve(s) ==
  /\ call[s] # None /\ call[s].answer = "none"
  /\ \/ \E o \in Outcomes(call[s]) :
          /\ rows' = o[1]
          /\ \/ /\ call' = [call EXCEPT ![s].answer = "ok", ![s].bad = o[2]]
                /\ UNCHANGED blind
             \/ call' = [call EXCEPT ![s].answer = "error"] /\ blind' = (blind \/ rows' # rows)
     \/ /\ call' = [call EXCEPT ![s].answer = "error"]
        /\ UNCHANGED <<rows, blind>>
  /\ UNCHANGED <<ui, page, erred, fetch, fetched, others, sent>>

\* The admin's push, the drawer of a ticket, another tab.
Others ==
  /\ others < MaxOthers /\ others' = others + 1
  /\ \E e \in Entry :
       \/ rows[e] = None /\ rows' = [rows EXCEPT ![e] = [lock |-> "draft", edited |-> FALSE]]
       \/ rows[e] # None /\ rows[e].lock = "draft" /\ rows' = [rows EXCEPT ![e] = None]
       \/ rows[e] # None /\ rows[e].lock # "synced" /\ rows' = [rows EXCEPT ![e].lock = "synced"]
  /\ blind' = TRUE
  /\ UNCHANGED <<ui, page, erred, fetch, fetched, call, sent>>

-----------------------------------------------------------------------------
(* Answers.                                                                 *)

(* Faulty: only the view on the screen refetches. *)
InvalidateShown ==
  IF view = "review" THEN fetch' = "sent" /\ fetched' = None /\ blind' = FALSE
  ELSE UNCHANGED <<fetch, fetched, blind>>
\* invalidateQueries refetches for a mounted view, whose fetch starts anew;
\* otherwise it only marks the answer, and a fetch that the server has already
\* answered clears the mark with rows of before.
Invalidate ==
  IF view = "review" THEN fetch' = "sent" /\ fetched' = None /\ blind' = FALSE
  ELSE /\ fetch' = (IF fetch = "idle" THEN "due" ELSE fetch)
       /\ blind' = (blind \/ fetch = "answered") /\ UNCHANGED fetched

Drops(s) ==
  /\ call' = [call EXCEPT ![s] = None]
  /\ left' = (left /\ Submits \ {s} # {})
  /\ UNCHANGED <<view, expanded, page, erred, rows, others, sent>>

\* The hook's onSuccess in every case; mutate's only for the view that asked.
Success(s) ==
  LET c == call[s] IN
    /\ c # None /\ c.answer = "ok"
    /\ Invalidate
    /\ IF c.kind = "submit" /\ c.from
       THEN banner' = "result" /\ failed' = c.bad /\ syncing' = FALSE
       ELSE UNCHANGED <<banner, failed, syncing>>
    /\ editor' = IF c.kind = "edit" /\ c.from THEN [editor EXCEPT ![c.row] = "closed"] ELSE editor
    /\ form' = IF c.kind = "add" /\ c.from THEN "closed" ELSE form
    /\ Drops(s)

(* Faulty: a failure closes the editor. *)
FailureCloses(s) ==
  LET c == call[s] IN
    /\ c # None /\ c.answer = "error"
    /\ IF c.kind = "submit" /\ c.from
       THEN banner' = "error" /\ syncing' = FALSE ELSE UNCHANGED <<banner, syncing>>
    /\ editor' = IF c.kind = "edit" /\ c.from THEN [editor EXCEPT ![c.row] = "closed"] ELSE editor
    /\ form' = IF c.kind = "add" /\ c.from THEN "open" ELSE form
    /\ Drops(s)
    /\ UNCHANGED <<failed, fetch, fetched, blind>>
\* An editor or form whose save failed stays, with its error.
Failure(s) ==
  LET c == call[s] IN
    /\ c # None /\ c.answer = "error"
    /\ IF c.kind = "submit" /\ c.from
       THEN banner' = "error" /\ syncing' = FALSE ELSE UNCHANGED <<banner, syncing>>
    /\ editor' = IF c.kind = "edit" /\ c.from THEN [editor EXCEPT ![c.row] = "open"] ELSE editor
    /\ form' = IF c.kind = "add" /\ c.from THEN "open" ELSE form
    /\ Drops(s)
    /\ UNCHANGED <<failed, fetch, fetched, blind>>

\* The query of an old, marked or failed answer, when the window gets the focus.
Focus ==
  /\ view = "review" /\ Fetches
  /\ UNCHANGED <<ui, page, fetched, rows, call, others, sent>>

FetchServed ==
  /\ fetch = "sent" /\ fetch' = "answered" /\ fetched' = rows
  /\ UNCHANGED <<ui, page, erred, rows, call, blind, others, sent>>

FetchArrives ==
  /\ fetch = "answered" /\ page' = fetched /\ erred' = FALSE
  /\ fetch' = "idle" /\ fetched' = None
  /\ LET now == Kept(expanded, failed, fetched) IN
       editor' = now /\ call' = Unmount(call, now)
  /\ UNCHANGED <<view, syncing, banner, failed, expanded, form, left, rows, blind, others, sent>>

\* Its card takes the place of the days, with the clients opened there, the
\* editors and the form; ReviewSubmitView stays, with its submit and banner.
FetchFails ==
  /\ fetch = "sent" /\ fetch' = "idle" /\ erred' = TRUE
  /\ expanded' = FALSE /\ editor' = [e \in Entry |-> "closed"] /\ form' = "closed"
  /\ call' = [s \in Slot |-> IF call[s] = None \/ call[s].kind = "submit" THEN call[s]
                             ELSE [call[s] EXCEPT !.from = FALSE]]
  /\ UNCHANGED <<view, syncing, banner, failed, left, page, fetched, rows, blind, others, sent>>

Next ==
  \/ OpenModal \/ OpenReview \/ Back \/ Close \/ ToggleClient
  \/ OpenForm \/ CancelForm
  \/ \E e \in Entry : StartEdit(e) \/ CancelEdit(e)
  \/ \E s \in Slot :
       \/ \E e \in Entry : SaveEdit(e, s) \/ DeleteEntry(e, s)
       \/ SetClientBillable(s) \/ AddEntry(s) \/ HandleSubmit(s)
       \/ Serve(s) \/ Success(s) \/ Failure(s)
  \/ Others \/ Focus \/ FetchServed \/ FetchArrives \/ FetchFails

Spec == Init /\ [][Next]_vars

-----------------------------------------------------------------------------
(* Properties.                                                              *)

\* Whoever submitted will see what came of it: a pending submit has the view
\* that sent it on the screen, or its error card, which keeps the result for
\* the rows' return, unless the user left by the Back arrow (the lock of
\* CapacityModal's handleOpenChange).
OutcomeSeen == Submits = MySubmits \/ left

\* The week is not submitted twice at once, unless by a view opened after
\* leaving the one that is waiting (submitDisabled).
OneSubmit == (\A s, t \in Submits : s = t) \/ left

\* With nothing under way, the review shows the server's rows, locks
\* included, however answers, failed fetches and refetches overtook one
\* another (the invalidations of useMyTimesheet).  Left out are changes the
\* client cannot know of, and an answer of a change that came while the review
\* was off the screen: that only marks the rows ("due"), and the next view
\* shows them until the window gets the focus.
PageIsTheWeek ==
  Showing /\ fetch = "idle" /\ Pending = {} /\ ~blind => page = rows

\* What was typed into a row's editor goes by the user's own step, by an
\* accepted save, with the row, with the rows of a client that closes (one
\* that only its failures kept open is closed by the next submit), or with
\* all rows, when a refetch fails and its card takes their place; no failed
\* save, late answer or refetch that succeeds closes it.
EditorsKept ==
  [][\A e \in Entry : editor[e] # "closed" /\ editor'[e] = "closed" =>
       \/ view' # view \/ ~IsOpen(expanded', failed', page')
       \/ editor[e] = "open" /\ CancelEdit(e)
       \/ \E s \in Pending : call[s].row = e /\ call[s].kind = "edit" /\ Success(s)
       \/ page'[e] = None
       \/ erred']_vars
=============================================================================
