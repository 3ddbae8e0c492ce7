-------------------------- MODULE HoursLedgerProofs --------------------------
(* Proofs about HoursLedger, for every value of its constants. *)
EXTENDS HoursLedger, TLAPS

(* What is loaded, written and summed keeps the types.                     *)
LEMMA ChangedTyped ==
  ASSUME NEW S, NEW new \in S, NEW old
  PROVE  Changed(new, old) \in S \cup {Keep}
BY DEF Changed

LEMMA OverTyped ==
  ASSUME NEW S, NEW new \in S \cup {Keep}, NEW old \in S
  PROVE  Over(new, old) \in S
BY DEF Over

LEMMA TotalTyped == ASSUME NEW f PROVE Total(f) \in Int
BY DEF Total

LEMMA LoggedTyped == ASSUME NEW es, NEW i PROVE Logged(es, i) \in Int
BY TotalTyped DEF Logged

LEMMA PositiveTyped == ASSUME NEW n \in Int PROVE Positive(n) \in Nat
BY DEF Positive

LEMMA NoRowTyped == NoRow \in ItemRow
BY DEF NoRow, ItemRow

LEMMA LoadTyped == ASSUME TypeOK, NEW is PROVE Load(is) \in [Item -> ItemRow]
BY NoRowTyped DEF Load, TypeOK

LEMMA NothingTyped ==
  /\ NoWrite \in Write
  /\ NoTotals \in [Epic -> [Column -> Int \cup {Keep}]]
BY DEF NoWrite, Write, NoTotals

LEMMA IdleTyped == Idle \in Task
BY NothingTyped, NoRowTyped DEF Idle, Task, TaskRow, Handler

LEMMA DerivedTyped ==
  ASSUME NEW row \in ItemRow, NEW sum \in Int PROVE Derived(row, sum) \in Write
<1>1. row.est \in Int /\ row.est - sum \in Int
  BY DEF ItemRow
<1>2. Changed(sum, row.logged) \in Int \cup {Keep}
  BY ChangedTyped
<1>3. Changed(Positive(row.est - sum), row.remaining) \in Nat \cup {Keep}
  BY <1>1, PositiveTyped, ChangedTyped
<1>. QED
  BY <1>2, <1>3, NothingTyped DEF Derived, Write

LEMMA WrittenTyped ==
  ASSUME TypeOK, NEW i \in Item, NEW w \in Write
  PROVE  /\ Written(i, w) \in ItemRow
         /\ i \notin Epic => Written(i, w).remaining \in Nat
         /\ Written(i, w).life = item[i].life
<1>1. item[i] \in ItemRow /\ (i \notin Epic => item[i].remaining \in Nat)
  BY DEF TypeOK
<1>2. Over(w.up, item[i].up) \in Item \cup {NoItem}
  BY <1>1, OverTyped DEF Write, ItemRow
<1>3. Over(w.est, item[i].est) \in Int /\ Over(w.logged, item[i].logged) \in Int
  BY <1>1, OverTyped DEF Write, ItemRow
<1>4. Over(w.remaining, item[i].remaining) \in Int
  BY <1>1 DEF Over, Write, ItemRow
<1>5. i \notin Epic => Over(w.remaining, item[i].remaining) \in Nat
  BY <1>1, OverTyped DEF Write
<1>. QED
  BY <1>1, <1>2, <1>3, <1>4, <1>5 DEF Written, ItemRow

(* A request that begins, proceeds or ends stays a request.                *)
TasksTyped == task \in [Req -> Task]

LEMMA BeginTyped ==
  ASSUME TypeOK, NEW r \in Req, NEW t \in Task, Begin(r, t) PROVE TasksTyped'
<1> DEFINE c(s) == task[s].clear /\ task[s].items \cap t.items = {}
           d == \A q \in Req : task[q].items \cap t.items = {}
<1>1. \A s \in Req : c(s) \in BOOLEAN
  OBVIOUS
<1>2. d \in BOOLEAN
  OBVIOUS
<1>3. \A s \in Req : task[s] \in Task
  BY DEF TypeOK
<1>4. task' = [s \in Req |-> IF s = r THEN [t EXCEPT !.clear = d]
                             ELSE [task[s] EXCEPT !.clear = c(s)]]
  BY DEF Begin
<1> HIDE DEF c, d
<1>5. [t EXCEPT !.clear = d] \in Task
  BY <1>2 DEF Task, TaskRow
<1>6. \A s \in Req : [task[s] EXCEPT !.clear = c(s)] \in Task
  <2> TAKE s \in Req
  <2> DEFINE u == c(s)
  <2>1. u \in BOOLEAN
    BY <1>1
  <2> HIDE DEF u
  <2>2. [task[s] EXCEPT !.clear = u] \in Task
    <3>1. task[s] \in Task
      BY <1>3
    <3> DEFINE x == task[s]
    <3> HIDE DEF x
    <3>2. x \in Task => [x EXCEPT !.clear = u] \in Task
      BY <2>1 DEF Task, TaskRow
    <3>. QED
      BY <3>1, <3>2 DEF x
  <2>. QED
    BY <2>2 DEF u
<1>. QED
  BY <1>4, <1>5, <1>6 DEF TasksTyped

LEMMA StepTyped ==
  ASSUME TypeOK, NEW r \in Req, NEW t \in Task, Step(r, t) PROVE TasksTyped'
BY DEF Step, TypeOK, TasksTyped

LEMMA EndTyped == ASSUME TypeOK, NEW r \in Req, End(r) PROVE TasksTyped'
BY StepTyped, IdleTyped DEF End

Changes == [Entry -> EntryRow \cup {Keep}]

LEMMA RecomputeTyped ==
  ASSUME TypeOK, NEW r \in Req, NEW is \in SUBSET Item, NEW seen \in [Item -> ItemRow],
         NEW change \in Changes, Recompute(r, is, seen, change)
  PROVE  TasksTyped'
<1> DEFINE w(i) == Derived(seen[i], Logged(Flushed(change), i))
           t == [task[r] EXCEPT !.stage = "commit", !.items = is, !.seen = seen,
                                !.change = change, !.write = On(is, w)]
<1>1. \A i \in Item : w(i) \in Write
  BY LoggedTyped, DerivedTyped
<1>2. On(is, w) \in [Item -> Write]
  <2> HIDE DEF w
  <2>. QED
    BY <1>1, NothingTyped DEF On
<1>3. task[r] \in Task
  BY DEF TypeOK
<1>4. t \in Task
  <2> HIDE DEF w
  <2>. QED
    BY <1>2, <1>3 DEF Task, TaskRow, Changes
<1>5. Step(r, t)
  BY DEF Recompute
<1> HIDE DEF t
<1>. QED
  BY <1>4, <1>5, StepTyped

LEMMA PutTyped ==
  ASSUME NEW es, NEW x \in EntryRow
  PROVE  Put(es, LAMBDA e : x) \in Changes
BY DEF Put, Changes

LEMMA RemovedTyped ==
  ASSUME TypeOK, NEW es
  PROVE  Put(es, Removed) \in Changes
BY DEF Put, Changes, Removed, TypeOK, EntryRow

(* What a request is as it begins, and what it does to the tables.         *)
Begun(r, t) ==
  /\ Begin(r, t) /\ UNCHANGED entry
  /\ t.stage \in {"read", "commit", "rollup"}
  /\ t.op \in Recomputes => t.stage = "read"
  /\ \A e \in Entry : t.change[e] = Keep
  /\ \A i \in Item : t.write[i].logged = Keep
  /\ \A e \in t.entries : IF t.op = "log"
       THEN entry[e].on = NoItem /\ \A s \in Req : e \notin task[s].entries
       ELSE t.op # "repair" /\ entry[e].on \in t.items \ {NoItem}
  /\ t.stage = "read" /\ t.op \in {"log", "delete", "repair"} => t.seen = Load(t.items)
  /\ \/ UNCHANGED item
     \/ \E i \in t.items : \E row \in ItemRow :
          /\ item[i].life = "new" /\ item' = [item EXCEPT ![i] = row]
          /\ t.stage = "rollup" /\ row.life = "live" /\ row.logged = 0 /\ row.remaining \in Nat

LEMMA OnTyped == ASSUME TypeOK, NEW e \in Entry PROVE entry[e].on \in Item \cup {NoItem}
BY DEF TypeOK, EntryRow

LEMMA IdleFields ==
  /\ Idle.items = {} /\ Idle.entries = {} /\ Idle.stage = "idle"
  /\ \A e \in Entry : Idle.change[e] = Keep
  /\ \A i \in Item : Idle.write[i] = NoWrite
BY DEF Idle

LEMMA NoWriteFields == NoWrite.logged = Keep
BY DEF NoWrite

(* The requests that read and write nothing yet. *)
Reading == {"log", "edit", "delete", "remove", "dedupe", "repair"}
LEMMA ReaderBegins ==
  ASSUME NEW r \in Req, NEW t \in Task, Begin(r, t), UNCHANGED <<item, entry>>,
         t.stage = "read", t.change = Idle.change, t.write = Idle.write,
         t.op \in {"log", "delete", "repair"} => t.seen = Load(t.items),
         \A e \in t.entries : IF t.op = "log"
           THEN entry[e].on = NoItem /\ \A s \in Req : e \notin task[s].entries
           ELSE t.op # "repair" /\ entry[e].on \in t.items \ {NoItem}
  PROVE  \E u \in Task : Begun(r, u)
BY IdleFields, NoWriteFields DEF Begun

LEMMA LogBegins ==
  ASSUME TypeOK, NEW r \in Req, NEW i \in Item, NEW e \in Entry, NEW h \in Hours,
         LogHours(r, i, e, h)
  PROVE  \E t \in Task : Begun(r, t)
<1> DEFINE seen == Load({i})
           t == [Idle EXCEPT !.stage = "read", !.op = "log", !.entries = {e},
                           !.hours = h, !.items = {i}, !.seen = seen]
<1>1. seen \in [Item -> ItemRow] /\ seen = Load({i}) /\ h # Keep /\ entry[e].on = NoItem
  BY LedgerAssumption, LoadTyped DEF LogHours, NoEntry
<1>2. Begin(r, t) /\ UNCHANGED <<item, entry>>
  BY DEF LogHours, seen
<1> HIDE DEF seen
<1>3. t \in Task
  BY <1>1, IdleTyped DEF Task, TaskRow, Handler
<1>4. /\ t.stage = "read" /\ t.op = "log" /\ t.entries = {e} /\ t.items = {i}
      /\ t.seen = seen /\ t.change = Idle.change /\ t.write = Idle.write
  BY IdleTyped, IdleFields DEF Task, TaskRow
<1> HIDE DEF t
<1>. QED
  BY <1>1, <1>2, <1>3, <1>4, ReaderBegins DEF LogHours

LEMMA EditBegins ==
  ASSUME TypeOK, NEW r \in Req, NEW e \in Entry, NEW h \in Hours, EditEntry(r, e, h)
  PROVE  \E t \in Task : Begun(r, t)
<1> DEFINE is == {entry[e].on}
           hours == Changed(h, entry[e].hours)
           t == [Idle EXCEPT !.stage = "read", !.op = "edit", !.entries = {e},
                           !.hours = hours, !.items = is, !.seen = Load(is)]
<1>1. /\ entry[e].on \in is \ {NoItem} /\ is \in SUBSET Item
      /\ hours \in Hours \cup {Keep} /\ Load(is) \in [Item -> ItemRow]
  BY OnTyped, ChangedTyped, LoadTyped DEF EditEntry
<1>2. Begin(r, t) /\ UNCHANGED <<item, entry>>
  BY DEF EditEntry
<1> HIDE DEF is, hours
<1>3. t \in Task
  BY <1>1, IdleTyped DEF Task, TaskRow, Handler
<1>4. /\ t.stage = "read" /\ t.op = "edit" /\ t.entries = {e} /\ t.items = is
      /\ t.seen = Load(is) /\ t.change = Idle.change /\ t.write = Idle.write
  BY IdleTyped, IdleFields DEF Task, TaskRow
<1> HIDE DEF t
<1>. QED
  BY <1>1, <1>2, <1>3, <1>4, ReaderBegins DEF EditEntry

LEMMA DeleteBegins ==
  ASSUME TypeOK, NEW r \in Req, NEW e \in Entry, DeleteEntry(r, e)
  PROVE  \E t \in Task : Begun(r, t)
<1> DEFINE is == {entry[e].on}
           t == [Idle EXCEPT !.stage = "read", !.op = "delete", !.entries = {e},
                           !.items = is, !.seen = Load(is)]
<1>1. /\ entry[e].on \in is \ {NoItem} /\ is \in SUBSET Item
      /\ Load(is) \in [Item -> ItemRow]
  BY OnTyped, LoadTyped DEF DeleteEntry
<1>2. Begin(r, t) /\ UNCHANGED <<item, entry>>
  BY DEF DeleteEntry
<1> HIDE DEF is
<1>3. t \in Task
  BY <1>1, IdleTyped DEF Task, TaskRow, Handler
<1>4. /\ t.stage = "read" /\ t.op = "delete" /\ t.entries = {e} /\ t.items = is
      /\ t.seen = Load(is) /\ t.change = Idle.change /\ t.write = Idle.write
  BY IdleTyped, IdleFields DEF Task, TaskRow
<1> HIDE DEF t
<1>. QED
  BY <1>1, <1>2, <1>3, <1>4, ReaderBegins DEF DeleteEntry

LEMMA RemoveBegins ==
  ASSUME TypeOK, NEW r \in Req, NEW i \in Item, RemoveItem(r, i)
  PROVE  \E t \in Task : Begun(r, t)
<1> DEFINE was == item[i].up
           t == [Idle EXCEPT !.stage = "read", !.op = "remove", !.items = {i},
                           !.was = was]
<1>1. was \in Item \cup {NoItem}
  BY DEF TypeOK, ItemRow
<1>2. Begin(r, t) /\ UNCHANGED <<item, entry>>
  BY DEF RemoveItem
<1> HIDE DEF was
<1>3. t \in Task
  BY <1>1, IdleTyped DEF Task, TaskRow, Handler
<1>4. /\ t.stage = "read" /\ t.op = "remove" /\ t.entries = {} /\ t.items = {i}
      /\ t.change = Idle.change /\ t.write = Idle.write
  BY IdleTyped, IdleFields DEF Task, TaskRow
<1> HIDE DEF t
<1>. QED
  BY <1>1, <1>2, <1>3, <1>4, ReaderBegins

LEMMA DedupeBegins ==
  ASSUME TypeOK, NEW r \in Req, NEW doomed \in SUBSET Entry, Dedupe(r, doomed)
  PROVE  \E t \in Task : Begun(r, t)
<1> DEFINE is == {entry[e].on : e \in doomed}
           t == [Idle EXCEPT !.stage = "read", !.op = "dedupe", !.entries = doomed,
                           !.items = is]
<1>1. is \in SUBSET Item /\ \A e \in doomed : entry[e].on \in is \ {NoItem}
  BY OnTyped DEF Dedupe
<1>2. Begin(r, t) /\ UNCHANGED <<item, entry>>
  BY DEF Dedupe
<1> HIDE DEF is
<1>3. t \in Task
  BY <1>1, IdleTyped DEF Task, TaskRow, Handler
<1>4. /\ t.stage = "read" /\ t.op = "dedupe" /\ t.entries = doomed /\ t.items = is
      /\ t.change = Idle.change /\ t.write = Idle.write
  BY IdleTyped, IdleFields DEF Task, TaskRow
<1> HIDE DEF t
<1>. QED
  BY <1>1, <1>2, <1>3, <1>4, ReaderBegins DEF Dedupe

LEMMA RepairBegins ==
  ASSUME TypeOK, NEW r \in Req, RepairHours(r)
  PROVE  \E t \in Task : Begun(r, t)
<1> DEFINE t == [Idle EXCEPT !.stage = "read", !.op = "repair", !.items = live,
                            !.seen = Load(live)]
<1>1. live \in SUBSET Item /\ Load(live) \in [Item -> ItemRow]
  BY LoadTyped DEF live
<1>2. Begin(r, t) /\ UNCHANGED <<item, entry>>
  BY DEF RepairHours
<1>3. t \in Task
  BY <1>1, IdleTyped DEF Task, TaskRow, Handler
<1>4. /\ t.stage = "read" /\ t.op = "repair" /\ t.entries = {} /\ t.items = live
      /\ t.seen = Load(live) /\ t.change = Idle.change /\ t.write = Idle.write
  BY IdleTyped, IdleFields DEF Task, TaskRow
<1> HIDE DEF t
<1>. QED
  BY <1>1, <1>2, <1>3, <1>4, ReaderBegins

(* Those that have their write ready, and a creation. *)
LEMMA WriterBegins ==
  ASSUME NEW r \in Req, NEW t \in Task, Begin(r, t), UNCHANGED <<item, entry>>,
         t.stage = "commit", t.op \notin Recomputes, t.entries = {},
         t.change = Idle.change, \A i \in Item : t.write[i].logged = Keep
  PROVE  \E u \in Task : Begun(r, u)
BY IdleFields DEF Begun

LEMMA WriteTyped ==
  ASSUME NEW i \in Item, NEW w \in Write, w.logged = Keep
  PROVE  /\ [Idle.write EXCEPT ![i] = w] \in [Item -> Write]
         /\ \A j \in Item : [Idle.write EXCEPT ![i] = w][j].logged = Keep
BY IdleFields, NoWriteFields, NothingTyped DEF Idle

LEMMA EstimateBegins ==
  ASSUME TypeOK, NEW r \in Req, NEW i \in Item, NEW h \in Estimate, EstimateItem(r, i, h)
  PROVE  \E t \in Task : Begun(r, t)
<1> DEFINE est == Changed(h, item[i].est)
           remaining == Changed(Positive(h - item[i].logged), item[i].remaining)
           w == [NoWrite EXCEPT !.est = est, !.remaining = remaining]
           write == [Idle.write EXCEPT ![i] = w]
           seen == Load({i})
           t == [Idle EXCEPT !.stage = "commit", !.op = "estimate", !.items = {i},
                             !.seen = seen, !.write[i] = w]
<1>1. h \in Int /\ h - item[i].logged \in Int
  BY LedgerAssumption DEF TypeOK, ItemRow
<1>2. est \in Int \cup {Keep}
  BY <1>1, ChangedTyped
<1>3. remaining \in Nat \cup {Keep}
  BY <1>1, PositiveTyped, ChangedTyped
<1>4. Begin(r, t) /\ UNCHANGED <<item, entry>>
  BY DEF EstimateItem
<1> HIDE DEF est, remaining
<1>5. w \in Write /\ w.logged = Keep
  BY <1>2, <1>3, NothingTyped, NoWriteFields DEF Write
<1> HIDE DEF w
<1>6. write \in [Item -> Write] /\ \A j \in Item : write[j].logged = Keep
  BY <1>5, WriteTyped
<1>7. seen \in [Item -> ItemRow]
  BY LoadTyped
<1> HIDE DEF seen
<1>8. /\ t \in Task /\ t.stage = "commit" /\ t.op = "estimate" /\ t.entries = {}
      /\ t.change = Idle.change /\ t.write = write
  <2> HIDE DEF write
  <2> DEFINE u == [Idle EXCEPT !.stage = "commit", !.op = "estimate", !.items = {i},
                               !.seen = seen, !.write = write]
  <2>1. /\ u \in Task /\ u.stage = "commit" /\ u.op = "estimate" /\ u.entries = {}
        /\ u.change = Idle.change /\ u.write = write
    BY <1>6, <1>7, IdleTyped, IdleFields DEF Task, TaskRow, Handler
  <2>2. t = u
    BY IdleTyped DEF Task, TaskRow, write
  <2>. QED
    BY <2>1, <2>2
<1> HIDE DEF t, write
<1>. QED
  BY <1>4, <1>6, <1>8, WriterBegins DEF Recomputes

LEMMA MoveBegins ==
  ASSUME TypeOK, NEW r \in Req, NEW i \in Item, NEW u \in Item \cup {NoItem},
         MoveItem(r, i, u)
  PROVE  \E t \in Task : Begun(r, t)
<1> DEFINE was == item[i].up
           up == Changed(u, was)
           w == [NoWrite EXCEPT !.up = up]
           write == [Idle.write EXCEPT ![i] = w]
           seen == Load({i})
           t == [Idle EXCEPT !.stage = "commit", !.op = "move", !.items = {i},
                             !.seen = seen, !.was = was, !.write = write]
<1>1. was \in Item \cup {NoItem} /\ up \in Item \cup {NoItem, Keep}
  BY ChangedTyped DEF TypeOK, ItemRow
<1>2. write = [Idle.write EXCEPT ![i].up = up]
  BY IdleFields DEF Idle
<1>3. Begin(r, [Idle EXCEPT !.stage = "commit", !.op = "move", !.items = {i},
                            !.seen = seen, !.was = was, !.write[i].up = up])
      /\ UNCHANGED <<item, entry>>
  BY DEF MoveItem
<1>4. seen \in [Item -> ItemRow]
  BY LoadTyped
<1> HIDE DEF was, up, seen
<1>5. w \in Write /\ w.logged = Keep
  BY <1>1, NothingTyped, NoWriteFields DEF Write
<1> HIDE DEF w
<1>6. write \in [Item -> Write] /\ \A j \in Item : write[j].logged = Keep
  BY <1>5, WriteTyped
<1> HIDE DEF write
<1>7. /\ t \in Task /\ t.stage = "commit" /\ t.op = "move" /\ t.entries = {}
      /\ t.change = Idle.change /\ t.write = write
  BY <1>1, <1>4, <1>6, IdleTyped, IdleFields DEF Task, TaskRow, Handler
<1>8. t = [Idle EXCEPT !.stage = "commit", !.op = "move", !.items = {i},
                       !.seen = seen, !.was = was, !.write[i].up = up]
  BY <1>2, IdleTyped DEF Task, TaskRow
<1> HIDE DEF t
<1>. QED
  BY <1>3, <1>6, <1>7, <1>8, WriterBegins DEF Recomputes

LEMMA CreateBegins ==
  ASSUME TypeOK, NEW r \in Req, NEW i \in Item, NEW u \in Item \cup {NoItem},
         NEW h \in Estimate \cup {0}, CreateItem(r, i, u, h)
  PROVE  \E t \in Task : Begun(r, t)
<1> DEFINE t == [Idle EXCEPT !.stage = "rollup", !.op = "create", !.items = {i}]
           row == [life |-> "live", up |-> u, est |-> h, logged |-> 0, remaining |-> h]
<1>1. row \in ItemRow /\ row.life = "live" /\ row.logged = 0 /\ row.remaining \in Nat
  <2>1. Estimate \subseteq Nat
    BY LedgerAssumption
  <2>2. h \in Nat
    BY <2>1
  <2>. QED
    BY <2>2 DEF ItemRow
<1>2. t \in Task
  BY IdleTyped DEF Task, TaskRow, Handler
<1>3. /\ t.stage = "rollup" /\ t.op = "create" /\ t.entries = {} /\ t.items = {i}
      /\ t.change = Idle.change /\ t.write = Idle.write
  BY IdleTyped, IdleFields DEF Task, TaskRow
<1>4. /\ Begin(r, t) /\ item[i].life = "new" /\ item' = [item EXCEPT ![i] = row]
      /\ UNCHANGED entry
  BY DEF CreateItem
<1> HIDE DEF t, row
<1>. QED
  BY <1>1, <1>2, <1>3, <1>4, IdleFields, NoWriteFields DEF Begun, Recomputes

LEMMA ReceiveBegins ==
  ASSUME TypeOK, NEW r \in Req, Receive(r)
  PROVE  UNCHANGED vars \/ \E t \in Task : Begun(r, t)
BY LogBegins, EditBegins, DeleteBegins, EstimateBegins, MoveBegins, CreateBegins,
   RemoveBegins, DedupeBegins, RepairBegins DEF Receive, Refuse

LEMMA SameRowsTyped ==
  ASSUME TypeOK, TasksTyped', UNCHANGED <<item, entry>> PROVE TypeOK'
BY DEF TypeOK, TasksTyped

LEMMA ReceiveTyped == ASSUME TypeOK, NEW r \in Req, Receive(r) PROVE TypeOK'
<1>1. CASE UNCHANGED vars
  BY <1>1 DEF vars, TypeOK
<1>2. CASE \E t \in Task : Begun(r, t)
  <2>1. TasksTyped'
    BY <1>2, BeginTyped DEF Begun
  <2>2. item' \in [Item -> ItemRow] /\ \A i \in Item \ Epic : item'[i].remaining \in Nat
    BY <1>2 DEF Begun, TypeOK
  <2>. QED
    BY <1>2, <2>1, <2>2 DEF Begun, TypeOK, TasksTyped
<1>. QED
  BY <1>1, <1>2, ReceiveBegins

(* Each handler's later steps keep the types. *)
LEMMA InsertTyped == ASSUME TypeOK, NEW r \in Req, InsertEntry(r) PROVE TypeOK'
<1> DEFINE hours == task[r].hours
           change(i) == Put(task[r].entries, LAMBDA e : [on |-> i, hours |-> hours])
<1>1. task[r].seen \in [Item -> ItemRow] /\ hours \in Hours /\ task[r].items \subseteq Item
  BY DEF InsertEntry, TypeOK, Task, TaskRow
<1>2. UNCHANGED <<item, entry>>
  BY DEF InsertEntry
<1>3. PICK i \in task[r].items : End(r) \/ Recompute(r, task[r].items, task[r].seen, change(i))
  BY DEF InsertEntry
<1>4. change(i) \in Changes
  <2>1. [on |-> i, hours |-> hours] \in EntryRow
    BY <1>1 DEF EntryRow
  <2> HIDE DEF hours
  <2>. QED
    BY <2>1 DEF Put, Changes
<1> HIDE DEF change
<1>5. TasksTyped'
  BY <1>1, <1>3, <1>4, EndTyped, RecomputeTyped
<1>. QED
  BY <1>2, <1>5, SameRowsTyped

LEMMA UpdateTyped == ASSUME TypeOK, NEW r \in Req, UpdateEntry(r) PROVE TypeOK'
<1> DEFINE hours == task[r].hours
           change(i, e) == Put({e}, LAMBDA x : [on |-> i, hours |-> hours])
<1>1. task[r] \in Task /\ Idle.change \in Changes
  BY IdleTyped DEF TypeOK, Task, TaskRow, Changes
<1>2. UNCHANGED <<item, entry>>
  BY DEF UpdateEntry
<1> DEFINE is == task[r].items
<1>3. PICK i \in is, e \in task[r].entries :
        \/ hours # Keep /\ Recompute(r, is, Load(is), change(i, e))
        \/ Recompute(r, is, Load(is), Idle.change)
        \/ End(r)
  BY DEF UpdateEntry
<1>4. hours # Keep => change(i, e) \in Changes
  <2>1. hours # Keep => [on |-> i, hours |-> hours] \in EntryRow
    BY <1>1, <1>3 DEF EntryRow, Task, TaskRow
  <2> HIDE DEF hours
  <2>. QED
    BY <2>1 DEF Put, Changes
<1> HIDE DEF change, hours
<1>5. is \in SUBSET Item /\ Load(is) \in [Item -> ItemRow]
  BY <1>1, <1>3, LoadTyped DEF Task, TaskRow
<1>6. TasksTyped'
  BY <1>1, <1>3, <1>4, <1>5, EndTyped, RecomputeTyped
<1>. QED
  BY <1>2, <1>6, SameRowsTyped

LEMMA DropTyped == ASSUME TypeOK, NEW r \in Req, DropEntry(r) PROVE TypeOK'
<1> DEFINE present == {e \in task[r].entries : entry[e].on # NoItem}
<1>1. task[r].seen \in [Item -> ItemRow] /\ task[r].items \in SUBSET Item
  BY DEF TypeOK, Task, TaskRow
<1>2. /\ Recompute(r, task[r].items, task[r].seen, Put(present, Removed))
      /\ UNCHANGED <<item, entry>>
  BY DEF DropEntry
<1> HIDE DEF present
<1>3. Put(present, Removed) \in Changes
  BY RemovedTyped
<1>4. TasksTyped'
  BY <1>1, <1>2, <1>3, RecomputeTyped
<1>. QED
  BY <1>2, <1>4, SameRowsTyped

LEMMA DoomedTyped == ASSUME TypeOK, NEW r \in Req, DeleteDoomed(r) PROVE TypeOK'
<1> DEFINE present == {e \in task[r].entries : entry[e].on # NoItem}
           is == task[r].items \cap live
<1>1. is \in SUBSET Item /\ Load(is) \in [Item -> ItemRow]
  BY LoadTyped DEF live
<1>2. Recompute(r, is, Load(is), Put(present, Removed)) /\ UNCHANGED <<item, entry>>
  BY DEF DeleteDoomed
<1> HIDE DEF present, is
<1>3. Put(present, Removed) \in Changes
  BY RemovedTyped
<1>4. TasksTyped'
  BY <1>1, <1>2, <1>3, RecomputeTyped
<1>. QED
  BY <1>2, <1>4, SameRowsTyped

LEMMA CompareTyped == ASSUME TypeOK, NEW r \in Req, CompareHours(r) PROVE TypeOK'
<1> DEFINE wrong == {i \in task[r].items : task[r].seen[i].logged # Logged(entry, i)}
<1>1. /\ wrong \in SUBSET Item /\ task[r].seen \in [Item -> ItemRow]
      /\ task[r].change \in Changes
  BY DEF TypeOK, Task, TaskRow, Changes
<1>2. /\ End(r) \/ Recompute(r, wrong, task[r].seen, task[r].change)
      /\ UNCHANGED <<item, entry>>
  BY DEF CompareHours
<1> HIDE DEF wrong
<1>3. TasksTyped'
  BY <1>1, <1>2, EndTyped, RecomputeTyped
<1>. QED
  BY <1>2, <1>3, SameRowsTyped

(* A request keeps its type as it goes to a later stage. *)
LEMMA StagedTyped ==
  ASSUME NEW t \in Task, NEW es \in SUBSET Epic,
         NEW totals \in [Epic -> [Column -> Int \cup {Keep}]]
  PROVE  /\ [t EXCEPT !.stage = "rollup"] \in Task
         /\ [t EXCEPT !.stage = "store", !.epics = es, !.totals = totals] \in Task
BY DEF Task, TaskRow

LEMMA RemovedRowsTyped ==
  ASSUME TypeOK, NEW r \in Req, CommitRemove(r) PROVE TypeOK'
<1>1. item' \in [Item -> ItemRow] /\ \A i \in Item \ Epic : item'[i].remaining \in Nat
  BY NoRowTyped DEF CommitRemove, TypeOK, ItemRow, NoRow
<1>2. entry' \in [Entry -> EntryRow]
  BY DEF CommitRemove, TypeOK, Removed, EntryRow
<1>3. [task[r] EXCEPT !.stage = "rollup"] \in Task
  BY NothingTyped, StagedTyped DEF TypeOK
<1>4. TasksTyped'
  BY <1>3, StepTyped DEF CommitRemove
<1>. QED
  BY <1>1, <1>2, <1>4 DEF TypeOK, TasksTyped

LEMMA FlushedTyped ==
  ASSUME TypeOK, NEW change \in Changes PROVE Flushed(change) \in [Entry -> EntryRow]
BY OverTyped DEF Flushed, Changes, TypeOK

LEMMA CommitTyped == ASSUME TypeOK, NEW r \in Req, Commit(r) PROVE TypeOK'
<1> DEFINE t == task[r]
           next == [Idle EXCEPT !.stage = "rollup", !.op = t.op, !.items = t.items,
                                !.was = t.was, !.clear = t.clear]
<1>1. t \in Task
  BY DEF TypeOK
<1>2. CASE ~CanCommit(t)
  BY <1>2, EndTyped, SameRowsTyped DEF Commit
<1>3. CASE CanCommit(t)
  <2>1. /\ item' = [i \in Item |-> IF i \in t.items THEN Written(i, t.write[i]) ELSE item[i]]
        /\ entry' = Flushed(t.change)
        /\ End(r) \/ Step(r, next)
    BY <1>3 DEF Commit
  <2>2. \A i \in Item : t.write[i] \in Write
    BY <1>1 DEF Task, TaskRow
  <2>3. item' \in [Item -> ItemRow] /\ \A i \in Item \ Epic : item'[i].remaining \in Nat
    <3> HIDE DEF t
    <3>. QED
      BY <2>1, <2>2, WrittenTyped DEF TypeOK
  <2>4. entry' \in [Entry -> EntryRow]
    BY <1>1, <2>1, FlushedTyped DEF Task, TaskRow, Changes
  <2>5. next \in Task
    BY <1>1, IdleTyped DEF Task, TaskRow
  <2> HIDE DEF next
  <2>6. TasksTyped'
    BY <2>1, <2>5, EndTyped, StepTyped
  <2>. QED
    BY <2>3, <2>4, <2>6 DEF TypeOK, TasksTyped
<1>. QED
  BY <1>2, <1>3

LEMMA PendingTyped ==
  ASSUME TypeOK, NEW es
  PROVE  Pending(es) \in [Epic -> [Column -> Int \cup {Keep}]]
<1>1. \A e \in Epic, c \in Column : Changed(Totals(e)[c], item[e][c]) \in Int \cup {Keep}
  BY TotalTyped, ChangedTyped DEF Totals
<1>. QED
  BY <1>1, NothingTyped DEF Pending

LEMMA RollupTyped == ASSUME TypeOK, NEW r \in Req, Rollup(r) PROVE TypeOK'
<1> DEFINE next(es) == [task[r] EXCEPT !.stage = "store", !.epics = es,
                                       !.totals = Pending(es)]
<1>1. PICK es \in SUBSET Epic : End(r) \/ Step(r, next(es))
  BY DEF Rollup
<1>2. next(es) \in Task
  BY PendingTyped, StagedTyped DEF TypeOK
<1> HIDE DEF next
<1>3. TasksTyped'
  BY <1>1, <1>2, EndTyped, StepTyped
<1>. QED
  BY <1>3, SameRowsTyped DEF Rollup

LEMMA StoreTyped == ASSUME TypeOK, NEW r \in Req, StoreEpics(r) PROVE TypeOK'
<1> DEFINE t == task[r]
           row(i) == [item[i] EXCEPT !.est = Over(t.totals[i].est, @),
                                     !.logged = Over(t.totals[i].logged, @),
                                     !.remaining = Over(t.totals[i].remaining, @)]
<1>1. t.epics \subseteq Epic /\ t.totals \in [Epic -> [Column -> Int \cup {Keep}]]
  BY DEF TypeOK, Task, TaskRow
<1>2. \A i \in Epic : row(i) \in ItemRow
  <2> TAKE i \in Epic
  <2>1. item[i] \in ItemRow
    BY DEF TypeOK, Item
  <2>2. \A c \in Column : t.totals[i][c] \in Int \cup {Keep}
    BY <1>1
  <2>3. Over(t.totals[i].est, item[i].est) \in Int
    BY <2>1, <2>2, OverTyped DEF Column, ItemRow
  <2>4. Over(t.totals[i].logged, item[i].logged) \in Int
    BY <2>1, <2>2, OverTyped DEF Column, ItemRow
  <2>5. Over(t.totals[i].remaining, item[i].remaining) \in Int
    BY <2>1, <2>2, OverTyped DEF Column, ItemRow
  <2>. QED
    BY <2>1, <2>3, <2>4, <2>5 DEF ItemRow
<1>3. item' = [i \in Item |-> IF t.epics \subseteq live /\ i \in t.epics
                              THEN row(i) ELSE item[i]]
  BY DEF StoreEpics
<1> HIDE DEF row, t
<1>4. item' \in [Item -> ItemRow] /\ \A i \in Item \ Epic : item'[i].remaining \in Nat
  BY <1>1, <1>2, <1>3 DEF TypeOK
<1>5. TasksTyped'
  BY EndTyped DEF StoreEpics
<1>. QED
  BY <1>4, <1>5 DEF StoreEpics, TypeOK, TasksTyped

LEMMA NextTypeOK == TypeOK /\ [Next]_vars => TypeOK'
<1> SUFFICES ASSUME TypeOK, [Next]_vars PROVE TypeOK'
  OBVIOUS
<1>1. CASE UNCHANGED vars
  BY <1>1 DEF vars, TypeOK
<1>2. ASSUME NEW r \in Req, Receive(r) PROVE TypeOK'
  BY <1>2, ReceiveTyped
<1>3. ASSUME NEW r \in Req, Continue(r) PROVE TypeOK'
  BY <1>3, InsertTyped, UpdateTyped, DropTyped, DoomedTyped, CompareTyped,
     RemovedRowsTyped, CommitTyped, RollupTyped, StoreTyped DEF Continue
<1>4. ASSUME NEW r \in Req, Crash(r) PROVE TypeOK'
  BY <1>4, EndTyped, SameRowsTyped DEF Crash
<1>. QED
  BY <1>1, <1>2, <1>3, <1>4 DEF Next

LEMMA InitTypeOK == Init => TypeOK
BY NoRowTyped, IdleTyped DEF Init, TypeOK, NoRow, EntryRow, NoEntry

(* The whole state keeps its types, and no story, task or subtask has less *)
(* than no work remaining, whatever races and whatever dies.               *)
THEOREM TypeCorrect == Spec => []TypeOK
<1>. QED
  BY InitTypeOK, NextTypeOK, PTL DEF Spec
-----------------------------------------------------------------------------
(* What a step of one request leaves of the others: all but "clear".       *)
SameWork(t, u) ==
  /\ u.stage = t.stage /\ u.op = t.op /\ u.items = t.items /\ u.entries = t.entries
  /\ u.change = t.change /\ u.seen = t.seen /\ u.write = t.write
Others(r) == \A s \in Req \ {r} :
  SameWork(task[s], task'[s]) /\ (task'[s].clear => task[s].clear)

LEMMA BeginWork ==
  ASSUME TypeOK, NEW r \in Req, NEW t \in Task, Begin(r, t)
  PROVE  /\ Others(r)
         /\ SameWork(t, task'[r])
         /\ task'[r].clear => \A q \in Req : task[q].items \cap t.items = {}
         /\ \A s \in Req \ {r} : task'[s].clear => task[s].items \cap t.items = {}
<1> DEFINE c(s) == task[s].clear /\ task[s].items \cap t.items = {}
           d == \A q \in Req : task[q].items \cap t.items = {}
<1>1. \A s \in Req : task[s] \in TaskRow
  BY DEF TypeOK, Task
<1>2. task' = [s \in Req |-> IF s = r THEN [t EXCEPT !.clear = d]
                             ELSE [task[s] EXCEPT !.clear = c(s)]]
  BY DEF Begin
<1> HIDE DEF c, d
<1>3. SameWork(t, task'[r]) /\ task'[r].clear = d
  BY <1>2 DEF SameWork, Task, TaskRow
<1>4. ASSUME NEW s \in Req \ {r}
      PROVE  SameWork(task[s], task'[s]) /\ task'[s].clear = c(s)
  <2> DEFINE x == task[s]
             u == c(s)
  <2>1. x \in TaskRow /\ task'[s] = [x EXCEPT !.clear = u]
    BY <1>1, <1>2
  <2> HIDE DEF x, u
  <2>2. SameWork(x, task'[s]) /\ task'[s].clear = u
    BY <2>1 DEF SameWork, TaskRow
  <2>. QED
    BY <2>2 DEF x, u
<1>5. \A s \in Req \ {r} : task'[s].clear => c(s)
  BY <1>4
<1>6. task'[r].clear => d
  BY <1>3
<1>. QED
  BY <1>3, <1>4, <1>5, <1>6 DEF c, d, Others

LEMMA StepWork ==
  ASSUME TypeOK, NEW r \in Req, NEW t, Step(r, t)
  PROVE  /\ Others(r)
         /\ task'[r] = t
         /\ \A s \in Req \ {r} : task'[s] = task[s]
<1>1. task'[r] = t /\ \A s \in Req \ {r} : task'[s] = task[s]
  BY DEF Step, TypeOK
<1>. QED
  BY <1>1 DEF Others, SameWork

(* The parts of the invariant that do not speak of sums. *)
SInv == EntriesOnLive /\ IdleIsBare /\ ChangesHeld /\ LoggedIsKept /\ OwnEntries /\ ClearIsAlone

(* A request begins. *)
LEMMA BeginSInv ==
  ASSUME TypeOK, SInv, NEW r \in Req, NEW t \in Task, Begin(r, t),
         live \subseteq live', entry' = entry,
         t.stage # "idle", t.op \in Recomputes => t.stage # "commit",
         \A e \in Entry : t.change[e] = Keep,
         \A i \in Item : t.write[i].logged = Keep,
         \A e \in t.entries : IF t.op = "log"
           THEN entry[e].on = NoItem /\ \A s \in Req : e \notin task[s].entries
           ELSE t.op # "repair" /\ entry[e].on \in t.items \ {NoItem}
  PROVE  SInv'
<1>1. /\ Others(r)
      /\ SameWork(t, task'[r])
      /\ task'[r].clear => \A q \in Req : task[q].items \cap t.items = {}
      /\ \A s \in Req \ {r} : task'[s].clear => task[s].items \cap t.items = {}
  BY BeginWork
<1>2. EntriesOnLive'
  BY DEF SInv, EntriesOnLive
<1>3. IdleIsBare'
  BY <1>1 DEF SInv, IdleIsBare, Busy, Others, SameWork
<1>4. ChangesHeld'
  BY <1>1 DEF SInv, ChangesHeld, Others, SameWork
<1>5. LoggedIsKept'
  BY <1>1 DEF SInv, LoggedIsKept, Others, SameWork
<1>6. OwnEntries'
  BY <1>1 DEF SInv, OwnEntries, Others, SameWork
<1>7. ClearIsAlone'
  BY <1>1 DEF SInv, ClearIsAlone, Others, SameWork
<1>. QED
  BY <1>2, <1>3, <1>4, <1>5, <1>6, <1>7 DEF SInv

(* A request goes on, or ends, and no entry has changed.                   *)
LEMMA StepSInv ==
  ASSUME TypeOK, SInv, NEW r \in Req, NEW t, Step(r, t),
         live \subseteq live', entry' = entry,
         t = Idle \/ t.stage # "idle",
         t.items \subseteq task[r].items, t.entries \subseteq task[r].entries,
         t.items = {} \/ (t.clear => task[r].clear),
         t.entries = {} \/ t.op = task[r].op,
         t.op # "log" => \A e \in t.entries : entry[e].on \in t.items \cup {NoItem},
         \A i \in Item : t.stage = "commit" => t.op \in Recomputes,
         \A e \in Entry : t.change[e] # Keep =>
           /\ t.stage = "commit" /\ t.op \in Recomputes /\ e \in t.entries
           /\ {entry[e].on, t.change[e].on} \subseteq t.items \cup {NoItem}
           /\ t.op = "log" \/ t.change[e].on \in {entry[e].on, NoItem}
           /\ \A s \in Req \ {r} : task[s].change[e] = Keep
  PROVE  SInv'
<1>1. task'[r] = t /\ \A s \in Req \ {r} : task'[s] = task[s]
  BY StepWork
<1>2. EntriesOnLive'
  BY DEF SInv, EntriesOnLive
<1>3. IdleIsBare'
  BY <1>1 DEF SInv, IdleIsBare, Busy, Idle
<1>4. ChangesHeld'
  BY <1>1 DEF SInv, ChangesHeld
<1>5. LoggedIsKept'
  BY <1>1 DEF SInv, LoggedIsKept
<1>6. OwnEntries'
  BY <1>1 DEF SInv, OwnEntries
<1>7. ClearIsAlone'
  BY <1>1 DEF SInv, ClearIsAlone
<1>. QED
  BY <1>2, <1>3, <1>4, <1>5, <1>6, <1>7 DEF SInv

LEMMA EndSInv ==
  ASSUME TypeOK, SInv, NEW r \in Req, End(r), live \subseteq live', entry' = entry
  PROVE  SInv'
BY StepSInv, IdleFields DEF End

LEMMA RecomputeWork ==
  ASSUME TypeOK, NEW r \in Req, NEW is, NEW seen, NEW change, Recompute(r, is, seen, change)
  PROVE  /\ Step(r, task'[r])
         /\ task'[r].stage = "commit" /\ task'[r].op = task[r].op
         /\ task'[r].entries = task[r].entries /\ task'[r].clear = task[r].clear
         /\ task'[r].items = is /\ task'[r].change = change
         /\ \A i \in Item \cap is :
              task'[r].write[i] = Derived(seen[i], Logged(Flushed(change), i))
<1> DEFINE write == On(is, LAMBDA i : Derived(seen[i], Logged(Flushed(change), i)))
           t == [task[r] EXCEPT !.stage = "commit", !.items = is, !.seen = seen,
                                !.change = change, !.write = write]
<1>1. Step(r, t)
  BY DEF Recompute
<1>2. task'[r] = t /\ task[r] \in TaskRow
  BY <1>1, StepWork DEF TypeOK, Task
<1> HIDE DEF write
<1>3. /\ t.stage = "commit" /\ t.op = task[r].op /\ t.entries = task[r].entries
      /\ t.clear = task[r].clear /\ t.items = is /\ t.change = change /\ t.write = write
  BY <1>2 DEF TaskRow
<1> HIDE DEF t
<1>4. \A i \in Item \cap is : write[i] = Derived(seen[i], Logged(Flushed(change), i))
  BY DEF write, On
<1>. QED
  BY <1>1, <1>2, <1>3, <1>4

(* The SUM is taken over what the request has flushed. *)
LEMMA RecomputeSInv ==
  ASSUME TypeOK, SInv, NEW r \in Req, NEW is, NEW seen, NEW change,
         Recompute(r, is, seen, change), UNCHANGED <<item, entry>>,
         task[r].op \in Recomputes, is \subseteq task[r].items,
         task[r].op # "log" =>
           \A e \in task[r].entries : entry[e].on \in is \cup {NoItem},
         \A e \in Entry : change[e] # Keep =>
           /\ e \in task[r].entries
           /\ {entry[e].on, change[e].on} \subseteq is \cup {NoItem}
           /\ task[r].op = "log" \/ change[e].on \in {entry[e].on, NoItem}
           /\ \A s \in Req \ {r} : task[s].change[e] = Keep
  PROVE  SInv'
<1>1. live' = live
  BY DEF live
<1> DEFINE t == task'[r]
<1>2. /\ Step(r, t)
      /\ t.stage = "commit" /\ t.op = task[r].op /\ t.entries = task[r].entries
      /\ t.clear = task[r].clear /\ t.items = is /\ t.change = change
  BY RecomputeWork
<1> HIDE DEF t
<1>. QED
  BY <1>1, <1>2, StepSInv

LEMMA ReceiveSInv ==
  ASSUME TypeOK, SInv, NEW r \in Req, Receive(r) PROVE SInv'
<1>1. CASE UNCHANGED vars
  BY <1>1 DEF vars, SInv, EntriesOnLive, IdleIsBare, ChangesHeld, LoggedIsKept, OwnEntries,
     ClearIsAlone, Busy, live
<1>2. ASSUME NEW t \in Task, Begun(r, t) PROVE SInv'
  <2>1. live \subseteq live'
    BY <1>2 DEF Begun, live, TypeOK
  <2>. QED
    BY <1>2, <2>1, BeginSInv DEF Begun
<1>. QED
  BY <1>1, <1>2, ReceiveBegins

(* What each handler has flushed when it takes the SUM. *)
LEMMA InsertSInv ==
  ASSUME TypeOK, SInv, NEW r \in Req, InsertEntry(r) PROVE SInv'
<1> DEFINE hours == task[r].hours
           change(i) == Put(task[r].entries, LAMBDA e : [on |-> i, hours |-> hours])
<1>1. UNCHANGED <<item, entry>> /\ live' = live
  BY DEF InsertEntry, live
<1>2. PICK i \in task[r].items : End(r) \/ Recompute(r, task[r].items, task[r].seen, change(i))
  BY DEF InsertEntry
<1>3. \A e \in Entry : change(i)[e] # Keep => e \in task[r].entries /\ change(i)[e].on = i
  BY DEF Put
<1>4. \A e \in task[r].entries : entry[e].on = NoItem
                                 /\ \A s \in Req \ {r} : task[s].change[e] = Keep
  BY DEF InsertEntry, SInv, OwnEntries, ChangesHeld, TypeOK, Task, TaskRow
<1>5. task[r].op \in Recomputes
  BY DEF InsertEntry, Recomputes
<1>6. task[r].op = "log"
  BY DEF InsertEntry
<1> HIDE DEF change
<1>. QED
  BY <1>1, <1>2, <1>3, <1>4, <1>5, <1>6, EndSInv, RecomputeSInv

LEMMA UpdateSInv ==
  ASSUME TypeOK, SInv, NEW r \in Req, UpdateEntry(r) PROVE SInv'
<1> DEFINE hours == task[r].hours
           change(i, e) == Put({e}, LAMBDA x : [on |-> i, hours |-> hours])
<1>1. UNCHANGED <<item, entry>> /\ live' = live
  BY DEF UpdateEntry, live
<1> DEFINE is == task[r].items
<1>2. PICK i \in is, e \in task[r].entries :
        \/ entry[e].on = i /\ ~Locked(e) /\ Recompute(r, is, Load(is), change(i, e))
        \/ Recompute(r, is, Load(is), Idle.change)
        \/ End(r)
  BY DEF UpdateEntry
<1>3. /\ e \in Entry /\ task[r].op \in Recomputes
      /\ \A x \in task[r].entries : entry[x].on \in is \cup {NoItem}
  BY DEF TypeOK, Task, TaskRow, UpdateEntry, Recomputes, SInv, OwnEntries
<1>4. \A x \in Entry : change(i, e)[x] # Keep => x = e /\ change(i, e)[x].on = i
  BY DEF Put
<1> HIDE DEF change
<1>. QED
  BY <1>1, <1>2, <1>3, <1>4, IdleFields, EndSInv, RecomputeSInv DEF Locked

LEMMA PutRemoved ==
  ASSUME TypeOK, NEW es
  PROVE  \A e \in Entry : Put(es, Removed)[e] # Keep =>
           e \in es /\ Put(es, Removed)[e].on = NoItem
BY DEF Put, Removed, TypeOK, EntryRow

LEMMA DropSInv ==
  ASSUME TypeOK, SInv, NEW r \in Req, DropEntry(r) PROVE SInv'
<1> DEFINE present == {e \in task[r].entries : entry[e].on # NoItem}
<1>1. /\ Recompute(r, task[r].items, task[r].seen, Put(present, Removed))
      /\ UNCHANGED <<item, entry>>
      /\ \A e \in present : ~Locked(e)
  BY DEF DropEntry
<1>2. /\ task[r].op \in Recomputes
      /\ \A x \in task[r].entries : entry[x].on \in task[r].items \cup {NoItem}
  BY DEF DropEntry, Recomputes, SInv, OwnEntries
<1>. QED
  BY <1>1, <1>2, PutRemoved, RecomputeSInv DEF Locked

LEMMA DoomedSInv ==
  ASSUME TypeOK, SInv, NEW r \in Req, DeleteDoomed(r) PROVE SInv'
<1> DEFINE present == {e \in task[r].entries : entry[e].on # NoItem}
           is == task[r].items \cap live
<1>1. /\ Recompute(r, is, Load(is), Put(present, Removed)) /\ UNCHANGED <<item, entry>>
      /\ \A e \in present : ~Locked(e)
  BY DEF DeleteDoomed
<1>2. task[r].entries \subseteq Entry
  BY DEF TypeOK, Task, TaskRow
<1>3. /\ task[r].op \in Recomputes
      /\ \A x \in task[r].entries : entry[x].on \in is \cup {NoItem}
  BY <1>2 DEF DeleteDoomed, Recomputes, SInv, OwnEntries, EntriesOnLive
<1>. QED
  BY <1>1, <1>3, PutRemoved, RecomputeSInv DEF Locked

LEMMA CompareSInv ==
  ASSUME TypeOK, SInv, NEW r \in Req, CompareHours(r) PROVE SInv'
<1> DEFINE wrong == {i \in task[r].items : task[r].seen[i].logged # Logged(entry, i)}
<1>1. /\ End(r) \/ Recompute(r, wrong, task[r].seen, task[r].change)
      /\ UNCHANGED <<item, entry>> /\ live' = live /\ wrong \subseteq task[r].items
  BY DEF CompareHours, live
<1> HIDE DEF wrong
<1>2. /\ task[r].op = "repair" /\ task[r].op \in Recomputes
      /\ \A e \in Entry : task[r].change[e] = Keep
  BY DEF CompareHours, Recomputes, SInv, ChangesHeld
<1>3. task[r].entries = {}
  BY <1>2 DEF SInv, OwnEntries
<1>. QED
  BY <1>1, <1>2, <1>3, EndSInv, RecomputeSInv

LEMMA RollupSInv ==
  ASSUME TypeOK, SInv, NEW r \in Req, Rollup(r) PROVE SInv'
<1> DEFINE next(es) == [task[r] EXCEPT !.stage = "store", !.epics = es,
                                       !.totals = Pending(es)]
<1>1. PICK es : End(r) \/ Step(r, next(es))
  BY DEF Rollup
<1> DEFINE t == next(es)
<1>2. live' = live /\ entry' = entry
  BY DEF Rollup, live
<1>3. /\ t.stage = "store" /\ t.op = task[r].op /\ t.items = task[r].items
      /\ t.entries = task[r].entries /\ t.clear = task[r].clear /\ t.change = task[r].change
  BY DEF TypeOK, Task, TaskRow
<1>4. \A e \in Entry : task[r].change[e] = Keep
  BY DEF Rollup, SInv, ChangesHeld
<1>5. task[r].op # "log" => \A e \in task[r].entries : entry[e].on \in task[r].items \cup {NoItem}
  BY DEF SInv, OwnEntries
<1>6. Step(r, t) \/ End(r)
  BY <1>1
<1> HIDE DEF t, next
<1>. QED
  BY <1>2, <1>3, <1>4, <1>5, <1>6, EndSInv, StepSInv

LEMMA StoreSInv ==
  ASSUME TypeOK, SInv, NEW r \in Req, StoreEpics(r) PROVE SInv'
<1>1. \A i \in Item : item'[i].life = item[i].life
  <2> TAKE i \in Item
  <2>1. item[i] \in ItemRow
    BY DEF TypeOK
  <2>. QED
    BY <2>1 DEF StoreEpics, ItemRow
<1>2. live' = live
  BY <1>1 DEF live
<1>. QED
  BY <1>2, EndSInv DEF StoreEpics

(* A commit that fails changes nothing; one that succeeds applies what its *)
(* request has flushed.                                                    *)
LEMMA CommitMoves ==
  ASSUME TypeOK, NEW r \in Req, Commit(r), CanCommit(task[r])
  PROVE  /\ \A i \in Item \ task[r].items : item'[i] = item[i]
         /\ \A i \in task[r].items : item'[i] = Written(i, task[r].write[i])
         /\ live' = live
         /\ \A e \in Entry : entry'[e] = Over(task[r].change[e], entry[e])
         /\ \E t : /\ Step(r, t) /\ t.stage \in {"idle", "rollup"}
                   /\ t = Idle \/ t.stage = "rollup"
                   /\ t = Idle \/ (t.items = task[r].items /\ t.clear = task[r].clear)
                   /\ t.entries = {} /\ \A e \in Entry : t.change[e] = Keep
<1>1. /\ task[r].items \subseteq Item /\ \A i \in Item : task[r].write[i] \in Write
  BY DEF TypeOK, Task, TaskRow
<1>2. item' = [i \in Item |-> IF i \in task[r].items THEN Written(i, task[r].write[i])
                              ELSE item[i]]
  BY DEF Commit
<1>3. \A i \in Item : item'[i].life = item[i].life
  BY <1>1, <1>2, WrittenTyped
<1>4. live' = live
  BY <1>3 DEF live
<1>5. \A e \in Entry : entry'[e] = Over(task[r].change[e], entry[e])
  BY DEF Commit, Flushed
<1> DEFINE next == [Idle EXCEPT !.stage = "rollup", !.op = task[r].op,
                      !.items = task[r].items, !.was = task[r].was, !.clear = task[r].clear]
<1>6. /\ next.stage = "rollup" /\ next.items = task[r].items /\ next.clear = task[r].clear
      /\ next.entries = {} /\ next.change = Idle.change
  BY IdleTyped, IdleFields DEF Task, TaskRow
<1>7. Step(r, next) \/ Step(r, Idle)
  BY DEF Commit, End
<1> HIDE DEF next
<1>. QED
  BY <1>1, <1>2, <1>4, <1>5, <1>6, <1>7, IdleFields

LEMMA CommitSInv ==
  ASSUME TypeOK, SInv, NEW r \in Req, Commit(r) PROVE SInv'
<1>1. CASE ~CanCommit(task[r])
  BY <1>1, EndSInv DEF Commit, live
<1>2. CASE CanCommit(task[r])
  <2>1. /\ live' = live
        /\ \A e \in Entry : entry'[e] = Over(task[r].change[e], entry[e])
    BY <1>2, CommitMoves
  <2>2. PICK t : /\ Step(r, t) /\ t.stage \in {"idle", "rollup"}
                 /\ t = Idle \/ t.stage = "rollup"
                 /\ t = Idle \/ (t.items = task[r].items /\ t.clear = task[r].clear)
                 /\ t.entries = {} /\ \A e \in Entry : t.change[e] = Keep
    BY <1>2, CommitMoves
  <2>3. task'[r] = t /\ \A s \in Req \ {r} : task'[s] = task[s]
    BY <2>2, StepWork
  <2>4. task[r].items \subseteq live
    BY <1>2 DEF CanCommit
  <2>5. EntriesOnLive'
    BY <2>1, <2>4 DEF SInv, EntriesOnLive, ChangesHeld, Over
  <2>6. IdleIsBare'
    BY <2>2, <2>3, IdleFields DEF SInv, IdleIsBare, Busy
  <2>7. ChangesHeld'
    BY <2>1, <2>2, <2>3 DEF SInv, ChangesHeld, Over
  <2>8. LoggedIsKept'
    BY <2>2, <2>3 DEF SInv, LoggedIsKept
  <2>9. OwnEntries'
    <3> SUFFICES ASSUME NEW s \in Req \ {r}, NEW e \in task[s].entries
                 PROVE  IF task[s].op = "log"
                        THEN entry'[e].on = NoItem
                               /\ \A q \in Req \ {s} : e \notin task'[q].entries
                        ELSE task[s].op # "repair" /\ entry'[e].on \in task[s].items \cup {NoItem}
      BY <2>2, <2>3 DEF OwnEntries
    <3>1. e \in Entry
      BY DEF TypeOK, Task, TaskRow
    <3>2. CASE task[s].op = "log"
      <4>1. task[r].change[e] = Keep
        BY <3>1, <3>2 DEF SInv, OwnEntries, ChangesHeld
      <4>. QED
        BY <2>1, <2>2, <2>3, <3>1, <3>2, <4>1 DEF SInv, OwnEntries, Over
    <3>3. CASE task[s].op # "log"
      <4>1. task[r].change[e] # Keep => task[r].change[e].on \in {entry[e].on, NoItem}
        BY <3>1 DEF SInv, OwnEntries, ChangesHeld
      <4>. QED
        BY <2>1, <3>1, <3>3, <4>1 DEF SInv, OwnEntries, Over
    <3>. QED
      BY <3>2, <3>3
  <2>10. ClearIsAlone'
    BY <2>2, <2>3, IdleFields DEF SInv, ClearIsAlone
  <2>. QED
    BY <2>5, <2>6, <2>7, <2>8, <2>9, <2>10 DEF SInv
<1>. QED
  BY <1>1, <1>2

(* A deletion takes the entries of its item along. *)
LEMMA RemoveMoves ==
  ASSUME TypeOK, NEW r \in Req, CommitRemove(r)
  PROVE  /\ live' = live \ task[r].items
         /\ \A i \in Item \ task[r].items :
              /\ item'[i].est = item[i].est /\ item'[i].logged = item[i].logged
              /\ item'[i].remaining = item[i].remaining
         /\ \A e \in Entry : IF entry[e].on \in task[r].items THEN entry'[e].on = NoItem
                             ELSE entry'[e] = entry[e]
         /\ Step(r, task'[r]) /\ task'[r].stage = "rollup" /\ task'[r].op = task[r].op
         /\ task'[r].items = task[r].items /\ task'[r].entries = task[r].entries
         /\ task'[r].clear = task[r].clear /\ task'[r].change = task[r].change
<1>1. \A i \in Item : item[i] \in ItemRow
  BY DEF TypeOK
<1>2. /\ \A i \in Item : item'[i].life = IF i \in task[r].items THEN "gone" ELSE item[i].life
      /\ \A i \in Item \ task[r].items :
           /\ item'[i].est = item[i].est /\ item'[i].logged = item[i].logged
           /\ item'[i].remaining = item[i].remaining
  BY <1>1 DEF CommitRemove, NoRow, ItemRow
<1>3. live' = live \ task[r].items
  BY <1>2 DEF live
<1>4. \A e \in Entry : IF entry[e].on \in task[r].items THEN entry'[e].on = NoItem
                       ELSE entry'[e] = entry[e]
  BY DEF CommitRemove, Removed, TypeOK, EntryRow
<1>5. Step(r, [task[r] EXCEPT !.stage = "rollup"])
  BY DEF CommitRemove
<1>6. task'[r] = [task[r] EXCEPT !.stage = "rollup"] /\ task[r] \in TaskRow
  BY <1>5, StepWork DEF TypeOK, Task
<1>. QED
  BY <1>2, <1>3, <1>4, <1>5, <1>6 DEF TaskRow

LEMMA RemoveSInv ==
  ASSUME TypeOK, SInv, NEW r \in Req, CommitRemove(r) PROVE SInv'
<1> DEFINE t == task'[r]
<1>1. /\ live' = live \ task[r].items
      /\ \A e \in Entry : IF entry[e].on \in task[r].items THEN entry'[e].on = NoItem
                          ELSE entry'[e] = entry[e]
      /\ Step(r, t) /\ t.stage = "rollup" /\ t.op = task[r].op
      /\ t.items = task[r].items /\ t.entries = task[r].entries
      /\ t.clear = task[r].clear /\ t.change = task[r].change
  BY RemoveMoves
<1>2. \A s \in Req \ {r} : task'[s] = task[s]
  BY <1>1, StepWork
<1>3. \A e \in Entry : entry[e].on \in Item \cup {NoItem}
  BY OnTyped
<1>4. task[r].op = "remove" /\ task[r].stage = "read" /\ task[r].items \subseteq Item
  BY DEF CommitRemove, TypeOK, Task, TaskRow
<1>5. \A s \in Req, e \in Entry : task[s].change[e] # Keep => entry[e].on \notin task[r].items
  BY DEF CommitRemove
<1> HIDE DEF t
<1>6. EntriesOnLive'
  BY <1>1, <1>3, <1>4 DEF SInv, EntriesOnLive
<1>7. IdleIsBare'
  BY <1>1, <1>2 DEF SInv, IdleIsBare, Busy, t
<1>8. ChangesHeld'
  BY <1>1, <1>2, <1>4, <1>5 DEF SInv, ChangesHeld, t
<1>9. LoggedIsKept'
  BY <1>1, <1>2 DEF SInv, LoggedIsKept, t
<1>10. OwnEntries'
  <2>1. \A s \in Req : task'[s].entries = task[s].entries /\ task'[s].op = task[s].op
                      /\ task'[s].items = task[s].items /\ task[s].entries \subseteq Entry
    BY <1>1, <1>2 DEF t, TypeOK, Task, TaskRow
  <2>2. \A e \in Entry : entry'[e].on \in {entry[e].on, NoItem}
    BY <1>1
  <2>. QED
    BY <2>1, <2>2 DEF SInv, OwnEntries
<1>11. ClearIsAlone'
  BY <1>1, <1>2 DEF SInv, ClearIsAlone, t
<1>. QED
  BY <1>6, <1>7, <1>8, <1>9, <1>10, <1>11 DEF SInv

LEMMA CrashSInv ==
  ASSUME TypeOK, SInv, NEW r \in Req, Crash(r) PROVE SInv'
BY EndSInv DEF Crash, live

LEMMA NextSInv == TypeOK /\ SInv /\ [Next]_vars => SInv'
<1> SUFFICES ASSUME TypeOK, SInv, [Next]_vars PROVE SInv'
  OBVIOUS
<1>1. CASE UNCHANGED vars
  BY <1>1 DEF vars, SInv, EntriesOnLive, IdleIsBare, ChangesHeld, LoggedIsKept,
     OwnEntries, ClearIsAlone, Busy, live
<1>2. ASSUME NEW r \in Req, Receive(r) PROVE SInv'
  BY <1>2, ReceiveSInv
<1>3. ASSUME NEW r \in Req, Continue(r) PROVE SInv'
  BY <1>3, InsertSInv, UpdateSInv, DropSInv, DoomedSInv, CompareSInv, RemoveSInv,
     CommitSInv, RollupSInv, StoreSInv DEF Continue
<1>4. ASSUME NEW r \in Req, Crash(r) PROVE SInv'
  BY <1>4, CrashSInv
<1>. QED
  BY <1>1, <1>2, <1>3, <1>4 DEF Next

LEMMA InitSInv == Init => SInv
BY IdleFields DEF Init, SInv, EntriesOnLive, IdleIsBare, ChangesHeld, LoggedIsKept,
   OwnEntries, ClearIsAlone, Busy, NoEntry
-----------------------------------------------------------------------------
(* A SUM depends on the entries that are on the item, and on nothing else. *)
LEMMA LoggedSame ==
  ASSUME NEW es, NEW fs, NEW i,
         \A e \in Entry : /\ es[e].on = i <=> fs[e].on = i
                          /\ es[e].on = i => es[e].hours = fs[e].hours
  PROVE  Logged(es, i) = Logged(fs, i)
<1> DEFINE a == {e \in Entry : es[e].on = i}
           b == {e \in Entry : fs[e].on = i}
<1>1. a = b
  OBVIOUS
<1>2. [e \in a |-> es[e].hours] = [e \in b |-> fs[e].hours]
  BY <1>1
<1>3. Logged(es, i) = Total([e \in a |-> es[e].hours])
  BY DEF Logged
<1>4. Logged(fs, i) = Total([e \in b |-> fs[e].hours])
  BY DEF Logged
<1> HIDE DEF a, b
<1>. QED
  BY <1>2, <1>3, <1>4

LEMMA LoggedNothing ==
  ASSUME NEW es, NEW i, \A e \in Entry : es[e].on # i PROVE Logged(es, i) = 0
<1> DEFINE a == {e \in Entry : es[e].on = i}
<1>1. DOMAIN [e \in a |-> es[e].hours] = {}
  OBVIOUS
<1>2. Logged(es, i) = Total([e \in a |-> es[e].hours])
  BY DEF Logged
<1>. QED
  BY <1>1, <1>2 DEF Total

(* One request's share of PendingIsExact. *)
PendingOf(r) ==
  LET t == task[r] IN
  t.clear => \A i \in (t.items \cap live) \ Epic :
    /\ t.stage = "read" /\ t.op \in {"log", "delete", "repair"} => Fresh(t.seen[i], i)
    /\ t.stage = "commit" /\ t.op \in Recomputes => Settles(t.write[i], t.change, i)

LEMMA PendingSplit ==
  /\ PendingIsExact <=> \A r \in Req : PendingOf(r)
  /\ PendingIsExact' <=> \A r \in Req : PendingOf(r)'
BY DEF PendingIsExact, PendingOf

(* What was pending stays so if nobody touches its items.                  *)
LEMMA PendingFrame ==
  ASSUME NEW s \in Req, PendingOf(s),
         SameWork(task[s], task'[s]), task'[s].clear => task[s].clear,
         \A i \in (task[s].items \cap live') \ Epic : task'[s].clear =>
           /\ i \in live
           /\ item'[i].est = item[i].est /\ item'[i].logged = item[i].logged
           /\ item'[i].remaining = item[i].remaining
           /\ \A e \in Entry : task[s].change[e] = Keep =>
                /\ entry'[e].on = i <=> entry[e].on = i
                /\ entry[e].on = i => entry'[e] = entry[e]
  PROVE  PendingOf(s)'
<1> DEFINE c == task[s].change
           w(i) == task[s].write[i]
           es == [e \in Entry |-> Over(c[e], entry[e])]
           fs == [e \in Entry |-> Over(c[e], entry'[e])]
<1>1. SUFFICES ASSUME NEW i \in (task[s].items \cap live') \ Epic, task'[s].clear
               PROVE  /\ task[s].stage = "read" /\ task[s].op \in {"log", "delete", "repair"}
                           => /\ task[s].seen[i].est = item'[i].est
                              /\ task[s].seen[i].logged = item'[i].logged
                              /\ task[s].seen[i].remaining = item'[i].remaining
                      /\ task[s].stage = "commit" /\ task[s].op \in Recomputes
                           => /\ w(i).est = Keep
                              /\ Over(w(i).logged, item'[i].logged) = Logged(fs, i)
                              /\ Over(w(i).remaining, item'[i].remaining)
                                   = Positive(item'[i].est - Over(w(i).logged, item'[i].logged))
  BY DEF PendingOf, SameWork, Fresh, Settles, Flushed
<1>2. \A e \in Entry : /\ es[e].on = i <=> fs[e].on = i
                       /\ es[e].on = i => es[e].hours = fs[e].hours
  BY <1>1 DEF Over
<1>3. Flushed(c) = es
  BY DEF Flushed
<1> HIDE DEF es, fs
<1>4. Logged(es, i) = Logged(fs, i)
  BY <1>2, LoggedSame
<1>. QED
  BY <1>1, <1>3, <1>4 DEF PendingOf, Fresh, Settles

(* Taking the SUM over fresh columns settles the items. *)
LEMMA RecomputePending ==
  ASSUME TypeOK, NEW r \in Req, NEW is, NEW seen \in [Item -> ItemRow], NEW change,
         Recompute(r, is, seen, change), UNCHANGED <<item, entry>>,
         task[r].clear => \A i \in (is \cap live) \ Epic : Fresh(seen[i], i)
  PROVE  PendingOf(r)'
<1>1. /\ task'[r].stage = "commit" /\ task'[r].clear = task[r].clear
      /\ task'[r].items = is /\ task'[r].change = change
      /\ \A i \in Item \cap is :
           task'[r].write[i] = Derived(seen[i], Logged(Flushed(change), i))
  BY RecomputeWork
<1>2. SUFFICES ASSUME NEW i \in (is \cap live) \ Epic, task[r].clear
               PROVE  Settles(task'[r].write[i], change, i)
  BY <1>1 DEF PendingOf, live, Settles, Flushed
<1> DEFINE sum == Logged(Flushed(change), i)
           w == Derived(seen[i], sum)
<1>3. i \in Item /\ item[i] \in ItemRow /\ sum \in Int
  BY LoggedTyped DEF live, TypeOK
<1>4. task'[r].write[i] = w
  BY <1>1, <1>2, <1>3
<1>5. Fresh(seen[i], i)
  BY <1>2
<1> HIDE DEF sum
<1>6. /\ w.est = Keep /\ w.logged = Changed(sum, item[i].logged)
      /\ w.remaining = Changed(Positive(item[i].est - sum), item[i].remaining)
  BY <1>5 DEF Derived, NoWrite, Fresh
<1>7. sum # Keep /\ Positive(item[i].est - sum) # Keep
  <2>1. item[i].est - sum \in Int
    BY <1>3 DEF ItemRow
  <2>. QED
    BY <1>3, <2>1, PositiveTyped, LedgerAssumption
<1>8. /\ Over(w.logged, item[i].logged) = sum
      /\ Over(w.remaining, item[i].remaining) = Positive(item[i].est - sum)
  BY <1>6, <1>7 DEF Over, Changed
<1> HIDE DEF w
<1>. QED
  BY <1>4, <1>6, <1>8 DEF Settles, sum

LEMMA LoadFresh ==
  ASSUME NEW is, NEW i \in is \cap Item PROVE Fresh(Load(is)[i], i)
BY DEF Load, Fresh

(* A step of r that leaves the tables alone leaves the others' pending.    *)
LEMMA QuietPending ==
  ASSUME PendingIsExact, NEW r \in Req, NEW s \in Req, UNCHANGED <<item, entry>>,
         task'[s] = task[s]
  PROVE  PendingOf(s)'
BY PendingSplit, PendingFrame DEF SameWork, live

(* Nothing is pending for a request that is past its commit. *)
LEMMA PastPending ==
  ASSUME NEW r \in Req, task'[r].stage \notin {"read", "commit"} PROVE PendingOf(r)'
BY DEF PendingOf

LEMMA OneQuiet ==
  ASSUME TypeOK, PendingIsExact, NEW r \in Req, NEW t, Step(r, t),
         UNCHANGED <<item, entry>>, PendingOf(r)'
  PROVE  PendingIsExact'
<1>1. \A s \in Req \ {r} : task'[s] = task[s]
  BY StepWork
<1>2. \A s \in Req \ {r} : PendingOf(s)'
  BY <1>1, QuietPending
<1>. QED
  BY <1>2, PendingSplit

LEMMA EndPending ==
  ASSUME TypeOK, PendingIsExact, NEW r \in Req, End(r), UNCHANGED <<item, entry>>
  PROVE  PendingIsExact'
<1>1. Step(r, Idle) /\ task'[r] = Idle
  BY StepWork DEF End
<1>2. PendingOf(r)'
  BY <1>1, PastPending, IdleFields
<1>. QED
  BY <1>1, <1>2, OneQuiet

LEMMA SumPending ==
  ASSUME TypeOK, PendingIsExact, NEW r \in Req, NEW is, NEW seen \in [Item -> ItemRow],
         NEW change, Recompute(r, is, seen, change), UNCHANGED <<item, entry>>,
         task[r].clear => \A i \in (is \cap live) \ Epic : Fresh(seen[i], i)
  PROVE  PendingIsExact'
BY RecomputePending, RecomputeWork, OneQuiet

LEMMA ReceivePending ==
  ASSUME TypeOK, PendingIsExact, NEW r \in Req, Receive(r) PROVE PendingIsExact'
<1>1. CASE UNCHANGED vars
  BY <1>1 DEF vars, PendingIsExact, live, Fresh, Settles, Flushed
<1>2. ASSUME NEW t \in Task, Begun(r, t) PROVE PendingIsExact'
  <2>1. /\ Others(r)
        /\ SameWork(t, task'[r])
        /\ \A s \in Req \ {r} : task'[s].clear => task[s].items \cap t.items = {}
    BY <1>2, BeginWork DEF Begun
  <2>2. \A i \in Item \ t.items : item'[i] = item[i]
    BY <1>2 DEF Begun, TypeOK
  <2>3. ASSUME NEW s \in Req \ {r} PROVE PendingOf(s)'
    <3>1. \A i \in (task[s].items \cap live') \ Epic : task'[s].clear =>
            i \in live /\ item'[i] = item[i]
      BY <2>1, <2>2 DEF live
    <3>. QED
      BY <1>2, <2>1, <3>1, PendingSplit, PendingFrame DEF Others, Begun
  <2>4. PendingOf(r)'
    <3>1. CASE t.stage = "read" /\ t.op \in {"log", "delete", "repair"}
      <4>1. UNCHANGED item /\ t.seen = Load(t.items)
        BY <1>2, <3>1 DEF Begun
      <4>2. \A i \in t.items \cap live : t.seen[i].est = item'[i].est
                 /\ t.seen[i].logged = item'[i].logged
                 /\ t.seen[i].remaining = item'[i].remaining
        BY <4>1, LoadFresh DEF Fresh, live
      <4>. QED
        BY <2>1, <3>1, <4>1, <4>2 DEF PendingOf, SameWork, Fresh, live
    <3>2. CASE ~(t.stage = "read" /\ t.op \in {"log", "delete", "repair"})
      BY <1>2, <2>1, <3>2 DEF PendingOf, SameWork, Begun
    <3>. QED
      BY <3>1, <3>2
  <2>. QED
    BY <2>3, <2>4, PendingSplit
<1>. QED
  BY <1>1, <1>2, ReceiveBegins

LEMMA EntryPending ==
  ASSUME TypeOK, PendingIsExact, NEW r \in Req,
         InsertEntry(r) \/ UpdateEntry(r) \/ DropEntry(r) \/ DeleteDoomed(r) \/ CompareHours(r)
  PROVE  PendingIsExact'
<1> DEFINE t == task[r]
<1>1. t.seen \in [Item -> ItemRow] /\ t.items \in SUBSET Item
  BY DEF TypeOK, Task, TaskRow
<1>2. \A is : Load(is) \in [Item -> ItemRow]
  BY LoadTyped
<1>3. \A is : \A i \in is \cap live : Fresh(Load(is)[i], i)
  BY LoadFresh DEF live
<1>4. t.stage = "read" /\ t.op \in {"log", "delete", "repair"} /\ t.clear =>
        \A i \in (t.items \cap live) \ Epic : Fresh(t.seen[i], i)
  BY DEF PendingIsExact
<1>5. CASE InsertEntry(r)
  <2>1. /\ t.stage = "read" /\ t.op = "log" /\ UNCHANGED <<item, entry>>
        /\ End(r) \/ \E change : Recompute(r, t.items, t.seen, change)
    BY <1>5 DEF InsertEntry
  <2>. QED
    BY <1>1, <1>4, <2>1, EndPending, SumPending
<1>6. CASE UpdateEntry(r)
  <2>1. /\ UNCHANGED <<item, entry>>
        /\ End(r) \/ \E change : Recompute(r, t.items, Load(t.items), change)
    BY <1>6 DEF UpdateEntry
  <2>. QED
    BY <1>2, <1>3, <2>1, EndPending, SumPending
<1>7. CASE DropEntry(r)
  <2>1. /\ t.stage = "read" /\ t.op = "delete" /\ UNCHANGED <<item, entry>>
        /\ \E change : Recompute(r, t.items, t.seen, change)
    BY <1>7 DEF DropEntry
  <2>. QED
    BY <1>1, <1>4, <2>1, SumPending
<1>8. CASE DeleteDoomed(r)
  <2>1. /\ UNCHANGED <<item, entry>>
        /\ \E is, change : Recompute(r, is, Load(is), change)
    BY <1>8 DEF DeleteDoomed
  <2>. QED
    BY <1>2, <1>3, <2>1, SumPending
<1>9. CASE CompareHours(r)
  <2>1. /\ t.stage = "read" /\ t.op = "repair" /\ UNCHANGED <<item, entry>>
        /\ \/ End(r)
           \/ \E is \in SUBSET t.items : \E change : Recompute(r, is, t.seen, change)
    BY <1>9 DEF CompareHours
  <2>. QED
    BY <1>1, <1>4, <2>1, EndPending, SumPending
<1>. QED
  BY <1>5, <1>6, <1>7, <1>8, <1>9

(* A commit touches its own items, and entries on them, only.              *)
LEMMA CommitFrame ==
  ASSUME TypeOK, SInv, NEW r \in Req, Commit(r), CanCommit(task[r]),
         NEW i \in Item \ task[r].items
  PROVE  /\ item'[i] = item[i]
         /\ \A e \in Entry : /\ entry'[e].on = i <=> entry[e].on = i
                             /\ entry[e].on = i => entry'[e] = entry[e]
<1>1. \A e \in Entry : task[r].change[e] # Keep =>
        {entry[e].on, task[r].change[e].on} \subseteq task[r].items \cup {NoItem}
  BY DEF SInv, ChangesHeld
<1>2. i # NoItem
  BY LedgerAssumption
<1>. QED
  BY <1>1, <1>2, CommitMoves DEF Over

LEMMA CommitPending ==
  ASSUME TypeOK, SInv, PendingIsExact, NEW r \in Req, Commit(r) PROVE PendingIsExact'
<1>1. CASE ~CanCommit(task[r])
  BY <1>1, EndPending DEF Commit
<1>2. CASE CanCommit(task[r])
  <2>1. live' = live
    BY <1>2, CommitMoves
  <2>2. PICK t : Step(r, t) /\ t.stage \in {"idle", "rollup"}
    BY <1>2, CommitMoves
  <2>3. task'[r] = t /\ \A s \in Req \ {r} : task'[s] = task[s]
    BY <2>2, StepWork
  <2>4. PendingOf(r)'
    BY <2>2, <2>3, PastPending
  <2>5. ASSUME NEW s \in Req \ {r} PROVE PendingOf(s)'
    <3>1. \A i \in (task[s].items \cap live') \ Epic : task'[s].clear =>
            i \in Item \ task[r].items
      BY <2>1, <2>3 DEF SInv, ClearIsAlone, live
    <3>. QED
      BY <1>2, <2>1, <2>3, <3>1, CommitFrame, PendingSplit, PendingFrame DEF SameWork
  <2>. QED
    BY <2>4, <2>5, PendingSplit
<1>. QED
  BY <1>1, <1>2

LEMMA RemovePending ==
  ASSUME TypeOK, SInv, PendingIsExact, NEW r \in Req, CommitRemove(r) PROVE PendingIsExact'
<1>1. /\ live' = live \ task[r].items
      /\ \A i \in Item \ task[r].items :
           /\ item'[i].est = item[i].est /\ item'[i].logged = item[i].logged
           /\ item'[i].remaining = item[i].remaining
      /\ \A e \in Entry : IF entry[e].on \in task[r].items THEN entry'[e].on = NoItem
                          ELSE entry'[e] = entry[e]
      /\ Step(r, task'[r]) /\ task'[r].stage = "rollup"
  BY RemoveMoves
<1>2. \A s \in Req \ {r} : task'[s] = task[s]
  BY <1>1, StepWork
<1>3. PendingOf(r)'
  BY <1>1, PastPending
<1>4. ASSUME NEW s \in Req \ {r} PROVE PendingOf(s)'
  <2>1. \A i \in (task[s].items \cap live') \ Epic : task'[s].clear =>
          i \in live /\ i \in Item \ task[r].items /\ i # NoItem
    BY <1>1, <1>2, LedgerAssumption DEF live
  <2>. QED
    BY <1>1, <1>2, <2>1, PendingSplit, PendingFrame DEF SameWork
<1>. QED
  BY <1>3, <1>4, PendingSplit

LEMMA RollupPending ==
  ASSUME TypeOK, PendingIsExact, NEW r \in Req, Rollup(r) PROVE PendingIsExact'
<1> DEFINE next(es) == [task[r] EXCEPT !.stage = "store", !.epics = es,
                                       !.totals = Pending(es)]
<1>1. PICK es : End(r) \/ Step(r, next(es))
  BY DEF Rollup
<1>2. next(es).stage = "store"
  BY DEF TypeOK, Task, TaskRow
<1>3. UNCHANGED <<item, entry>>
  BY DEF Rollup
<1> HIDE DEF next
<1>4. CASE Step(r, next(es))
  <2>1. task'[r].stage = "store"
    BY <1>2, <1>4, StepWork
  <2>2. PendingOf(r)'
    BY <2>1, PastPending
  <2>. QED
    BY <1>3, <1>4, <2>2, OneQuiet
<1>. QED
  BY <1>1, <1>3, <1>4, EndPending

(* The totals go to epics only. *)
LEMMA StoreFrame ==
  ASSUME TypeOK, NEW r \in Req, StoreEpics(r)
  PROVE  /\ live' = live /\ entry' = entry
         /\ \A i \in Item \ Epic : item'[i] = item[i]
<1>1. task[r].epics \subseteq Epic
  BY DEF TypeOK, Task, TaskRow
<1>2. \A i \in Item : item'[i].life = item[i].life
  <2> TAKE i \in Item
  <2>1. item[i] \in ItemRow
    BY DEF TypeOK
  <2>. QED
    BY <2>1 DEF StoreEpics, ItemRow
<1>3. live' = live
  BY <1>2 DEF live
<1>. QED
  BY <1>1, <1>3 DEF StoreEpics

LEMMA StorePending ==
  ASSUME TypeOK, PendingIsExact, NEW r \in Req, StoreEpics(r) PROVE PendingIsExact'
<1>1. task'[r] = Idle /\ \A s \in Req \ {r} : task'[s] = task[s]
  BY StepWork DEF StoreEpics, End
<1>2. PendingOf(r)'
  BY <1>1, IdleFields, PastPending
<1>3. ASSUME NEW s \in Req \ {r} PROVE PendingOf(s)'
  <2>1. task[s].items \subseteq Item
    BY DEF TypeOK, Task, TaskRow
  <2>. QED
    BY <1>1, <2>1, StoreFrame, PendingSplit, PendingFrame DEF SameWork
<1>. QED
  BY <1>2, <1>3, PendingSplit

LEMMA NextPending == TypeOK /\ SInv /\ PendingIsExact /\ [Next]_vars => PendingIsExact'
<1> SUFFICES ASSUME TypeOK, SInv, PendingIsExact, [Next]_vars PROVE PendingIsExact'
  OBVIOUS
<1>1. CASE UNCHANGED vars
  BY <1>1 DEF vars, PendingIsExact, live, Fresh, Settles, Flushed
<1>2. ASSUME NEW r \in Req, Receive(r) PROVE PendingIsExact'
  BY <1>2, ReceivePending
<1>3. ASSUME NEW r \in Req, Continue(r) PROVE PendingIsExact'
  BY <1>3, EntryPending, CommitPending, RemovePending, RollupPending, StorePending
     DEF Continue
<1>4. ASSUME NEW r \in Req, Crash(r) PROVE PendingIsExact'
  BY <1>4, EndPending DEF Crash
<1>. QED
  BY <1>1, <1>2, <1>3, <1>4 DEF Next

LEMMA InvSplit ==
  /\ IInv <=> TypeOK /\ SInv /\ PendingIsExact
  /\ IInv' <=> TypeOK' /\ SInv' /\ PendingIsExact'
BY DEF IInv, SInv

LEMMA InitPending == Init => PendingIsExact
BY IdleFields DEF Init, PendingIsExact

(* The inductive invariant: whatever races and whatever dies, a flushed    *)
(* change is its request's own, and what is pending on items that nobody   *)
(* else has been working on will make them exact.                          *)
THEOREM Invariant == Spec => []IInv
<1>1. Init => IInv
  BY InitTypeOK, InitSInv, InitPending, InvSplit
<1>2. IInv /\ [Next]_vars => IInv'
  BY NextTypeOK, NextSInv, NextPending, InvSplit
<1>. QED
  BY <1>1, <1>2, PTL DEF Spec
-----------------------------------------------------------------------------
(* An item that a clear commit has recomputed is exact. *)
LEMMA CommitExact ==
  ASSUME IInv, NEW r \in Req, Commit(r), CanCommit(task[r]), task[r].clear,
         task[r].op \in Recomputes, NEW i \in task[r].items \ Epic
  PROVE  Exact(i)'
<1> DEFINE w == task[r].write[i]
           logged == Over(w.logged, item[i].logged)
<1>1. TypeOK /\ SInv /\ PendingIsExact
  BY InvSplit
<1>2. i \in live /\ i \in Item /\ item[i] \in ItemRow
  BY <1>1 DEF CanCommit, live, TypeOK
<1>3. /\ w.est = Keep
      /\ logged = Logged(Flushed(task[r].change), i)
      /\ Over(w.remaining, item[i].remaining) = Positive(item[i].est - logged)
  BY <1>1, <1>2 DEF PendingIsExact, Settles, Commit
<1>4. item'[i] = Written(i, w) /\ entry' = Flushed(task[r].change)
  BY <1>1, CommitMoves DEF Commit
<1>5. /\ item'[i].est = item[i].est /\ item'[i].logged = logged
      /\ item'[i].remaining = Over(w.remaining, item[i].remaining)
  <2> HIDE DEF w
  <2>. QED
    BY <1>2, <1>3, <1>4 DEF Written, Over, ItemRow, logged
<1> HIDE DEF w, logged
<1>. QED
  BY <1>3, <1>4, <1>5 DEF Exact

(* log_hours: a rollup is "self-healing".  Whatever the columns held, the  *)
(* commit of a request that recomputes them makes them exact, unless       *)
(* another request worked on the same item meanwhile.                      *)
THEOREM Heals == Spec => RecomputeHeals
<1> DEFINE A == \A r \in Req :
       Commit(r) /\ CanCommit(task[r]) /\ task[r].clear /\ task[r].op \in Recomputes =>
         \A i \in task[r].items \ Epic : Exact(i)'
<1>1. IInv /\ [Next]_vars => [A]_vars
  BY CommitExact
<1>2. Spec => [][A]_vars
  BY <1>1, Invariant, PTL DEF Spec
<1>. QED
  BY <1>2 DEF RecomputeHeals
-----------------------------------------------------------------------------
(* One request at a time. *)
Alone == \A r, s \in Req : r = s
AllClear == \A r \in Req : task[r].clear

LEMMA NextClear == Alone /\ TypeOK /\ SInv /\ AllClear /\ [Next]_vars => AllClear'
<1> SUFFICES ASSUME Alone, TypeOK, SInv, AllClear, [Next]_vars PROVE AllClear'
  OBVIOUS
<1>1. CASE UNCHANGED vars
  BY <1>1 DEF vars, AllClear
<1>2. ASSUME NEW r \in Req, NEW t, Step(r, t), t.clear PROVE AllClear'
  <2>1. task'[r] = t
    BY <1>2, StepWork
  <2>. QED
    BY <1>2, <2>1 DEF Alone, AllClear
<1>3. ASSUME NEW r \in Req, End(r) PROVE AllClear'
  BY <1>2, <1>3 DEF End, Idle
<1>4. ASSUME NEW r \in Req, NEW is, NEW seen, NEW change, Recompute(r, is, seen, change)
      PROVE  AllClear'
  BY <1>2, <1>4, RecomputeWork DEF AllClear
<1>5. ASSUME NEW r \in Req, Receive(r) PROVE AllClear'
  <2>1. ASSUME NEW t \in Task, Begun(r, t) PROVE AllClear'
    <3>1. \A q \in Req : task[q].items \cap t.items = {}
      BY <2>1 DEF Begun, Begin, Alone, SInv, IdleIsBare
    <3>2. task'[r] = [t EXCEPT !.clear = TRUE]
      BY <2>1, <3>1 DEF Begun, Begin
    <3>. QED
      BY <3>2 DEF Alone, AllClear, Task, TaskRow
  <2>. QED
    BY <1>1, <1>5, <2>1, ReceiveBegins
<1>6. ASSUME NEW r \in Req, Continue(r) PROVE AllClear'
  <2>1. CASE InsertEntry(r)
    BY <1>3, <1>4, <2>1 DEF InsertEntry
  <2>2. CASE UpdateEntry(r)
    BY <1>3, <1>4, <2>2 DEF UpdateEntry
  <2>3. CASE DropEntry(r)
    BY <1>4, <2>3 DEF DropEntry
  <2>4. CASE DeleteDoomed(r)
    BY <1>4, <2>4 DEF DeleteDoomed
  <2>5. CASE CompareHours(r)
    BY <1>3, <1>4, <2>5 DEF CompareHours
  <2>6. CASE Commit(r)
    BY <1>2, <1>3, <2>6, CommitMoves DEF Commit, Idle, AllClear
  <2>7. CASE CommitRemove(r)
    BY <1>2, <2>7, RemoveMoves DEF AllClear
  <2>8. CASE Rollup(r)
    <3>1. PICK es : End(r) \/ Step(r, [task[r] EXCEPT !.stage = "store", !.epics = es,
                                                      !.totals = Pending(es)])
      BY <2>8 DEF Rollup
    <3>2. [task[r] EXCEPT !.stage = "store", !.epics = es, !.totals = Pending(es)].clear
      BY DEF AllClear, TypeOK, Task, TaskRow
    <3>. QED
      BY <1>2, <1>3, <3>1, <3>2
  <2>9. CASE StoreEpics(r)
    BY <1>3, <2>9 DEF StoreEpics
  <2>. QED
    BY <1>6, <2>1, <2>2, <2>3, <2>4, <2>5, <2>6, <2>7, <2>8, <2>9 DEF Continue
<1>7. ASSUME NEW r \in Req, Crash(r) PROVE AllClear'
  BY <1>3, <1>7 DEF Crash
<1>. QED
  BY <1>1, <1>5, <1>6, <1>7 DEF Next

(* An item whose column and entries a step leaves alone stays right. *)
LEMMA SumFrame ==
  ASSUME LoggedIsSum, NEW i \in live \ Epic, item'[i].logged = item[i].logged,
         \A e \in Entry : /\ entry'[e].on = i <=> entry[e].on = i
                          /\ entry[e].on = i => entry'[e] = entry[e]
  PROVE  item'[i].logged = Logged(entry', i)
<1>1. Logged(entry', i) = Logged(entry, i)
  BY LoggedSame
<1>. QED
  BY <1>1 DEF LoggedIsSum

LEMMA QuietSum ==
  ASSUME LoggedIsSum, UNCHANGED <<item, entry>> PROVE LoggedIsSum'
BY DEF LoggedIsSum, live

LEMMA ReceiveSum ==
  ASSUME TypeOK, SInv, LoggedIsSum, NEW r \in Req, Receive(r) PROVE LoggedIsSum'
<1>1. CASE UNCHANGED vars
  BY <1>1, QuietSum DEF vars
<1>2. ASSUME NEW t \in Task, Begun(r, t) PROVE LoggedIsSum'
  <2>1. CASE UNCHANGED item
    BY <1>2, <2>1, QuietSum DEF Begun
  <2>2. ASSUME NEW i \in t.items, NEW row \in ItemRow, item[i].life = "new",
               item' = [item EXCEPT ![i] = row], row.logged = 0
        PROVE  LoggedIsSum'
    <3>1. i \in Item /\ i # NoItem /\ i \notin live
      BY <2>2, LedgerAssumption DEF Task, TaskRow, live
    <3>2. \A e \in Entry : entry[e].on # i
      BY <3>1 DEF SInv, EntriesOnLive
    <3>3. Logged(entry, i) = 0 /\ item'[i].logged = 0
      BY <2>2, <3>1, <3>2, LoggedNothing DEF TypeOK
    <3>4. \A j \in Item \ {i} : item'[j] = item[j]
      BY <2>2 DEF TypeOK
    <3>. QED
      BY <1>2, <3>3, <3>4 DEF Begun, LoggedIsSum, live
  <2>. QED
    BY <1>2, <2>1, <2>2 DEF Begun
<1>. QED
  BY <1>1, <1>2, ReceiveBegins

LEMMA CommitSum ==
  ASSUME IInv, AllClear, LoggedIsSum, NEW r \in Req, Commit(r) PROVE LoggedIsSum'
<1>1. TypeOK /\ SInv
  BY InvSplit
<1>2. CASE ~CanCommit(task[r])
  BY <1>2, QuietSum DEF Commit
<1>3. CASE CanCommit(task[r])
  <2>1. live' = live
    BY <1>1, <1>3, CommitMoves
  <2>2. ASSUME NEW i \in live \ Epic PROVE item'[i].logged = Logged(entry', i)
    <3>1. i \in Item
      BY DEF live
    <3>2. CASE i \notin task[r].items
      BY <1>1, <1>3, <2>2, <3>1, <3>2, CommitFrame, SumFrame
    <3>3. CASE i \in task[r].items /\ task[r].op \in Recomputes
      BY <1>3, <2>2, <3>3, CommitExact DEF AllClear, Exact
    <3>4. CASE i \in task[r].items /\ task[r].op \notin Recomputes
      <4>1. task[r].write[i].logged = Keep /\ item[i] \in ItemRow
        BY <1>1, <3>1, <3>4 DEF SInv, LoggedIsKept, Commit, TypeOK
      <4>2. \A e \in Entry : task[r].change[e] = Keep
        BY <1>1, <3>4 DEF SInv, ChangesHeld
      <4>3. item'[i] = Written(i, task[r].write[i])
        BY <1>1, <1>3, <3>4, CommitMoves
      <4>4. item'[i].logged = item[i].logged
        <5> DEFINE w == task[r].write[i]
        <5>1. w.logged = Keep /\ item'[i] = Written(i, w)
          BY <4>1, <4>3
        <5> HIDE DEF w
        <5>. QED
          BY <4>1, <5>1 DEF Written, Over, ItemRow
      <4>5. \A e \in Entry : entry'[e] = entry[e]
        BY <1>1, <1>3, <4>2, CommitMoves DEF Over
      <4>. QED
        BY <2>2, <4>4, <4>5, SumFrame
    <3>. QED
      BY <3>2, <3>3, <3>4
  <2>. QED
    BY <2>1, <2>2 DEF LoggedIsSum
<1>. QED
  BY <1>2, <1>3

LEMMA RemoveSum ==
  ASSUME TypeOK, LoggedIsSum, NEW r \in Req, CommitRemove(r) PROVE LoggedIsSum'
<1>1. /\ live' = live \ task[r].items
      /\ \A i \in Item \ task[r].items : item'[i].logged = item[i].logged
      /\ \A e \in Entry : IF entry[e].on \in task[r].items THEN entry'[e].on = NoItem
                          ELSE entry'[e] = entry[e]
  BY RemoveMoves
<1>2. ASSUME NEW i \in live' \ Epic PROVE item'[i].logged = Logged(entry', i)
  <2>1. i \in live \ Epic /\ i \in Item \ task[r].items /\ i # NoItem
    BY <1>1, <1>2, LedgerAssumption DEF live
  <2>. QED
    BY <1>1, <2>1, SumFrame
<1>. QED
  BY <1>2 DEF LoggedIsSum

LEMMA NextSum == IInv /\ AllClear /\ LoggedIsSum /\ [Next]_vars => LoggedIsSum'
<1> SUFFICES ASSUME IInv, AllClear, LoggedIsSum, [Next]_vars PROVE LoggedIsSum'
  OBVIOUS
<1>1. TypeOK /\ SInv
  BY InvSplit
<1>2. CASE UNCHANGED vars
  BY <1>2, QuietSum DEF vars
<1>3. ASSUME NEW r \in Req, Receive(r) PROVE LoggedIsSum'
  BY <1>1, <1>3, ReceiveSum
<1>4. ASSUME NEW r \in Req, Continue(r) PROVE LoggedIsSum'
  <2>1. CASE InsertEntry(r) \/ UpdateEntry(r) \/ DropEntry(r) \/ DeleteDoomed(r)
             \/ CompareHours(r) \/ Rollup(r)
    BY <2>1, QuietSum DEF InsertEntry, UpdateEntry, DropEntry, DeleteDoomed, CompareHours,
       Rollup
  <2>2. CASE Commit(r)
    BY <2>2, CommitSum
  <2>3. CASE CommitRemove(r)
    BY <1>1, <2>3, RemoveSum
  <2>4. CASE StoreEpics(r)
    BY <1>1, <2>4, StoreFrame DEF LoggedIsSum, live
  <2>. QED
    BY <1>4, <2>1, <2>2, <2>3, <2>4 DEF Continue
<1>5. ASSUME NEW r \in Req, Crash(r) PROVE LoggedIsSum'
  BY <1>5, QuietSum DEF Crash
<1>. QED
  BY <1>2, <1>3, <1>4, <1>5 DEF Next

(* log_hours: "logged_hours is always exactly the sum of its TimeEntry     *)
(* rows", for any items, entries, scripts and crashes, when requests come  *)
(* one at a time.                                                          *)
THEOREM HoursAddUp == Alone => (Spec => []LoggedIsSum)
<1> SUFFICES ASSUME Alone PROVE Spec => []LoggedIsSum
  OBVIOUS
<1>1. Init => AllClear /\ LoggedIsSum
  BY DEF Init, AllClear, LoggedIsSum, Idle, live, NoRow
<1>2. IInv /\ AllClear /\ LoggedIsSum /\ [Next]_vars => (AllClear /\ LoggedIsSum)'
  BY NextClear, NextSum, InvSplit
<1>. QED
  BY <1>1, <1>2, Invariant, PTL DEF Spec
-----------------------------------------------------------------------------
(* Epics: what their columns are the totals of, and who sums them again.    *)

\* What i may hang below.
Hook(i) == IF i \in Story THEN Epic ELSE IF i \in Subtask THEN Story ELSE {}
LinksFit == \A i \in Item :
  item[i].up \in (IF i \in live THEN Hook(i) \cap live ELSE {}) \cup {NoItem}
OffEpics == \A e \in Entry : entry[e].on \notin Epic

\* What the columns of the epic e add up.
Under(e) == {x \in live : Above(x) = e}
AddsUp(e) == \A c \in Column : item[e][c] = Total([i \in Under(e) |-> item[i][c]])

\* A request is about one item, no epic unless it creates or deletes it, and
\* knows the link that it is about to change.
Job(t, i) ==
  /\ t.items = {i} /\ t.op \notin {"dedupe", "repair"}
  /\ t.stage \in {"read", "commit"} /\ t.op # "remove" => i \notin Epic
  /\ t.stage = "read" /\ t.op = "remove" => t.was = item[i].up
  /\ t.stage = "commit" =>
       LET w == t.write[i] IN
       /\ t.op # "remove"
       /\ IF t.op = "move"
            THEN /\ t.was = item[i].up /\ w.up \in Hook(i) \cup {NoItem, Keep}
                 /\ w.est = Keep /\ w.logged = Keep /\ w.remaining = Keep
            ELSE w.up = Keep
  /\ t.stage = "rollup" /\ t.op # "remove" => i \in live
OneJob == \A r \in Req : Busy(r) => \E i \in Item : Job(task[r], i)

\* What a request is still going to add up, and what it will store.
Awaits(t, e) ==
  \/ t.stage = "rollup" /\ \E i \in t.items : e \in Refreshed(t, i)
  \/ t.stage = "store" /\ e \in t.epics
Stored(t) == t.stage = "store" =>
  /\ t.epics \subseteq live
  /\ \A e \in t.epics, c \in Column :
       Over(t.totals[e][c], item[e][c]) = Total([i \in Under(e) |-> item[i][c]])

RollInv ==
  /\ LinksFit /\ OffEpics /\ OneJob
  /\ \A r \in Req : Stored(task[r])
  /\ \A e \in Epic \cap live : AddsUp(e) \/ \E r \in Req : Awaits(task[r], e)

\* Requests one at a time that work on stories and subtasks, and nothing else.
OnlyRequests == Alone /\ Scripts = {} /\ ~Crashes /\ Worked \cap Epic = {}

LEMMA LinkTo ==
  ASSUME LinksFit, NEW i \in Item
  PROVE  /\ item[i].up = NoItem \/ (i \in live /\ item[i].up \in Hook(i) \cap live)
         /\ Above(i) \in (Epic \cap live) \cup {NoItem}
         /\ i \in Epic \/ i \notin live => Above(i) = NoItem
<1>1. \A j \in Item : item[j].up = NoItem \/ (j \in live /\ item[j].up \in Hook(j) \cap live)
  BY DEF LinksFit
<1>2. CASE i \in Story
  BY <1>1, <1>2, LedgerAssumption DEF Above, Hook
<1>3. CASE i \in Subtask
  <2>1. i \notin Story /\ i \notin Epic
    BY <1>3, LedgerAssumption
  <2>2. item[i].up = NoItem \/ (i \in live /\ item[i].up \in Story)
    BY <1>1, <1>3, <2>1 DEF Hook
  <2>3. \A p \in Story : p \in Item /\ item[p].up \in (Epic \cap live) \cup {NoItem}
    BY <1>1 DEF Hook, Item
  <2>. QED
    BY <1>1, <1>3, <2>1, <2>2, <2>3 DEF Above, EpicOf
<1>4. CASE i \in Epic
  BY <1>1, <1>4, LedgerAssumption DEF Above, Hook
<1>. QED
  BY <1>2, <1>3, <1>4 DEF Item

\* The same items with the same columns have the same totals.
LEMMA SameTotals ==
  ASSUME NEW e, NEW c, Under(e)' = Under(e),
         \A i \in Under(e) : item'[i][c] = item[i][c]
  PROVE  Total([i \in Under(e) |-> item[i][c]])' = Total([i \in Under(e) |-> item[i][c]])
<1> DEFINE f == [i \in Under(e) |-> item[i][c]]
<1>1. f' = f
  OBVIOUS
<1>2. Total(f)' = Total(f')
  BY DEF Total
<1>. QED
  BY <1>1, <1>2

LEMMA SumKept ==
  ASSUME NEW e, AddsUp(e), Under(e)' = Under(e),
         \A i \in Under(e) \cup {e}, c \in Column : item'[i][c] = item[i][c]
  PROVE  AddsUp(e)'
<1>1. \A c \in Column :
        Total([i \in Under(e) |-> item[i][c]])' = Total([i \in Under(e) |-> item[i][c]])
  BY SameTotals
<1>2. \A c \in Column : item'[e][c] = Total([i \in Under(e) |-> item[i][c]])'
  BY <1>1 DEF AddsUp
<1>. QED
  BY <1>2 DEF AddsUp

\* A step that changes one item disturbs the epic it is under and the one it
\* comes under.
LEMMA OneMoves ==
  ASSUME LinksFit, LinksFit', NEW i \in Item, \A j \in Item \ {i} : item'[j] = item[j],
         NEW e \in Epic \ {i}, Above(i) # e, Above(i)' # e, AddsUp(e)
  PROVE  AddsUp(e)'
<1>0. e # NoItem /\ e \in Item
  BY LedgerAssumption DEF Item
<1>1. ASSUME NEW j \in Item \ {i} PROVE Above(j)' = e <=> Above(j) = e
  <2>1. CASE j \notin Subtask \/ j \in Story
    BY <2>1 DEF Above
  <2>2. CASE j \in Subtask /\ j \notin Story
    <3>1. Above(j) = EpicOf(item[j].up) /\ Above(j)' = EpicOf(item[j].up)'
          /\ item'[j].up = item[j].up
      BY <2>2 DEF Above
    <3>2. item[j].up \in Story \cup {NoItem}
      BY <2>2, LinkTo DEF Hook
    <3>3. CASE item[j].up # i
      BY <3>1, <3>2, <3>3 DEF EpicOf, Item
    <3>4. CASE item[j].up = i
      BY <3>1, <3>2, <3>4, LedgerAssumption DEF EpicOf, Above
    <3>. QED
      BY <3>3, <3>4
  <2>. QED
    BY <2>1, <2>2
<1>2. \A j \in Item : j \in Under(e)' <=> j \in Under(e)
  BY <1>1 DEF Under, live
<1>3. Under(e)' = Under(e) /\ Under(e) \subseteq Item \ {i}
  BY <1>2 DEF Under, live
<1>. QED
  BY <1>0, <1>3, SumKept

\* What a request is as it begins.
LEMMA BeginIs ==
  ASSUME NEW r \in Req, NEW t, Begin(r, t),
         {"stage", "op", "items", "was", "write", "clear"} \subseteq DOMAIN t
  PROVE  /\ ~Busy(r)
         /\ task'[r].stage = t.stage /\ task'[r].op = t.op /\ task'[r].items = t.items
         /\ task'[r].was = t.was /\ task'[r].write = t.write
<1> DEFINE d == \A q \in Req : task[q].items \cap t.items = {}
<1>1. task'[r] = [t EXCEPT !.clear = d] /\ ~Busy(r)
  BY DEF Begin
<1> HIDE DEF d
<1>. QED
  BY <1>1

LEMMA ReadsOne ==
  ASSUME NEW r \in Req, NEW i \in Item \ Epic, NEW t, Begin(r, t),
         {"stage", "op", "items", "was", "write", "clear"} \subseteq DOMAIN t,
         t.stage = "read", t.op \in {"log", "edit", "delete"}, t.items = {i}
  PROVE  (\E j \in Item : Job(task[r], j))' /\ task'[r].stage = "read" /\ ~Busy(r)
BY BeginIs DEF Job

LEMMA LogJob ==
  ASSUME OnlyRequests, NEW r \in Req, NEW i \in Item, NEW e \in Entry, NEW h \in Hours,
         LogHours(r, i, e, h)
  PROVE  (\E j \in Item : Job(task[r], j))' /\ task'[r].stage = "read" /\ ~Busy(r)
<1> DEFINE seen == Load({i})
           t == [Idle EXCEPT !.stage = "read", !.op = "log", !.entries = {e},
                           !.hours = h, !.items = {i}, !.seen = seen]
<1>1. Begin(r, t) /\ i \in Item \ Epic
  BY DEF LogHours, OnlyRequests
<1> HIDE DEF seen
<1>2. /\ {"stage", "op", "items", "was", "write", "clear"} \subseteq DOMAIN t
      /\ t.stage = "read" /\ t.op = "log" /\ t.items = {i}
  BY DEF Idle
<1> HIDE DEF t
<1>. QED
  BY <1>1, <1>2, ReadsOne

LEMMA EditJob ==
  ASSUME TypeOK, OffEpics, NEW r \in Req, NEW e \in Entry, NEW h \in Hours, EditEntry(r, e, h)
  PROVE  (\E j \in Item : Job(task[r], j))' /\ task'[r].stage = "read" /\ ~Busy(r)
<1> DEFINE i == entry[e].on
           seen == Load({i})
           hours == Changed(h, entry[e].hours)
           t == [Idle EXCEPT !.stage = "read", !.op = "edit", !.entries = {e},
                           !.hours = hours, !.items = {i}, !.seen = seen]
<1>1. Begin(r, t) /\ i \in Item \ Epic
  BY OnTyped DEF EditEntry, OffEpics
<1> HIDE DEF seen, hours, i
<1>2. /\ {"stage", "op", "items", "was", "write", "clear"} \subseteq DOMAIN t
      /\ t.stage = "read" /\ t.op = "edit" /\ t.items = {i}
  BY DEF Idle
<1> HIDE DEF t
<1>. QED
  BY <1>1, <1>2, ReadsOne

LEMMA DeleteJob ==
  ASSUME TypeOK, OffEpics, NEW r \in Req, NEW e \in Entry, DeleteEntry(r, e)
  PROVE  (\E j \in Item : Job(task[r], j))' /\ task'[r].stage = "read" /\ ~Busy(r)
<1> DEFINE i == entry[e].on
           seen == Load({i})
           t == [Idle EXCEPT !.stage = "read", !.op = "delete", !.entries = {e},
                           !.items = {i}, !.seen = seen]
<1>1. Begin(r, t) /\ i \in Item \ Epic
  BY OnTyped DEF DeleteEntry, OffEpics
<1> HIDE DEF seen, i
<1>2. /\ {"stage", "op", "items", "was", "write", "clear"} \subseteq DOMAIN t
      /\ t.stage = "read" /\ t.op = "delete" /\ t.items = {i}
  BY DEF Idle
<1> HIDE DEF t
<1>. QED
  BY <1>1, <1>2, ReadsOne

LEMMA RemoveJob ==
  ASSUME NEW r \in Req, NEW i \in Item, RemoveItem(r, i)
  PROVE  (\E j \in Item : Job(task[r], j))' /\ task'[r].stage = "read" /\ ~Busy(r)
<1> DEFINE was == item[i].up
           t == [Idle EXCEPT !.stage = "read", !.op = "remove", !.items = {i},
                           !.was = was]
<1>1. Begin(r, t) /\ UNCHANGED item
  BY DEF RemoveItem
<1>2. was' = was
  BY <1>1
<1> HIDE DEF was
<1>3. /\ {"stage", "op", "items", "was", "write", "clear"} \subseteq DOMAIN t
      /\ t.stage = "read" /\ t.op = "remove" /\ t.items = {i} /\ t.was = was
  BY DEF Idle
<1> HIDE DEF t
<1>4. /\ task'[r].stage = "read" /\ task'[r].op = "remove" /\ task'[r].items = {i}
      /\ task'[r].was = was /\ ~Busy(r)
  BY <1>1, <1>3, BeginIs
<1>. QED
  BY <1>2, <1>4 DEF Job, was

LEMMA EstimateJob ==
  ASSUME OnlyRequests, NEW r \in Req, NEW i \in Item, NEW h \in Estimate, EstimateItem(r, i, h)
  PROVE  (\E j \in Item : Job(task[r], j))' /\ task'[r].stage = "commit" /\ ~Busy(r)
<1> DEFINE est == Changed(h, item[i].est)
           remaining == Changed(Positive(h - item[i].logged), item[i].remaining)
           w == [NoWrite EXCEPT !.est = est, !.remaining = remaining]
           seen == Load({i})
           t == [Idle EXCEPT !.stage = "commit", !.op = "estimate", !.items = {i},
                             !.seen = seen, !.write[i] = w]
<1>1. Begin(r, t) /\ i \in Item \ Epic
  BY DEF EstimateItem, OnlyRequests
<1> HIDE DEF seen, est, remaining
<1>2. w.up = Keep
  BY DEF NoWrite
<1> HIDE DEF w
<1>3. /\ {"stage", "op", "items", "was", "write", "clear"} \subseteq DOMAIN t
      /\ t.stage = "commit" /\ t.op = "estimate" /\ t.items = {i} /\ t.write[i] = w
  BY <1>1 DEF Idle
<1> HIDE DEF t
<1>4. /\ task'[r].stage = "commit" /\ task'[r].op = "estimate" /\ task'[r].items = {i}
      /\ task'[r].write[i] = w /\ ~Busy(r)
  BY <1>1, <1>3, BeginIs
<1>. QED
  BY <1>1, <1>2, <1>4 DEF Job

LEMMA MoveJob ==
  ASSUME NEW r \in Req, NEW i \in Item, NEW u \in Item \cup {NoItem}, MoveItem(r, i, u)
  PROVE  (\E j \in Item : Job(task[r], j))' /\ task'[r].stage = "commit" /\ ~Busy(r)
<1> DEFINE was == item[i].up
           up == Changed(u, was)
           seen == Load({i})
           t == [Idle EXCEPT !.stage = "commit", !.op = "move", !.items = {i},
                             !.seen = seen, !.was = was, !.write[i].up = up]
<1>1. Begin(r, t) /\ UNCHANGED item /\ i \in Item \ Epic
  BY LedgerAssumption DEF MoveItem
<1>2. was' = was
  BY <1>1
<1>3. up \in Hook(i) \cup {NoItem, Keep}
  BY LedgerAssumption DEF MoveItem, MayHang, Hook, Changed
<1> HIDE DEF seen, was, up
<1>4. /\ {"stage", "op", "items", "was", "write", "clear"} \subseteq DOMAIN t
      /\ t.stage = "commit" /\ t.op = "move" /\ t.items = {i} /\ t.was = was
      /\ t.write[i] = [NoWrite EXCEPT !.up = up]
  BY <1>1 DEF Idle
<1> HIDE DEF t
<1>5. /\ task'[r].stage = "commit" /\ task'[r].op = "move" /\ task'[r].items = {i}
      /\ task'[r].was = was /\ task'[r].write[i] = [NoWrite EXCEPT !.up = up] /\ ~Busy(r)
  BY <1>1, <1>4, BeginIs
<1>6. /\ task'[r].write[i].up = up /\ task'[r].write[i].est = Keep
      /\ task'[r].write[i].logged = Keep /\ task'[r].write[i].remaining = Keep
  BY <1>5 DEF NoWrite
<1>7. task'[r].was = item'[i].up
  BY <1>2, <1>5 DEF was
<1>. QED
  BY <1>1, <1>3, <1>5, <1>6, <1>7 DEF Job

LEMMA CreateJob ==
  ASSUME LinksFit, NEW r \in Req, NEW i \in Item, NEW u \in Item \cup {NoItem},
         NEW h \in Estimate \cup {0}, CreateItem(r, i, u, h), TypeOK
  PROVE  /\ Job(task[r], i)' /\ task'[r].stage = "rollup" /\ task'[r].op = "create" /\ ~Busy(r)
         /\ live' = live \cup {i} /\ i \notin live /\ UNCHANGED entry
         /\ \A j \in Item \ {i} : item'[j] = item[j]
         /\ item'[i].est = h /\ item'[i].logged = 0 /\ item'[i].remaining = h
         /\ item'[i].up = u /\ u \in (Hook(i) \cap live) \cup {NoItem}
<1> DEFINE row == [life |-> "live", up |-> u, est |-> h, logged |-> 0, remaining |-> h]
           t == [Idle EXCEPT !.stage = "rollup", !.op = "create", !.items = {i}]
<1>1. /\ Begin(r, t) /\ item[i].life = "new" /\ item' = [item EXCEPT ![i] = row]
      /\ UNCHANGED entry
  BY DEF CreateItem
<1>2. u \in (Hook(i) \cap live) \cup {NoItem}
  BY LedgerAssumption DEF CreateItem, MayHang, Hook, Item
<1>3. item'[i] = row /\ \A j \in Item \ {i} : item'[j] = item[j]
  BY <1>1 DEF TypeOK
<1>4. live' = live \cup {i} /\ i \notin live
  BY <1>1, <1>3 DEF live
<1>5. /\ {"stage", "op", "items", "was", "write", "clear"} \subseteq DOMAIN t
      /\ t.stage = "rollup" /\ t.op = "create" /\ t.items = {i}
  BY DEF Idle
<1> HIDE DEF t
<1>6. task'[r].stage = "rollup" /\ task'[r].op = "create" /\ task'[r].items = {i} /\ ~Busy(r)
  BY <1>1, <1>5, BeginIs
<1>7. Job(task[r], i)'
  BY <1>4, <1>6 DEF Job
<1>. QED
  BY <1>1, <1>2, <1>3, <1>4, <1>6, <1>7

\* While nothing is awaited every epic is added up.
LEMMA AllAddUp ==
  ASSUME Alone, RollInv, NEW r \in Req, task[r].stage \notin {"rollup", "store"},
         NEW e \in Epic \cap live
  PROVE  AddsUp(e)
BY DEF Alone, RollInv, Awaits

\* A step that leaves the rows alone and is not about epics yet, or not any more.
LEMMA RowsStay ==
  ASSUME OnlyRequests, RollInv, NEW r \in Req, UNCHANGED <<item, entry>>,
         \A e \in Epic \cap live : AddsUp(e),
         task'[r].stage \notin {"rollup", "store"},
         task'[r].stage = "idle" \/ (\E i \in Item : Job(task[r], i))'
  PROVE  RollInv'
<1>1. live' = live /\ \A s \in Req : s = r
  BY DEF live, OnlyRequests, Alone
<1>2. LinksFit' /\ OffEpics'
  BY <1>1 DEF RollInv, LinksFit, OffEpics
<1>3. OneJob' /\ \A s \in Req : Stored(task[s])'
  BY <1>1 DEF OneJob, Busy, Stored
<1>4. ASSUME NEW e \in Epic \cap live' PROVE AddsUp(e)'
  BY <1>1, <1>4, SumKept DEF Under, Above, EpicOf
<1>. QED
  BY <1>2, <1>3, <1>4 DEF RollInv

LEMMA EndRoll ==
  ASSUME OnlyRequests, TypeOK, RollInv, NEW r \in Req, End(r), UNCHANGED <<item, entry>>,
         \A e \in Epic \cap live : AddsUp(e)
  PROVE  RollInv'
<1>1. task'[r].stage = "idle"
  BY StepWork, IdleFields DEF End
<1>. QED
  BY <1>1, RowsStay

LEMMA CreateRoll ==
  ASSUME OnlyRequests, TypeOK, RollInv, NEW r \in Req, NEW i \in Item,
         NEW u \in Item \cup {NoItem}, NEW h \in Estimate \cup {0}, CreateItem(r, i, u, h)
  PROVE  RollInv'
<1>1. /\ Job(task[r], i)' /\ task'[r].stage = "rollup" /\ task'[r].op = "create" /\ ~Busy(r)
      /\ live' = live \cup {i} /\ i \notin live /\ UNCHANGED entry
      /\ \A j \in Item \ {i} : item'[j] = item[j]
      /\ item'[i].est = h /\ item'[i].logged = 0 /\ item'[i].remaining = h
      /\ item'[i].up = u /\ u \in (Hook(i) \cap live) \cup {NoItem}
  BY CreateJob DEF RollInv
<1>2. LinksFit /\ OffEpics /\ \A s \in Req : s = r
  BY DEF RollInv, OnlyRequests, Alone
<1>3. LinksFit'
  BY <1>1, <1>2 DEF LinksFit
<1>4. OffEpics' /\ OneJob' /\ \A s \in Req : Stored(task[s])'
  BY <1>1, <1>2 DEF OffEpics, OneJob, Stored
<1>5. ASSUME NEW e \in Epic \cap live, ~Awaits(task[r], e)' PROVE AddsUp(e)'
  <2>1. AddsUp(e)
    BY <1>1, AllAddUp DEF Busy, OnlyRequests
  <2>2. Above(i)' # e
    BY <1>1, <1>5 DEF Awaits, Refreshed, Job
  <2>3. Above(i) # e /\ e # i
    BY <1>1, <1>2, LinkTo, LedgerAssumption DEF Item
  <2>. QED
    BY <1>1, <1>2, <1>3, <2>1, <2>2, <2>3, OneMoves
<1>6. ASSUME i \in Epic PROVE AddsUp(i)'
  <2>1. \A j \in Item : Above(j)' \in (Epic \cap live) \cup {NoItem}
    <3>1. \A j \in Item \ {i} : item'[j].up = item[j].up
      BY <1>1
    <3>2. ASSUME NEW p \in Item \cup {NoItem}, p # i PROVE EpicOf(p)' = EpicOf(p)
      BY <3>1, <3>2 DEF EpicOf
    <3>3. \A j \in Subtask : item[j].up # i /\ item[j].up \in Item \cup {NoItem}
      <4>1. i # NoItem /\ i \notin live /\ live \subseteq Item
        BY <1>1, LedgerAssumption DEF live
      <4>2. \A j \in Subtask : item[j].up \in live \cup {NoItem}
        BY <1>2, LinkTo DEF Item
      <4>. QED
        BY <4>1, <4>2
    <3>4. \A j \in Item \ {i} : Above(j)' = Above(j)
      BY <3>1, <3>2, <3>3, LedgerAssumption DEF Above, Item
    <3>5. Above(i)' = NoItem
      BY <1>6, LedgerAssumption DEF Above
    <3>. QED
      BY <1>2, <3>4, <3>5, LinkTo
  <2>2. Under(i)' = {}
    BY <1>1, <1>6, <2>1, LedgerAssumption DEF Under, live, Item
  <2>3. h = 0
    BY <1>6 DEF CreateItem, OnlyRequests
  <2>4. \A c \in Column : item'[i][c] = 0
    BY <1>1, <2>3 DEF Column
  <2>5. \A c \in Column : item'[i][c] = Total([x \in Under(i) |-> item[x][c]])'
    BY <2>2, <2>4 DEF Total
  <2>. QED
    BY <2>5 DEF AddsUp
<1>. QED
  BY <1>1, <1>3, <1>4, <1>5, <1>6 DEF RollInv

LEMMA ReceiveRoll ==
  ASSUME OnlyRequests, TypeOK, RollInv, NEW r \in Req, Receive(r)
  PROVE  RollInv'
<1>1. CASE UNCHANGED vars
  <2>1. UNCHANGED <<item, entry, task>>
    BY <1>1 DEF vars
  <2>. QED
    BY <2>1 DEF RollInv, LinksFit, OffEpics, OneJob, Job, Busy, Stored, AddsUp, Under, Above,
                EpicOf, Awaits, Refreshed, live
<1>2. ASSUME (\E i \in Item : Job(task[r], i))', task'[r].stage \in {"read", "commit"}, ~Busy(r),
             UNCHANGED <<item, entry>>
      PROVE  RollInv'
  BY <1>2, AllAddUp, RowsStay DEF Busy, OnlyRequests
<1>3. OffEpics
  BY DEF RollInv
<1>4. ASSUME NEW i \in Item, NEW e \in Entry, NEW h \in Hours, LogHours(r, i, e, h) PROVE RollInv'
  BY <1>2, <1>4, LogJob DEF LogHours
<1>5. ASSUME NEW e \in Entry, NEW h \in Hours, EditEntry(r, e, h) PROVE RollInv'
  BY <1>2, <1>3, <1>5, EditJob DEF EditEntry
<1>6. ASSUME NEW e \in Entry, DeleteEntry(r, e) PROVE RollInv'
  BY <1>2, <1>3, <1>6, DeleteJob DEF DeleteEntry
<1>7. ASSUME NEW i \in Item, NEW h \in Estimate, EstimateItem(r, i, h) PROVE RollInv'
  BY <1>2, <1>7, EstimateJob DEF EstimateItem
<1>8. ASSUME NEW i \in Item, NEW u \in Item \cup {NoItem}, MoveItem(r, i, u) PROVE RollInv'
  BY <1>2, <1>8, MoveJob DEF MoveItem
<1>9. ASSUME NEW i \in Item, RemoveItem(r, i) PROVE RollInv'
  BY <1>2, <1>9, RemoveJob DEF RemoveItem
<1>10. CASE RepairHours(r) \/ \E doomed \in SUBSET Entry : Dedupe(r, doomed)
  BY <1>10 DEF RepairHours, Dedupe, OnlyRequests
<1>. QED
  BY <1>1, <1>4, <1>5, <1>6, <1>7, <1>8, <1>9, <1>10, CreateRoll DEF Receive, Refuse

\* From the load to the commit of a change of hours.
LEMMA ReadRoll ==
  ASSUME OnlyRequests, TypeOK, RollInv, NEW r \in Req, task[r].stage = "read",
         task[r].op \in {"log", "edit", "delete"}, UNCHANGED <<item, entry>>,
         \/ End(r)
         \/ \E seen, change : Recompute(r, task[r].items, seen, change)
  PROVE  RollInv'
<1>1. \A e \in Epic \cap live : AddsUp(e)
  BY AllAddUp DEF OnlyRequests
<1>2. ASSUME NEW seen, NEW change, Recompute(r, task[r].items, seen, change) PROVE RollInv'
  <2>1. PICK i \in Item : Job(task[r], i)
    BY DEF RollInv, OneJob, Busy
  <2>2. /\ task'[r].stage = "commit" /\ task'[r].op = task[r].op /\ task'[r].items = {i}
        /\ task'[r].write[i] = Derived(seen[i], Logged(Flushed(change), i))
    BY <1>2, <2>1, RecomputeWork DEF Job
  <2>3. task'[r].write[i].up = Keep
    BY <2>2 DEF Derived, NoWrite
  <2>. QED
    BY <1>1, <1>2, <2>1, <2>2, <2>3, RowsStay DEF Job
<1>. QED
  BY <1>1, <1>2, EndRoll

\* What a request goes on with after its commit.
LEMMA CommitGoesOn ==
  ASSUME TypeOK, NEW r \in Req, Commit(r), CanCommit(task[r]),
         task[r].op \notin {"dedupe", "repair"}
  PROVE  /\ task'[r].stage = "rollup" /\ task'[r].op = task[r].op
         /\ task'[r].items = task[r].items /\ task'[r].was = task[r].was
<1> DEFINE t == task[r]
           next == [Idle EXCEPT !.stage = "rollup", !.op = t.op, !.items = t.items,
                                !.was = t.was, !.clear = t.clear]
<1>1. Step(r, next)
  BY DEF Commit
<1>2. task'[r] = next
  BY <1>1, StepWork
<1> HIDE DEF t
<1>3. next.stage = "rollup" /\ next.op = t.op /\ next.items = t.items /\ next.was = t.was
  BY DEF Idle
<1>. QED
  BY <1>2, <1>3 DEF t

\* The epic that an item leaves, told from the link it had.
LEMMA LeftIs ==
  ASSUME LinksFit, NEW i \in Item, i \in Subtask => \A j \in Story : item'[j].up = item[j].up
  PROVE  (IF i \in Story THEN item[i].up ELSE IF item[i].up = NoItem THEN NoItem
          ELSE item'[item[i].up].up) = Above(i)
<1>1. CASE i \in Story
  BY <1>1 DEF Above
<1>2. CASE i \in Subtask \ Story
  BY <1>2, LinkTo DEF Above, EpicOf, Hook
<1>3. CASE i \in Epic
  BY <1>3, LinkTo, LedgerAssumption DEF Above, Hook
<1>. QED
  BY <1>1, <1>2, <1>3 DEF Item

LEMMA CommitRoll ==
  ASSUME OnlyRequests, IInv, RollInv, NEW r \in Req, Commit(r)
  PROVE  RollInv'
<1>1. TypeOK /\ SInv /\ LinksFit /\ OffEpics /\ \A s \in Req : s = r
  BY InvSplit DEF RollInv, OnlyRequests, Alone
<1>2. \A e \in Epic \cap live : AddsUp(e)
  BY AllAddUp DEF OnlyRequests, Commit
<1>3. CASE ~CanCommit(task[r])
  BY <1>1, <1>2, <1>3, EndRoll DEF Commit
<1>4. CASE CanCommit(task[r])
  <2>1. PICK i \in Item : Job(task[r], i)
    BY DEF Commit, RollInv, OneJob, Busy
  <2> DEFINE t == task[r]
             w == task[r].write[i]
  <2>2. /\ t.stage = "commit" /\ t.items = {i} /\ i \notin Epic /\ i \in live
        /\ t.op \notin {"dedupe", "repair", "remove"}
        /\ w.up \in live \cup {NoItem, Keep} /\ w.up \in Hook(i) \cup {NoItem, Keep}
        /\ t.op # "move" => w.up = Keep
        /\ t.op = "move" =>
             t.was = item[i].up /\ w.est = Keep /\ w.logged = Keep /\ w.remaining = Keep
    BY <1>4, <2>1 DEF Job, Commit, CanCommit
  <2>3. /\ \A j \in Item \ {i} : item'[j] = item[j]
        /\ item'[i] = Written(i, w) /\ live' = live
        /\ \A e \in Entry : entry'[e] = Over(t.change[e], entry[e])
    BY <1>1, <1>4, <2>2, CommitMoves
  <2>4. /\ task'[r].stage = "rollup" /\ task'[r].op = t.op /\ task'[r].items = {i}
        /\ task'[r].was = t.was
    BY <1>1, <1>4, <2>2, CommitGoesOn
  <2>5. item'[i].up = Over(w.up, item[i].up) /\ (t.op = "move" /\ item'[i].up = item[i].up => item'[i] = item[i])
    <3> HIDE DEF w
    <3>1. item[i] \in ItemRow
      BY <1>1 DEF TypeOK
    <3>. QED
      <4>1. item'[i].up = Over(w.up, item[i].up)
        BY <2>3, <3>1 DEF Written, ItemRow
      <4>2. ASSUME t.op = "move", item'[i].up = item[i].up PROVE item'[i] = item[i]
        <5>1. /\ item'[i].est = item[i].est /\ item'[i].logged = item[i].logged
              /\ item'[i].remaining = item[i].remaining /\ item'[i].life = item[i].life
          BY <2>2, <2>3, <3>1, <4>2 DEF Written, Over, ItemRow
        <5>2. item'[i] \in ItemRow
          BY <1>1, NextTypeOK DEF Next, Continue, TypeOK
        <5>. QED
          BY <3>1, <4>2, <5>1, <5>2 DEF ItemRow
      <4>. QED
        BY <4>1, <4>2
  <2>6. LinksFit'
    <3>1. item'[i].up \in (Hook(i) \cap live) \cup {NoItem}
      BY <1>1, <2>2, <2>5 DEF LinksFit, Over
    <3>. QED
      BY <1>1, <2>2, <2>3, <3>1 DEF LinksFit
  <2>7. OffEpics'
    <3>1. ASSUME NEW e \in Entry PROVE entry'[e].on \notin Epic
      <4>1. t.change[e] = Keep \/ t.change[e].on \in {i, NoItem}
        BY <1>1, <2>2 DEF SInv, ChangesHeld
      <4>. QED
        BY <1>1, <2>2, <2>3, <4>1, LedgerAssumption DEF OffEpics, Over, Item
    <3>. QED
      BY <3>1 DEF OffEpics
  <2>8. OneJob' /\ \A s \in Req : Stored(task[s])'
    BY <1>1, <2>2, <2>3, <2>4 DEF OneJob, Job, Stored
  <2>9. ASSUME NEW e \in Epic \cap live, ~Awaits(task[r], e)' PROVE AddsUp(e)'
    <3>1. CASE item'[i] = item[i]
      <4>1. \A j \in Item : item'[j] = item[j]
        BY <2>3, <3>1
      <4>2. item' = item
        BY <1>1, <1>4, <4>1 DEF Commit, TypeOK
      <4>. QED
        BY <1>2, <2>3, <4>2, SumKept DEF Under, Above, EpicOf
    <3>2. CASE item'[i] # item[i]
      <4>1. e \notin Refreshed(task[r], i)'
        BY <2>4, <2>9 DEF Awaits
      <4>2. Above(i)' # e /\ Above(i) # e
        <5>1. CASE t.op = "move"
          <6> DEFINE left == IF i \in Story THEN item[i].up
                             ELSE IF item[i].up = NoItem THEN NoItem
                             ELSE item'[item[i].up].up
          <6>1. left = Above(i)
            BY <1>1, <2>3, LeftIs, LedgerAssumption DEF Item
          <6>2. task'[r].op = "move" /\ task'[r].was = item[i].up /\ item'[i].up # item[i].up
            BY <2>2, <2>4, <2>5, <3>2, <5>1
          <6>3. Refreshed(task[r], i)' = {Above(i)', left}
            BY <2>2, <6>2, LedgerAssumption DEF Refreshed, EpicOf, Item
          <6>. QED
            BY <4>1, <6>1, <6>3
        <5>2. CASE t.op # "move"
          <6>1. Above(i)' # e
            BY <2>2, <2>4, <4>1, <5>2 DEF Refreshed
          <6>2. item'[i].up = item[i].up
            BY <2>2, <2>5, <5>2 DEF Over
          <6>3. i \in Subtask => item[i].up \in Story \cup {NoItem}
            BY <1>1, LinkTo, LedgerAssumption DEF Hook
          <6>4. i \in Subtask => EpicOf(item[i].up)' = EpicOf(item[i].up)
            BY <2>3, <6>2, <6>3, LedgerAssumption DEF EpicOf, Item
          <6>5. Above(i)' = Above(i)
            BY <6>2, <6>4 DEF Above
          <6>. QED
            BY <6>1, <6>5
        <5>. QED
          BY <5>1, <5>2
      <4>. QED
        BY <1>1, <1>2, <2>2, <2>3, <2>6, <4>2, OneMoves
    <3>. QED
      BY <3>1, <3>2
  <2>. QED
    BY <2>3, <2>6, <2>7, <2>8, <2>9 DEF RollInv
<1>. QED
  BY <1>3, <1>4

LEMMA RemoveRoll ==
  ASSUME OnlyRequests, TypeOK, RollInv, NEW r \in Req, CommitRemove(r)
  PROVE  RollInv'
<1>1. LinksFit /\ OffEpics /\ \A s \in Req : s = r
  BY DEF RollInv, OnlyRequests, Alone
<1>2. \A e \in Epic \cap live : AddsUp(e)
  BY AllAddUp DEF OnlyRequests, CommitRemove
<1>3. PICK i \in Item : Job(task[r], i)
  BY DEF CommitRemove, RollInv, OneJob, Busy
<1>4. task[r].items = {i} /\ task[r].was = item[i].up /\ task[r].op = "remove"
  BY <1>3 DEF Job, CommitRemove
<1>5. /\ live' = live \ {i} /\ item'[i].up = NoItem
      /\ \A j \in Item \ {i} : item'[j].up = IF item[j].up = i THEN NoItem ELSE item[j].up
      /\ \A j \in Item \ {i} : \A c \in Column : item'[j][c] = item[j][c]
      /\ \A e \in Entry : entry'[e].on \in {entry[e].on, NoItem}
  <2>1. item'[i].up = NoItem
    BY <1>4 DEF CommitRemove, NoRow
  <2>2. \A j \in Item \ {i} : item'[j].up = IF item[j].up = i THEN NoItem ELSE item[j].up
    BY <1>4 DEF CommitRemove, TypeOK, ItemRow
  <2>. QED
    BY <1>4, <2>1, <2>2, RemoveMoves DEF Column
<1>6. /\ task'[r].stage = "rollup" /\ task'[r].op = "remove" /\ task'[r].items = {i}
      /\ task'[r].was = item[i].up
  <2>1. task'[r] = [task[r] EXCEPT !.stage = "rollup"] /\ task[r] \in TaskRow
    BY StepWork DEF CommitRemove, TypeOK, Task
  <2>. QED
    BY <1>4, <2>1 DEF TaskRow
<1>7. LinksFit'
  BY <1>1, <1>5 DEF LinksFit, live
<1>8. OffEpics' /\ OneJob' /\ \A s \in Req : Stored(task[s])'
  BY <1>1, <1>5, <1>6, LedgerAssumption DEF OffEpics, OneJob, Job, Stored, Item
<1>9. ASSUME NEW e \in Epic \cap live', ~Awaits(task[r], e)' PROVE AddsUp(e)'
  <2>1. e \notin Refreshed(task[r], i)'
    BY <1>6, <1>9 DEF Awaits
  <2>2. i \in Subtask => \A j \in Story : item'[j].up = item[j].up
    BY <1>1, <1>5, LinkTo, LedgerAssumption DEF Hook, Item
  <2>3. Above(i) # e /\ e # i /\ e \in Item /\ e # NoItem
    <3> DEFINE left == IF i \in Story THEN item[i].up
                       ELSE IF item[i].up = NoItem THEN NoItem
                       ELSE item'[item[i].up].up
    <3>1. left = Above(i)
      BY <1>1, <2>2, LeftIs
    <3>2. Refreshed(task[r], i)' = {left}
      BY <1>6 DEF Refreshed, EpicOf
    <3>. QED
      BY <1>5, <1>9, <2>1, <3>1, <3>2, LedgerAssumption DEF Item
  <2>4. ASSUME NEW j \in Item \ {i} PROVE Above(j)' = e <=> Above(j) = e
    <3>1. CASE j \in Story
      BY <1>5, <2>3, <3>1 DEF Above
    <3>2. CASE j \in Subtask \ Story
      <4>1. item[j].up \in Story \cup {NoItem}
        BY <1>1, <3>2, LinkTo DEF Hook
      <4>2. CASE item[j].up = i
        <5>1. Above(j) = Above(i) /\ Above(j)' = NoItem
          BY <1>5, <3>2, <4>1, <4>2, LedgerAssumption DEF Above, EpicOf, Item
        <5>. QED
          BY <2>3, <5>1
      <4>3. CASE item[j].up = NoItem
        BY <1>5, <3>2, <4>3, <2>3 DEF Above, EpicOf
      <4>4. CASE item[j].up \in Story \ {i}
        <5> DEFINE p == item[j].up
        <5>1. p # NoItem /\ p \in Item \ {i} /\ item'[j].up = p
          BY <1>5, <4>4, LedgerAssumption DEF Item
        <5>2. Above(j) = item[p].up /\ Above(j)' = item'[p].up
          BY <3>2, <5>1 DEF Above, EpicOf
        <5>3. item'[p].up = IF item[p].up = i THEN NoItem ELSE item[p].up
          BY <1>5, <5>1
        <5>. QED
          BY <2>3, <5>2, <5>3
      <4>. QED
        BY <4>1, <4>2, <4>3, <4>4
    <3>3. CASE j \in Epic
      BY <3>3, LedgerAssumption DEF Above
    <3>. QED
      BY <3>1, <3>2, <3>3 DEF Item
  <2>5. Under(e)' = Under(e) /\ Under(e) \subseteq Item \ {i}
    BY <1>5, <2>3, <2>4 DEF Under, live
  <2>. QED
    BY <1>2, <1>5, <1>9, <2>3, <2>5, SumKept
<1>. QED
  BY <1>7, <1>8, <1>9 DEF RollInv

\* update_epic_hours collects the children of an epic and theirs: what is under it.
LEMMA BelowIsUnder ==
  ASSUME LinksFit, NEW e \in Epic
  PROVE  Below(e) = Under(e)
<1>0. e # NoItem
  BY LedgerAssumption DEF Item
<1>1. Children(e) = {s \in Story \cap live : Above(s) = e}
  BY DEF Children, Above
<1>2. ASSUME NEW t \in Subtask \cap live PROVE item[t].up \in Children(e) <=> Above(t) = e
  <2>1. t \notin Story /\ t \in Item
    BY LedgerAssumption DEF Item
  <2>2. item[t].up = NoItem \/ item[t].up \in Story \cap live
    BY <2>1, LinkTo DEF Hook
  <2>. QED
    BY <1>0, <2>1, <2>2, LedgerAssumption DEF Children, Above, EpicOf, Item
<1>3. \A x \in Epic : Above(x) # e
  BY <1>0, LedgerAssumption DEF Above
<1>. QED
  BY <1>1, <1>2, <1>3 DEF Below, Under, live, Item

LEMMA TotalsAre ==
  ASSUME LinksFit, NEW e \in Epic, NEW c \in Column
  PROVE  Totals(e)[c] = Total([i \in Under(e) |-> item[i][c]])
BY BelowIsUnder DEF Totals

LEMMA RollupRoll ==
  ASSUME OnlyRequests, TypeOK, RollInv, NEW r \in Req, Rollup(r)
  PROVE  RollInv'
<1>1. LinksFit /\ \A s \in Req : s = r
  BY DEF RollInv, OnlyRequests, Alone
<1>2. PICK i \in Item : Job(task[r], i)
  BY DEF Rollup, RollInv, OneJob, Busy
<1> DEFINE es == Refreshed(task[r], i) \cap Epic \cap live
           next == [task[r] EXCEPT !.stage = "store", !.epics = es, !.totals = Pending(es)]
<1>3. /\ task[r].stage = "rollup" /\ task[r].items = {i} /\ UNCHANGED <<item, entry>>
      /\ task[r].op = "remove" \/ i \in live
  BY <1>2 DEF Job, Rollup
<1>4. IF es = {} THEN End(r) ELSE Step(r, next)
  BY <1>3 DEF Rollup
<1>5. ASSUME NEW e \in Epic \cap live, e \notin es PROVE AddsUp(e)
  BY <1>1, <1>3, <1>5 DEF RollInv, Awaits
<1>6. CASE es = {}
  BY <1>3, <1>4, <1>5, <1>6, EndRoll
<1>7. CASE es # {}
  <2>1. task'[r] = next /\ task[r] \in TaskRow
    BY <1>4, <1>7, StepWork DEF TypeOK, Task
  <2>2. /\ task'[r].stage = "store" /\ task'[r].epics = es /\ task'[r].totals = Pending(es)
        /\ task'[r].op = task[r].op /\ task'[r].items = task[r].items
    <3> HIDE DEF es
    <3>. QED
      BY <2>1 DEF TaskRow
  <2>3. live' = live /\ LinksFit' /\ OffEpics'
    BY <1>3 DEF RollInv, LinksFit, OffEpics, live
  <2>4. OneJob'
    BY <1>1, <1>2, <1>3, <2>2 DEF OneJob, Job
  <2>5. ASSUME NEW e \in Epic, NEW c \in Column
        PROVE  Total([x \in Under(e) |-> item[x][c]])' = Total([x \in Under(e) |-> item[x][c]])
    BY <1>3, <2>3, SameTotals DEF Under, Above, EpicOf
  <2>6. ASSUME NEW e \in es, NEW c \in Column
        PROVE  Over(Pending(es)[e][c], item[e][c]) = Total([x \in Under(e) |-> item[x][c]])
    <3> DEFINE new == Totals(e)[c]
    <3>1. new = Total([x \in Under(e) |-> item[x][c]]) /\ new # Keep
      BY <1>1, TotalsAre, TotalTyped, LedgerAssumption
    <3>2. Pending(es)[e][c] = Changed(new, item[e][c])
      BY DEF Pending
    <3> HIDE DEF new
    <3>. QED
      BY <3>1, <3>2 DEF Changed, Over
  <2>7. \A s \in Req : Stored(task[s])'
    <3>1. es \subseteq Epic /\ es \subseteq live
      OBVIOUS
    <3> HIDE DEF es
    <3>2. ASSUME NEW e \in es, NEW c \in Column
          PROVE  Over(task'[r].totals[e][c], item'[e][c])
                   = Total([x \in Under(e) |-> item[x][c]])'
      <4>1. Over(task'[r].totals[e][c], item'[e][c]) = Over(Pending(es)[e][c], item[e][c])
        BY <1>3, <2>2
      <4>. QED
        BY <2>5, <2>6, <3>1, <4>1
    <3>3. Stored(task[r])'
      BY <2>2, <2>3, <3>1, <3>2 DEF Stored
    <3>. QED
      BY <1>1, <3>3
  <2>8. ASSUME NEW e \in Epic \cap live, e \notin es PROVE AddsUp(e)'
    BY <1>3, <1>5, <2>3, <2>8, SumKept DEF Under, Above, EpicOf
  <2>9. \A e \in es : Awaits(task[r], e)'
    BY <2>2 DEF Awaits
  <2>. QED
    BY <2>3, <2>4, <2>7, <2>8, <2>9 DEF RollInv
<1>. QED
  BY <1>6, <1>7

LEMMA StoreRoll ==
  ASSUME OnlyRequests, TypeOK, RollInv, NEW r \in Req, StoreEpics(r)
  PROVE  RollInv'
<1>1. LinksFit /\ OffEpics /\ \A s \in Req : s = r
  BY DEF RollInv, OnlyRequests, Alone
<1>2. /\ live' = live /\ entry' = entry /\ \A i \in Item \ Epic : item'[i] = item[i]
      /\ task[r].stage = "store" /\ task[r].epics \subseteq live /\ task[r].epics \subseteq Epic
  BY StoreFrame DEF StoreEpics, RollInv, Stored, TypeOK, Task, TaskRow
<1>3. \A i \in Item : item'[i].up = item[i].up
  BY DEF StoreEpics, TypeOK, ItemRow
<1>4. task'[r].stage = "idle"
  BY StepWork, IdleFields DEF StoreEpics, End
<1>5. LinksFit' /\ OffEpics' /\ OneJob' /\ \A s \in Req : Stored(task[s])'
  BY <1>1, <1>2, <1>3, <1>4 DEF LinksFit, OffEpics, OneJob, Busy, Stored
<1>6. ASSUME NEW e \in Epic \cap live PROVE AddsUp(e)'
  <2>1. e # NoItem /\ e \in Item
    BY LedgerAssumption DEF Item
  <2>2. \A j \in Item : Above(j)' = Above(j)
    <3>1. ASSUME NEW p \in Item \cup {NoItem} PROVE EpicOf(p)' = EpicOf(p)
      BY <1>3, <3>1 DEF EpicOf
    <3>2. \A j \in Item : item[j].up \in Item \cup {NoItem}
      BY DEF TypeOK, ItemRow
    <3>. QED
      BY <1>3, <3>1, <3>2 DEF Above
  <2>3. Under(e)' = Under(e) /\ Under(e) \subseteq Item \ Epic
    BY <1>2, <2>1, <2>2, LedgerAssumption DEF Under, live, Above
  <2>4. \A c \in Column :
          Total([x \in Under(e) |-> item[x][c]])' = Total([x \in Under(e) |-> item[x][c]])
    BY <1>2, <2>3, SameTotals
  <2>5. CASE e \in task[r].epics
    <3> DEFINE t == task[r]
    <3>1. /\ item[e] \in ItemRow
          /\ item'[e] = [item[e] EXCEPT !.est = Over(t.totals[e].est, @),
                              !.logged = Over(t.totals[e].logged, @),
                              !.remaining = Over(t.totals[e].remaining, @)]
      BY <1>2, <2>1, <2>5 DEF StoreEpics, TypeOK
    <3> HIDE DEF t
    <3>2. \A c \in Column : item'[e][c] = Over(t.totals[e][c], item[e][c])
      BY <3>1 DEF ItemRow, Column
    <3>3. \A c \in Column : Over(t.totals[e][c], item[e][c]) = Total([x \in Under(e) |-> item[x][c]])
      BY <1>2, <2>5 DEF RollInv, Stored, t
    <3>4. \A c \in Column : item'[e][c] = Total([x \in Under(e) |-> item[x][c]])'
      BY <2>4, <3>2, <3>3
    <3>. QED
      BY <3>4 DEF AddsUp
  <2>6. CASE e \notin task[r].epics
    <3>1. item'[e] = item[e]
      BY <2>1, <2>6 DEF StoreEpics
    <3>2. AddsUp(e)
      BY <1>1, <1>2, <2>6 DEF RollInv, Awaits
    <3>. QED
      BY <1>2, <2>3, <3>1, <3>2, SumKept
  <2>. QED
    BY <2>5, <2>6
<1>. QED
  BY <1>2, <1>5, <1>6 DEF RollInv

LEMMA NextRoll == OnlyRequests /\ IInv /\ RollInv /\ [Next]_vars => RollInv'
<1> SUFFICES ASSUME OnlyRequests, IInv, RollInv, [Next]_vars PROVE RollInv'
  OBVIOUS
<1>1. TypeOK
  BY InvSplit
<1>2. CASE UNCHANGED vars
  <2>1. UNCHANGED <<item, entry, task>>
    BY <1>2 DEF vars
  <2>. QED
    BY <2>1 DEF RollInv, LinksFit, OffEpics, OneJob, Job, Busy, Stored, AddsUp, Under, Above,
                EpicOf, Awaits, Refreshed, live
<1>3. ASSUME NEW r \in Req, Receive(r) PROVE RollInv'
  BY <1>1, <1>3, ReceiveRoll
<1>4. ASSUME NEW r \in Req, InsertEntry(r) \/ UpdateEntry(r) \/ DropEntry(r) PROVE RollInv'
  BY <1>1, <1>4, ReadRoll DEF InsertEntry, UpdateEntry, DropEntry
<1>5. ASSUME NEW r \in Req PROVE ~DeleteDoomed(r) /\ ~CompareHours(r)
  BY DEF DeleteDoomed, CompareHours, RollInv, OneJob, Busy, Job
<1>6. ASSUME NEW r \in Req, Continue(r) PROVE RollInv'
  BY <1>1, <1>4, <1>5, <1>6, CommitRoll, RemoveRoll, RollupRoll, StoreRoll DEF Continue
<1>. QED
  BY <1>2, <1>3, <1>6 DEF Next, Crash, OnlyRequests

\* update_epic_hours: an epic's estimate, logged and remaining hours are the
\* totals of the stories and subtasks below it whenever no request is in flight,
\* for any items and entries, when requests come one at a time, none dies between
\* its commits, and nobody logs on an epic itself or runs a script.
THEOREM EpicsAddUp == OnlyRequests => (Spec => []EpicAddsUp)
<1> SUFFICES ASSUME OnlyRequests PROVE Spec => []EpicAddsUp
  OBVIOUS
<1>1. Init => RollInv
  BY LedgerAssumption DEF Init, RollInv, LinksFit, OffEpics, OneJob, Stored, Busy, Idle, live,
     NoRow, NoEntry, Item
<1>2. IInv /\ RollInv => EpicAddsUp
  BY DEF RollInv, EpicAddsUp, Quiet, Busy, Awaits, AddsUp, Under
<1>3. IInv /\ RollInv /\ [Next]_vars => RollInv'
  BY NextRoll
<1>. QED
  BY <1>1, <1>2, <1>3, Invariant, PTL DEF Spec
=============================================================================
