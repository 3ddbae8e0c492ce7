------------------------------ MODULE QueryCache ------------------------------
(***************************************************************************)
(* One browser tab and its TanStack Query cache (lib/queryClient.ts): the  *)
(* user walks from page to page, a mutation's calls change the server, and *)
(* the cache learns of it by invalidation, refetch, optimistic patches and *)
(* the bundle that seeds other entries.                                    *)
(*                                                                         *)
(* A behaviour follows one mutation (writer) and one query (tracked), with *)
(* the bundle if it seeds that query: queries influence one another in no  *)
(* other way.  What an entry holds is the set of the writer's calls whose  *)
(* effect it shows.  Which query is active where, and what each mutation   *)
(* writes and invalidates, comes from the hooks through the constants.     *)
(***************************************************************************)
EXTENDS Naturals

CONSTANTS
  Query, Mutation, Page, Call,
  Active,        \* Active[p]: queries with an enabled observer on page p
  Flagged,       \* pages opened by a flag or a key of a mounted component
  Bundle,        \* the query whose answer is copied over others
  Seeded,        \* the queries it is copied over
  SeedingPage,   \* pages whose effect does the copying
  From,          \* From[m]: pages that offer mutation m
  Serial,        \* mutations whose form refuses a call while one is pending
  Writes,        \* Writes[m]: queries whose answer a call of m changes
  OnSettled,     \* OnSettled[m]: queries m invalidates whatever came back
  OnSuccess,     \* OnSuccess[m]: queries m invalidates on success only
  Removes,       \* Removes[m]: entries m evicts when it settles
  Cancels,       \* Cancels[m]: queries whose fetch m cancels when it starts
  Optimistic,    \* Optimistic[m]: entries m patches when it starts
  Patches,       \* Patches[m]: entries m patches with the server's answer
  Gaps,          \* Gaps[m]: queries m is known not to invalidate
  RefetchOnMount,
  Repeated,      \* bound: mutations called more than once
  MaxFailures,   \* bound: fetches that fail
  None,          \* an entry without data
  Idle, Asked    \* a query nobody fetches; a fetch the server has not read

ASSUME CacheAssumption ==
  /\ Active \in [Page -> SUBSET Query]
  /\ Flagged \subseteq Page /\ SeedingPage \subseteq Page
  /\ Bundle \in Query /\ Seeded \subseteq Query \ {Bundle}
  /\ From \in [Mutation -> SUBSET Page] /\ Serial \subseteq Mutation
  /\ Repeated \subseteq Mutation
  /\ \A f \in {Writes, OnSettled, OnSuccess, Removes, Cancels, Optimistic, Patches, Gaps} :
       f \in [Mutation -> SUBSET Query]
  /\ RefetchOnMount \in BOOLEAN
  /\ MaxFailures \in Nat
  /\ \A s \in SUBSET Call : s \notin {None, Idle, Asked}
  /\ Idle # Asked

VARIABLES
  writer, tracked,   \* the mutation and the query this behaviour follows
  watch,             \* the tracked query and the bundle if it seeds that
  tour,              \* one page of each kind the behaviour can tell apart
  page,
  applied,           \* calls whose effect the server has
  call,              \* where each call of the writer is
  before,            \* what an optimistic call found in each entry
  data, invalid,     \* the entries: content and invalidated flag
  fetch,             \* the fetch of each query: none, unread, or its answer
  missed,            \* entries whose fetch, or the answer it brought, an
                     \* invalidation did not restart
  failures

fixed == <<writer, tracked, watch, tour>>
vars == <<writer, tracked, watch, tour, page, applied, call, before,
          data, invalid, fetch, missed, failures>>

Content == {None} \cup SUBSET Call
Truth(q) == IF q \in Writes[writer] THEN applied ELSE {}
Pending == {c \in Call : call[c] \in {"sent", "ok", "error"}}
Covered(m) == OnSettled[m] \cup OnSuccess[m]
Shows(q) == q \in Active[page]

TypeOK ==
  /\ writer \in Mutation /\ tracked \in Query /\ watch \in SUBSET Query
  /\ tour \in SUBSET Page /\ page \in tour
  /\ applied \in SUBSET Call
  /\ call \in [Call -> {"ready", "sent", "ok", "error", "won", "failed"}]
  /\ before \in [Call -> [watch -> Content]]
  /\ data \in [watch -> Content]
  /\ invalid \in [watch -> BOOLEAN]
  /\ fetch \in [watch -> {Idle, Asked} \cup SUBSET Call]
  /\ missed \in SUBSET watch
  /\ failures \in 0..MaxFailures

\* What a page is to the writer and the watched queries.
Kind(p) ==
  LET seen == Active[p] \cap watch IN
    <<seen, p \in From[writer], seen # {} /\ p \in Flagged, Bundle \in seen /\ p \in SeedingPage>>

Init ==
  /\ writer \in Mutation /\ tracked \in Writes[writer]
  /\ watch = {tracked} \cup (IF tracked \in Seeded THEN {Bundle} ELSE {})
  /\ tour = {CHOOSE p \in Page : Kind(p) = kind : kind \in {Kind(p) : p \in Page}}
  /\ page \in tour
  /\ applied = {} /\ missed = {} /\ failures = 0
  /\ call = [c \in Call |-> "ready"]
  /\ before = [c \in Call |-> [q \in watch |-> None]]
  /\ data = [q \in watch |-> None]
  /\ invalid = [q \in watch |-> FALSE]
  /\ fetch = [q \in watch |-> IF q \in Active[page] THEN Asked ELSE Idle]

-----------------------------------------------------------------------------
(* What the page's effect does with the bundle: it copies it over the       *)
(* seeded entries, whatever they hold, and setQueryData calls them fresh.   *)
(* What is wrong with the bundle is then wrong with them (missed), and a    *)
(* fetch that is still under way will overwrite them with its own answer.   *)

CopiedOver(q, p, content) ==
  /\ p \in SeedingPage /\ q \in Seeded /\ Bundle \in watch
  /\ content[Bundle] # None

Unsound(flags, late) ==
  \/ flags[Bundle] \/ Bundle \in late \/ Bundle \notin Covered(writer)
  \/ fetch'[Bundle] # Idle

Store(p, seeds, content, flags, late) ==
  LET over(q) == seeds /\ CopiedOver(q, p, content) IN
    /\ data' = [q \in watch |-> IF over(q) THEN content[Bundle] ELSE content[q]]
    /\ invalid' = [q \in watch |-> flags[q] /\ ~over(q)]
    /\ missed' = {q \in watch :
         \/ q \in late /\ (over(q) => fetch'[q] # Idle)
         \/ over(q) /\ Unsound(flags, late)}

(* Walking about.  A component that mounts on an entry without data loads   *)
(* it; with data, refetchOnMount decides.  A flag or a key that changes in  *)
(* a mounted component refetches what is stale.                             *)

MountFetches(q, p) ==
  /\ q \in Active[p] \ Active[page] /\ fetch[q] = Idle
  /\ \/ data[q] = None
     \/ invalid[q] /\ (RefetchOnMount \/ p \in Flagged)

GoTo(p) ==
  /\ p # page
  /\ page' = p
  /\ fetch' = [q \in watch |-> IF MountFetches(q, p) THEN Asked ELSE fetch[q]]
  /\ Store(p, page \notin SeedingPage, data, invalid,
           missed \ {q \in watch : MountFetches(q, p)})
  /\ UNCHANGED <<fixed, applied, call, before, failures>>

(* Faulty: coming back fetches only what is marked. *)
FocusInvalidatedOnly ==
  LET asks == {q \in watch : Shows(q) /\ fetch[q] = Idle /\ invalid[q]} IN
    /\ asks # {}
    /\ fetch' = [q \in watch |-> IF q \in asks THEN Asked ELSE fetch[q]]
    /\ missed' = missed \ asks
    /\ UNCHANGED <<fixed, page, applied, call, before, data, invalid, failures>>
\* The window has focus again after more than staleTime away.
Focus ==
  LET asks == {q \in watch : Shows(q) /\ fetch[q] = Idle} IN
    /\ asks # {}
    /\ fetch' = [q \in watch |-> IF q \in asks THEN Asked ELSE fetch[q]]
    /\ missed' = missed \ asks
    /\ UNCHANGED <<fixed, page, applied, call, before, data, invalid, failures>>

\* gcTime passes for an entry no page shows.
Collect(q) ==
  /\ ~Shows(q) /\ data[q] # None /\ fetch[q] = Idle
  /\ data' = [data EXCEPT ![q] = None]
  /\ invalid' = [invalid EXCEPT ![q] = FALSE]
  /\ missed' = missed \ {q}
  /\ UNCHANGED <<fixed, page, applied, call, before, fetch, failures>>

-----------------------------------------------------------------------------
(* Fetches: the server reads, the answer arrives or the fetch fails.        *)

Read(q) ==
  /\ fetch[q] = Asked
  /\ fetch' = [fetch EXCEPT ![q] = Truth(q)]
  /\ UNCHANGED <<fixed, page, applied, call, before, data, invalid, missed, failures>>

\* An answer equal to the bundle at hand does not run the page's effect,
\* unless it differs in something else than the writer's effects.
Deliver(q) ==
  /\ fetch[q] \notin {Idle, Asked}
  /\ fetch' = [fetch EXCEPT ![q] = Idle]
  /\ \E differs \in {fetch[q] # data[q], TRUE} :
       Store(page, q = Bundle /\ differs, [data EXCEPT ![q] = fetch[q]],
             [invalid EXCEPT ![q] = FALSE], missed)
  /\ UNCHANGED <<fixed, page, applied, call, before, failures>>

Fail(q) ==
  /\ fetch[q] # Idle /\ failures < MaxFailures
  /\ fetch' = [fetch EXCEPT ![q] = Idle]
  /\ invalid' = [invalid EXCEPT ![q] = TRUE]
  /\ failures' = failures + 1
  /\ UNCHANGED <<fixed, page, applied, call, before, data, missed>>

-----------------------------------------------------------------------------
(* Calls of the mutation.                                                   *)

\* What onMutate keeps of an entry it is about to patch.
Snapshot(q) == IF q \in Optimistic[writer] THEN data[q] ELSE None

\* mutate(): onMutate cancels fetches and patches the entries it shows.
Send(c) ==
  LET patched == Optimistic[writer] \cap watch IN
    /\ call[c] = "ready" /\ page \in From[writer]
    /\ c = CHOOSE d \in Call : call[d] = "ready"    \* calls not made yet are alike
    /\ writer \in Serial => Pending = {}
    /\ writer \in Repeated \/ \A d \in Call : call[d] = "ready"
    /\ \A q \in patched : data[q] # None
    /\ call' = [call EXCEPT ![c] = "sent"]
    /\ before' = [before EXCEPT ![c] = [q \in watch |-> Snapshot(q)]]
    /\ data' = [q \in watch |-> IF q \in patched THEN data[q] \cup {c} ELSE data[q]]
    /\ invalid' = [q \in watch |-> invalid[q] /\ q \notin patched]
    /\ fetch' = [q \in watch |-> IF q \in Cancels[writer] THEN Idle ELSE fetch[q]]
    /\ UNCHANGED <<fixed, page, applied, missed, failures>>

\* The server applies the call or refuses it; the answer may be lost.
Serve(c) ==
  /\ call[c] = "sent"
  /\ \/ applied' = applied \cup {c} /\ call' = [call EXCEPT ![c] = "ok"]
     \/ applied' = applied \cup {c} /\ call' = [call EXCEPT ![c] = "error"]
     \/ applied' = applied /\ call' = [call EXCEPT ![c] = "error"]
  /\ UNCHANGED <<fixed, page, before, data, invalid, fetch, missed, failures>>

(* Faulty: a refused anticipation stays. *)
RollsBackNever(c, q) == FALSE
RollsBack(c, q) ==
  call[c] = "error" /\ q \in Optimistic[writer] /\ before[c][q] # None
PatchesNow(c, q) == call[c] = "ok" /\ q \in Patches[writer]

\* What onSuccess or onError leaves in an entry: the server's answer patched
\* in, or what the optimistic call had found.
Callback(c, q) ==
  CASE RollsBack(c, q) -> before[c][q]
    [] PatchesNow(c, q) -> (IF data[q] = None THEN {} ELSE data[q]) \cup {c}
    [] OTHER -> data[q]

(* Faulty: callbacks given to mutate() die with the component that made it. *)
InvalidatedWhileMounted(c) ==
  IF page \notin From[writer] THEN {}
  ELSE IF call[c] = "ok" THEN Covered(writer) ELSE OnSettled[writer]
\* What onSuccess and onSettled invalidate.
Invalidated(c) == IF call[c] = "ok" THEN Covered(writer) ELSE OnSettled[writer]

\* The callbacks run, wherever the user is by now: onSuccess or onError, then
\* onSettled.  Invalidation restarts the fetch of an active query, unless it
\* is its first load.
Settle(c) ==
  LET gone == Removes[writer] \cap watch
      hit  == {q \in watch \ gone : q \in Invalidated(c)}
      restarted == {q \in hit : Shows(q) /\ (Callback(c, q) # None \/ fetch[q] = Idle)}
      stuck == {q \in hit \ restarted : fetch[q] # Idle}
  IN
    /\ call[c] \in {"ok", "error"}
    /\ call' = [call EXCEPT ![c] = IF call[c] = "ok" THEN "won" ELSE "failed"]
    /\ data' = [q \in watch |-> IF q \in gone THEN None ELSE Callback(c, q)]
    /\ invalid' = [q \in watch |->
         q \in hit \/ (invalid[q] /\ q \notin gone
                         /\ ~RollsBack(c, q) /\ ~PatchesNow(c, q))]
    /\ fetch' = [q \in watch |->
         IF q \in gone THEN Idle ELSE IF q \in restarted THEN Asked ELSE fetch[q]]
    /\ missed' = (missed \ (restarted \cup gone)) \cup stuck
    /\ UNCHANGED <<fixed, page, applied, before, failures>>

Next ==
  \/ \E p \in tour : GoTo(p)
  \/ Focus
  \/ \E q \in watch : Collect(q) \/ Read(q) \/ Deliver(q) \/ Fail(q)
  \/ \E c \in Call : Send(c) \/ Serve(c) \/ Settle(c)

Spec == Init /\ [][Next]_vars

\* Requests are answered and answers delivered, and the user comes back to the
\* window again and again; else he does as he likes.
Fairness ==
  /\ \A q \in Query : WF_vars(q \in watch /\ Read(q)) /\ WF_vars(q \in watch /\ Deliver(q))
  /\ \A c \in Call : WF_vars(Serve(c)) /\ WF_vars(Settle(c))
  /\ WF_vars(Focus)

ReturningUser == Spec /\ Fairness

-----------------------------------------------------------------------------
(* Properties.                                                              *)

\* What the writer's hook answers for: the queries it invalidates, and every
\* query on the page it is offered on whose answer it changes, apart from the
\* known gaps.
AnswersFor(q) ==
  \/ q \in Covered(writer)
  \/ q \in UNION {Active[p] : p \in From[writer]} \ Gaps[writer]

\* An entry that lacks the effect of a call which is over is marked stale or
\* being fetched, wherever the user went while the call ran and whatever
\* other fetches and calls overlapped with it (the onSettled and onSuccess
\* callbacks of the hooks).  Left out: a fetch in flight that no
\* invalidation restarts (missed), and an error whose effect the server has
\* and whose hook invalidates on success only.
OwnWritesFlagged ==
  \A q \in watch : \A c \in applied :
    (/\ q \in Writes[writer] /\ AnswersFor(q) /\ q \notin missed
     /\ data[q] # None /\ c \notin data[q]
     /\ call[c] = "won" \/ (call[c] = "failed" /\ q \in OnSettled[writer]))
    => \/ invalid[q] \/ fetch[q] = Asked
       \/ fetch[q] # Idle /\ c \in fetch[q]
       \/ \E d \in Pending : q \in OnSettled[writer]

\* An effect on the screen that the server refused, left there by an
\* optimistic update or brought back by another's rollback, is marked stale
\* or about to be replaced (onMutate, onError, onSettled).
PhantomFlagged ==
  \A q \in watch : \A c \in Call :
    (data[q] # None /\ c \in data[q] /\ call[c] = "failed" /\ c \notin applied)
    => invalid[q] \/ fetch[q] # Idle \/ Pending # {}

\* For a user who comes back to the window again and again, a page that shows
\* the tracked query ends up showing what the server has, gaps, lost answers,
\* stale bundles and missed fetches included (refetchOnWindowFocus).
FocusHeals ==
  <>[](tracked \in Active[page]) => <>[](data[tracked] = Truth(tracked))

-----------------------------------------------------------------------------
(* The hooks that keep these promises, as QueryCacheProofs shows.           *)

\* A hook invalidates whatever its page shows and it changes, but for the known
\* gaps; what it patches or cancels, and answers for, it invalidates whatever
\* comes back; the bundle holds what is seeded from it and is invalidated in
\* the same callback.
HooksCover ==
  \A m \in Mutation : \A q \in Writes[m] :
    /\ q \in UNION {Active[p] : p \in From[m]} \ Gaps[m] => q \in Covered(m)
    /\ q \in Covered(m) \cap (Optimistic[m] \cup Cancels[m]) => q \in OnSettled[m]
    /\ q \in Seeded =>
         /\ Bundle \in Writes[m]
         /\ {q, Bundle} \subseteq Covered(m) => (q \in OnSettled[m] <=> Bundle \in OnSettled[m])

\* What a hook anticipates it fetches again whatever comes back, or its form
\* waits for each answer; the bundle is never anticipated.
HooksForget ==
  \A m \in Mutation :
    /\ Bundle \notin Optimistic[m]
    /\ \A q \in Optimistic[m] : q \in OnSettled[m] \/ m \in Serial
=============================================================================
