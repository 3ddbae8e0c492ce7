---------------------------- MODULE MCClientCache ----------------------------
(* The query cache with the web client's own hooks.                         *)
EXTENDS QueryCache, ClientHooks

AllQueries == DOMAIN Queries
AllMutations == DOMAIN Mutations
AllPages == DOMAIN Layers
Overview == "overview"
OverviewPages == {"detail", "tracker"}
CalledTwice == {"toggleTask", "savePulse"}
SerialMutations == {"createSprint", "saveEdit", "savePulse"}

\* The hooks' tables, by names of their own: TLC evaluates those only once.
MCActive == HookActive
MCFrom == HookFrom
MCWrites == HookWrites
MCOnSettled == HookOnSettled
MCOnSuccess == HookOnSuccess
MCRemoves == HookRemoves
MCCancels == HookCancels
MCOptimistic == HookOptimistic
MCPatches == HookPatches
MCGaps == HookGaps
MCSeeded == HookSeeded
MCRefetchOnMount == HookRefetchOnMount

\* These hooks are of those QueryCacheProofs speaks of.
ASSUME HooksAsProved == HooksCover /\ HooksForget

-----------------------------------------------------------------------------
(* Two pairs of a mutation and a query that play the same parts have the    *)
(* same behaviours but for their names: one pair of each kind is followed.  *)

Written == UNION {{<<m, q>> : q \in HookWrites[m]} : m \in AllMutations}
Effects == <<HookWrites, HookOnSettled, HookOnSuccess, HookRemoves,
             HookCancels, HookOptimistic, HookPatches>>
Parts(m, q) == {i \in DOMAIN Effects : q \in Effects[i][m]}
Watched(q) == {q} \cup (IF q \in HookSeeded THEN {Overview} ELSE {})
Pages(m, q) ==
  {LET seen == HookActive[p] \cap Watched(q) IN
     <<q \in seen, Overview \in seen, p \in HookFrom[m], seen # {} /\ p \in ByFlag>> : p \in AllPages}
Role == [pair \in Written |->
  LET m == pair[1]
      q == pair[2]
  IN <<Parts(m, q), Pages(m, q), m \in SerialMutations, q \in HookGaps[m],
       IF q \in HookSeeded THEN Parts(m, Overview) ELSE {}>>]
OneOfEachRole ==
  {CHOOSE pair \in Written : Role[pair] = role : role \in {Role[pair] : pair \in Written}}
MCInit == Init /\ <<writer, tracked>> \in OneOfEachRole
MCSpec == MCInit /\ [][Next]_vars /\ Fairness
=============================================================================
