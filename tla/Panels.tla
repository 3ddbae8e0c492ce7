--------------------------------- MODULE Panels ---------------------------------
(***************************************************************************)
(* A panel of the web client that shows what the server holds for a choice *)
(* made on the screen: the hours of a period, the tickets of a project,    *)
(* the contributors of a ticket, the diagram of the text in an editor.     *)
(* The choice changes while answers are under way, and they overtake each  *)
(* other.                                                                  *)
(*                                                                         *)
(* A behaviour follows one panel.  What it does with an answer comes from  *)
(* its row: a query keyed by the choice, or a request made in an effect.   *)
(***************************************************************************)
EXTENDS Naturals, FiniteSets

CONSTANTS
  Panel, Loads,     \* Loads[p]: how panel p loads
  Choice, Empty,    \* what can be chosen, and nothing chosen
  MaxAsks,          \* bound: requests of one behaviour
  MaxNews,          \* bound: changes on the server of what a choice shows
  Unasked, Missing,
  \* panels known not to keep the part of the promise below
  Misplaced, Outdated

LoadsType == [
  keeps  : {"each",        \* a copy for every choice: the choice is in the key
            "one"},        \* one for the panel
  heeds  : {"latest",      \* the answer of a request that another replaced is dropped
            "any"},
  awaits : {"data",        \* a spinner until the choice has a copy,
            "once",        \* until the panel has had its first answer,
            "asking",      \* from each request to the next answer
            "nothing"},
  served : {"anyhow", "inOrder"},
  fails  : {"silently",    \* a failure leaves what is drawn
            "told",        \* and draws the failure, until an answer comes
            "erased"},     \* instead of the copy, until the next request
  renews : BOOLEAN,        \* the same choice is asked for again
  empties : BOOLEAN]       \* nothing may be chosen

AskType == [of : Choice, read : Nat, least : Nat,
            state : {"sent", "read", "refused", "won", "lost"}]
CopyType == [of : Choice, read : Nat]

ASSUME PanelAssumption ==
  /\ Loads \in [Panel -> LoadsType]
  /\ Empty \notin Choice
  /\ MaxAsks \in Nat \ {0} /\ MaxNews \in Nat
  /\ Unasked \notin AskType /\ Missing \notin CopyType
  /\ Misplaced \subseteq Panel /\ Outdated \subseteq Panel

VARIABLES
  panel,     \* the panel this behaviour follows
  chosen,
  world,     \* how often what a choice shows has changed on the server
  ask,       \* each request: [of, state, read, least]
  copy,      \* what the panel keeps for a choice: [of, read]
  told,      \* for which choices it draws a failure
  waiting    \* its own loading flag

panelVars == <<panel, chosen, world, ask, copy, told, waiting>>

Load == Loads[panel]
Place == Choice \cup {Empty}
Numbers == 1..MaxAsks
AskedFor == {k \in Numbers : ask[k] # Unasked}
UnderWay == {k \in AskedFor : ask[k].state \in {"sent", "read", "refused"}}

PanelTypeOK ==
  /\ panel \in Panel /\ chosen \in Place
  /\ world \in [Choice -> 0..MaxNews]
  /\ ask \in [Numbers -> AskType \cup {Unasked}]
  /\ copy \in [Place -> CopyType \cup {Missing}]
  /\ told \subseteq Place /\ waiting \in BOOLEAN

\* Where an answer for c is kept and a failure noted.
Places(c) == IF Load.keeps = "each" THEN {c} ELSE Place

Put(c, v) == [p \in Place |-> IF p \in Places(c) THEN v ELSE copy[p]]

-----------------------------------------------------------------------------
(* The request and the spinner.                                             *)

Request(c, k) ==
  /\ k \in Numbers \ AskedFor /\ \A j \in Numbers \ AskedFor : k <= j
  /\ ask' = [ask EXCEPT ![k] = [of |-> c, state |-> "sent", read |-> 0, least |-> world[c]]]
  /\ waiting' = (waiting \/ Load.awaits = "asking")
  /\ told' = IF Load.fails = "erased" THEN told \ Places(c) ELSE told

Replaced(k) ==
  \E j \in AskedFor : j > k /\ (Load.keeps = "each" => ask[j].of = ask[k].of)

(* Faulty: answers to replaced requests count. *)
HeededAlways(k) == TRUE
\* The queries and TicketContributors (its cancelled flag) drop the answer of
\* a request that another one replaced.
Heeded(k) == Load.heeds = "latest" => ~Replaced(k)

Asking(c) == \E k \in UnderWay : ask[k].of = c /\ Heeded(k)

Spinner ==
  IF Load.awaits = "data" THEN copy[chosen] = Missing /\ chosen # Empty /\ Asking(chosen)
  ELSE waiting

Drawn == IF Spinner \/ chosen \in told THEN Missing ELSE copy[chosen]

PanelInit ==
  /\ panel \in Panel
  /\ chosen \in Choice
  /\ world = [c \in Choice |-> 0]
  /\ ask = [k \in Numbers |-> IF k = 1 THEN [of |-> chosen, state |-> "sent", read |-> 0, least |-> 0]
                          ELSE Unasked]
  /\ copy = [c \in Place |-> Missing]
  /\ told = {}
  /\ waiting = (Load.awaits \in {"once", "asking"})

-----------------------------------------------------------------------------
(* The user chooses; the panel asks.                                        *)

\* A query is shared by all who name its key: one is not asked for again
\* while its first answer is under way, nor while its copy is fresh.
MayAsk(c) == Load.keeps = "each" /\ Load.heeds = "latest" => ~Asking(c) \/ copy[c] # Missing
MaySkip(c) == Load.keeps = "each" /\ Load.heeds = "latest" /\ (Asking(c) \/ copy[c] # Missing)

ShowChoice(c) ==
  /\ c # chosen /\ chosen' = c
  /\ \/ \E k \in Numbers : Request(c, k) /\ MayAsk(c)
     \/ MaySkip(c) /\ UNCHANGED <<ask, told, waiting>>
  /\ UNCHANGED <<panel, world, copy>>

\* Without text there is no diagram; without a project, no query.
ShowNothing ==
  /\ Load.empties /\ chosen # Empty /\ chosen' = Empty
  /\ copy' = IF Load.fails = "erased" THEN Put(Empty, Missing) ELSE copy
  /\ UNCHANGED <<panel, world, ask, told, waiting>>

\* A focus, an invalidation, or the fetch that follows the panel's own write.
Renew ==
  /\ Load.renews /\ chosen # Empty /\ MayAsk(chosen)
  /\ \E k \in Numbers : Request(chosen, k)
  /\ UNCHANGED <<panel, chosen, world, copy>>

-----------------------------------------------------------------------------
(* The server and the answers.                                              *)

Happen(c) ==
  /\ world[c] < MaxNews
  /\ world' = [world EXCEPT ![c] = @ + 1]
  /\ UNCHANGED <<panel, chosen, ask, copy, told, waiting>>

InTurn(k, states) ==
  Load.served = "inOrder" => \A j \in AskedFor : j < k => ask[j].state \notin states

ServeAsk(k) ==
  /\ k \in AskedFor /\ ask[k].state = "sent" /\ InTurn(k, {"sent"})
  /\ \/ ask' = [ask EXCEPT ![k].state = "read", ![k].read = world[ask[k].of]]
     \/ ask' = [ask EXCEPT ![k].state = "refused"]
  /\ UNCHANGED <<panel, chosen, world, copy, told, waiting>>

AnswerAsk(k) ==
  /\ k \in AskedFor /\ ask[k].state = "read" /\ InTurn(k, {"sent", "read", "refused"})
  /\ ask' = [ask EXCEPT ![k].state = "won"]
  /\ IF Heeded(k)
     THEN /\ copy' = Put(ask[k].of, [of |-> ask[k].of, read |-> ask[k].read])
          /\ told' = IF Load.fails = "told" THEN told \ Places(ask[k].of) ELSE told
          /\ waiting' = FALSE
     ELSE UNCHANGED <<copy, told, waiting>>
  /\ UNCHANGED <<panel, chosen, world>>

RefuseAsk(k) ==
  /\ k \in AskedFor /\ ask[k].state = "refused" /\ InTurn(k, {"sent", "read", "refused"})
  /\ ask' = [ask EXCEPT ![k].state = "lost"]
  /\ IF Heeded(k)
     THEN /\ copy' = IF Load.fails = "erased" THEN Put(ask[k].of, Missing) ELSE copy
          /\ told' = IF Load.fails = "silently" THEN told ELSE told \cup Places(ask[k].of)
          /\ waiting' = FALSE
     ELSE UNCHANGED <<copy, told, waiting>>
  /\ UNCHANGED <<panel, chosen, world>>

PanelNext ==
  \/ \E c \in Choice : ShowChoice(c) \/ Happen(c)
  \/ ShowNothing \/ Renew
  \/ \E k \in Numbers : ServeAsk(k) \/ AnswerAsk(k) \/ RefuseAsk(k)

PanelSpec == PanelInit /\ [][PanelNext]_panelVars

-----------------------------------------------------------------------------
(* Properties.                                                              *)

\* What a panel draws is of the choice on the screen, never of one made
\* before; once nothing is under way it is no older than the server was when
\* the choice was last asked for, and no failure of an earlier request hides
\* it; and it never waits for an answer that nobody has been asked for.
PanelTellsTruth ==
  /\ panel \notin Misplaced /\ Drawn # Missing => Drawn.of = chosen
  /\ panel \notin Outdated /\ UnderWay = {} =>
       \A k \in AskedFor :
         ask[k].state = "won" /\ ask[k].of = chosen /\ ~Replaced(k) =>
           Drawn # Missing /\ Drawn.read >= ask[k].least
  /\ Spinner => UnderWay # {}
=============================================================================
