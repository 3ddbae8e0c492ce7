------------------------------- MODULE PanelTable -------------------------------
(***************************************************************************)
(* The panels of the web client that follow a choice, and how each loads:  *)
(* one row per panel, read off the component and the hook it loads with.   *)
(***************************************************************************)
EXTENDS TLC

\* useQuery with the choice in the key.
Keyed == [keeps |-> "each", heeds |-> "latest", awaits |-> "data", served |-> "anyhow",
          fails |-> "silently", renews |-> TRUE, empties |-> FALSE]

\* The table and the expanded row draw isError instead of what they have.
KeyedTelling == [Keyed EXCEPT !.fails = "told"]

Burndown == Keyed
TimeEntries == KeyedTelling
WeeklyReport == Keyed
WeeklyTickets == KeyedTelling
RoadmapTemplate == Keyed
MemberLookup == [Keyed EXCEPT !.empties = TRUE]
ProjectMembers == [Keyed EXCEPT !.empties = TRUE]
TicketActivity == Keyed

\* A request in an effect.  The hours of the project are asked for once per
\* project; the spinner is the first request's.
ProjectHours == [keeps |-> "one", heeds |-> "any", awaits |-> "once", served |-> "anyhow",
                 fails |-> "silently", renews |-> FALSE, empties |-> FALSE]

\* The effect's clean-up marks the request as cancelled.
Contributors == [ProjectHours EXCEPT !.heeds = "latest", !.awaits = "asking"]

\* The queues ask for the comments of every ticket, and again after a post.
ReviewComments == [ProjectHours EXCEPT !.keeps = "each", !.awaits = "nothing", !.renews = TRUE]
BlockedComments == ReviewComments

\* mermaid.render works its queue off in order.  Renders of text that changed
\* again within the 100 ms of the debounce never start.
Diagram == [keeps |-> "one", heeds |-> "any", awaits |-> "asking", served |-> "inOrder",
            fails |-> "erased", renews |-> FALSE, empties |-> TRUE]

PanelRows ==
     "burndown" :> Burndown @@ "timeEntries" :> TimeEntries
  @@ "weeklyReport" :> WeeklyReport @@ "weeklyTickets" :> WeeklyTickets
  @@ "roadmapTemplate" :> RoadmapTemplate @@ "memberLookup" :> MemberLookup
  @@ "projectMembers" :> ProjectMembers @@ "ticketActivity" :> TicketActivity
  @@ "projectHours" :> ProjectHours @@ "contributors" :> Contributors
  @@ "reviewComments" :> ReviewComments @@ "blockedComments" :> BlockedComments
  @@ "diagram" :> Diagram
=============================================================================
