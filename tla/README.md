# Formal specification of Arsenal Ops

TLA+ models of the core of Arsenal Ops (`src/`), the TLC runs that check them
and the TLAPS proofs about them. On the server: time entries pushed to
QuickBooks, where a mistake costs money; the tree of work items, the data
everything else refers to; and the hours summed from entries up to epics, which
every view shows. In the web client: the query cache, the session, the dialogs,
controls and panels, the AI planning wizard, the weekly review, and the board's
and the role editor's rules, each against what the server does with the same
data.

## The system

Arsenal Ops is a project tracker: a FastAPI service (`src/backend`) over
Postgres (SQLite in development) and a React client (`src/app`). Requests run
in a thread pool, each with a SQLAlchemy session of its own
(`autoflush=False`, a transaction per commit, READ COMMITTED). Scripts under
`backend/scripts` are started by hand or by cron against the same database.

| Component | State | Operations | What makes it hard |
|---|---|---|---|
| Time entries (`models/time_entry.py`, `routers/workitems.py` log_hours, `routers/developers.py`) | rows with hours, `logged_at`, `submitted_at`, `workforce_entry_id` | log, edit, delete, billable | checks and updates are separate statements; a push reads rows meanwhile |
| QuickBooks push (`services/workforce_sync.py`, `services/timesheet_service.py`) | advisory lock, `workforce_integration.last_sync_*`, the TimeActivities in QuickBooks | admin run, developer submit | mutual exclusion, lost answers, crashes between POST and commit, rows that change or vanish under a batch |
| Triggers (`routers/workforce.py`, `scripts/run_workforce_sync.py`) | none of their own | Sync Now, script, tag a project | peek, then lock; promises about emails |
| QuickBooks client and tokens (`services/workforce_qb_client.py`, `workforce_oauth.py`, `workforce_clients.py`) | rotating tokens, cached customers | request with refresh and one retry, connect, disconnect | refresh outside the lock, commits in the middle of a caller |
| Dedupe script (`scripts/dedupe_time_entries.py`) | none | read everything, delete by id | acts on a snapshot |
| Work items (`routers/workitems.py`, `services/hierarchy.py`) | tree of epics, stories, subtasks; status; estimated, logged, remaining hours | create, update, batch status, delete, log hours | gates and rollups in two transactions, concurrent reparenting |
| Sprints, dependencies | sprint membership and dates, a dependency graph | create, start, complete; add, remove | cycles, moves of many items |
| Projects, members, goals, milestones, categories, key prefixes | rows | CRUD | unique prefixes, cascades |
| Capacity and assignment history (`services/capacity_service.py`, `assignment_history_service.py`) | spans of assignment per ticket | record a change, compute the week | one open span per ticket, attribution across transfers |
| Authentication, roles, MCP OAuth (`routers/auth.py`, `capabilities.py`, `mcp_server.py`) | users, roles, tokens, codes | login, exchange, refresh | single use of codes, expiry |
| Personal tasks, comments, calendar sync | rows | CRUD, conversion to a ticket, upsert by window | repeated runs, conversion twice |
| Roadmap and PRD import, AI generators, reports, email, pulse, overview | little or none | parse, prompt, render | no state machine |
| Client cache (`lib/queryClient.ts`, the hooks of `app/src`) | a TanStack Query cache per tab: 39 queries | 55 mutations that invalidate, patch and roll back; focus, navigation, a bundle that seeds other entries | copies that stay stale (`refetchOnMount: false`), overlapping optimistic calls, late answers |
| Client session (`contexts/AuthContext.tsx`, `App.tsx`, `lib/api.ts`) | user, token, capabilities, idle timer, browser storage | sign-in and out, reload, poll, idle warning, redirect on a 401 | answers of an earlier session, two tabs, whoever must end the loading |
| Client dialogs, inline controls, panels | drafts, pending marks, anticipated values, what was loaded for a choice | open, type, submit, walk away; click; choose | callbacks that act on whatever is on the screen when they run |
| AI planning wizard (`pages/ProjectBoard/modals/AIPlanning`) | step, roadmap, `isGenerating` of the page | analyze, parse, preview, edit sprint lengths, commit | handlers that outlive the wizard they were started in |
| Weekly review (`components/ProjectsPage/MyCapacityCard`, `hooks/useMyTimesheet.ts`) | cached week, editors, the submit's outcome | edit, add, delete, billable, submit, close | callbacks dropped with the view, refetches that overtake saves |
| Board views and forms, role editor | a copy of the tree; a set of grants | type and link items, group rows; tick boxes | the server's rules repeated on a copy, nested wildcards |

How they interact: every handler shares the database; the push reads entries,
projects and employees, writes entry Ids and `last_sync_*`, and calls
QuickBooks; deletion of tickets and projects cascades to entries; logging,
editing and deduplication of entries recompute the hours of tickets and epics.
The client meets the server through requests alone. Within a tab the parts meet
in the query cache: a mutation's callbacks invalidate what other pages show;
a 401 on any request ends the session; dialogs, controls, the wizard and the
review are owned by a page and their calls outlive it.

What makes each correct, in one line: a row reaches QuickBooks at most once and
its Id is recorded in it; an entry a developer submitted is frozen; a ticket's
logged hours are the sum of its entries, an epic's the sum of its descendants;
no closed ticket has an open child; the tree is at most two levels below an
epic; a ticket has at most one open assignment span. In the client: what a
call changed is fetched again before it is trusted; a user has a token and a
token its user; no press of a key makes a thing twice, no answer takes away what
the user is typing; every spinner has somebody who will stop it; the developer
sees how the submit ended; what a form offers the server accepts; what a box
shows is what the server grants.

## The modules

| Module | What it is |
|---|---|
| `EntryLifecycle` | Abstract specification of one row: unlogged, draft, submitted, synced, deleted, and the TimeActivities QuickBooks has for it. From the comment over `TimeEntry.submitted_at`. |
| `TimesheetSync` | The push, its triggers and everything that touches entries meanwhile; instantiates `EntryLifecycle` with a refinement mapping. |
| `WorkItemTree` | Work items of a project: types, links, statuses; the requests that change them, each in up to three steps. |
| `HoursLedger` | Entries, the hours of the items they are logged on and of the epics above; the handlers and scripts that change either, each in its two transactions. |
| `QueryCache` | One tab's query cache: one mutation, one query, and the bundle if it seeds that query. |
| `ClientHooks` | The client's queries and mutations hook by hook: keys, layers, facets read and written, key prefixes invalidated, patched, cancelled. The data `QueryCache` runs on. |
| `Session` | The session of a tab, the server's answers included. |
| `Dialogs`, `DialogTable` | A dialog in general; the rows of 38 dialogs. |
| `Controls`, `ControlTable` | An inline control in general; the rows of 34. |
| `Panels`, `PanelTable` | A panel that follows a choice in general; the rows of 13. |
| `PlanningWizard` | The AI planning wizard, its handlers and the page's flag, and the server's cut of the work weeks into sprints. |
| `ReviewWeek` | The weekly review of one client's rows of a day, with the submit. |
| `BoardTree` | The board's copy of the tree, its forms and views; instantiates `WorkItemTree` for the server's rules. |
| `RoleEditor`, `RoleCatalogue` | The boxes of the role editor over a set of grants, for any catalogue, and the server's check; the catalogue of the source. |
| `MCTimesheetSync`, `MCWorkItemTree`, `MCHoursLedger`, `MCClientCache`, `MCDialogs`, `MCWizard`, `MCReview`, `MCScreens` | Instances for TLC. `MCDialogs` follows a dialog, a control or a panel; `MCScreens` composes `BoardTree` and `RoleEditor`, which share no state; `MCWizard` also holds the wizard's statement of the cut against the server's loops. |
| `TimesheetSyncProofs`, `WorkItemTreeProofs`, `HoursLedgerProofs`, `SessionProofs`, `PlanningWizardProofs`, `ReviewWeekProofs`, `QueryCacheProofs` | Theorems about the module each is named after, for all constants. |
| `ScreensProofs` | Theorems about `Dialogs`, `Controls` and `Panels`, for all tables whose rows keep to the conditions a theorem names, and about `BoardTree` and `RoleEditor`, for all constants. |

The server's models share the database's rows but not each other's variables: a
push never touches hours, and hours never decide about statuses or links. What
one part does to another appears there as an action of its own: `TimesheetSync`
has the deletion of items and edits of entries, `HoursLedger` has the moves and
deletions of items without their statuses, `ReviewWeek` the changes an admin's
push makes to the rows, `Session` the server's tokens and role versions.

Definitions with a comment that begins "Faulty:" are the deliberately wrong
variants with which the properties are tested; nothing else refers to them.

### `TimesheetSync` and the code

A process is an invocation: `Run` holds runs of `run_workforce_sync` (a click
on Sync Now or the script), `Dev` the developers, each with one submit and one
edit request at a time. An action is the code between two points where another
request can run: a database statement or commit, or an answer from QuickBooks.

* Rows: `life`, `hours`, `weekOf`, `submitted`, `qbId` are the columns of
  `time_entries`. `hours` stands for every field that is sent to QuickBooks and
  that the owner may still change. `qbId` is an index into `ledger`, the
  TimeActivities in QuickBooks in order of creation.
* A push goes through the labels of `pc`: idle, queued (the click was
  accepted), prepare (inside the lock: service item and employees), query,
  stamp (submits only), push (the head of the loop), commit (an answer arrived,
  the Id is not committed), release.
* `seen` and `tag` are the session's copies of the rows and projects it
  loaded. SQLAlchemy expires them at each commit, so what a push sends is
  either the copy from its query or the row as it is then; a row deleted
  meanwhile raises on reload (`RowGone`) or at the UPDATE (`RecordId`).
* `PostFails(p, e, created, refreshed)` covers every `QBApiError`: refused, or
  applied with the answer lost (`created`), and with or without a token refresh
  on the way, whose commit expires the session (`refreshed`).
* `Abort` is an exception nothing catches: `resolve_service_item` lets a failed
  token refresh through, and Disconnect deletes the integration row under a
  push. `last_sync_*` keeps its old value then.
* `Crash` is the death of the process at any point inside the lock. Postgres
  drops the lock with the connection.
* Without the lock: `Log`, `ResolveEditable`/`EditEntry`/`DeleteEntry` (the
  SELECT of the gate and the UPDATE or DELETE), `ResolveBillable`,
  `DeleteWorkItem`, `DeleteProject`, `DedupeScan`/`DedupeDelete`, `Tag`,
  `Untag`, `NewWeek`.

### `WorkItemTree` and the code

A request of `Req` runs a handler of `routers/workitems.py`. Between its steps
other requests run:

1. it reads and checks: `update_work_item`, `create_work_item`,
   `batch_update_status`, `delete_work_item`, `move_ticket_to_sprint`. The
   guards are the handler's gates and `validate_hierarchy`; a request they
   refuse is `Refuse`. Sessions do not autoflush (`database.py`), so nothing is
   written yet: what the request will write is in `task[r].writes`, `Keep` for
   a column whose value the session did not change;
2. it commits: `CommitUpdate`, `CommitCreate`, `CommitDelete`. An UPDATE that
   finds no row, or a link that refers to none, fails the request
   (`StaleDataError`, foreign keys); a deletion first clears the links of the
   rows below, because `WorkItem.subtasks` and `WorkItem.stories` have no delete
   cascade;
3. in a second transaction it refreshes the statuses above: `RollupUpdate`,
   `RollupCreate`, `RollupBatch`, `RollupDelete`, all through `Refresh`.

`Crash` ends a request between two steps. `live` are the ids in the table,
`issued` those ever handed out by its sequence, `row` the columns. "task"
stands for task, bug and change_order, which every rule treats alike;
`completed` says whether `completed_at` is set; `hours` in a body is
`estimated_hours`, kept because it is a reason to refresh.

Coarser than the code: the SELECTs of one step see one state (in the code,
READ COMMITTED, each sees its own), a refresh reads and commits at once, and a
deletion clears links and deletes at once (a child added in between is deleted
by the foreign key's cascade). The races described below need none of these.

### `HoursLedger` and the code

An item is an epic, a story (which stands for every type directly under an
epic) or a subtask; `up` is its `epic_id` or `parent_id`. A request of `Req`
runs in stages, and other requests run between them:

1. `read`: it has loaded its item and passed its checks (`LogHours`,
   `EditEntry`, `DeleteEntry`, `RemoveItem`, `Dedupe`, `RepairHours`);
   `seen` is what it loaded;
2. `commit`: its change of an entry is flushed (`change`; the row is locked) and
   the SUM is taken, of what is committed and its own flush (`Recompute`,
   through `Flushed`). `write` is what the UPDATE will set: a column equal to
   what was loaded is left out, so it does not undo another's write to it;
3. `rollup`: it has committed (`Commit`, `CommitRemove`, `CreateItem`) and reads
   the epics above (`Refreshed`) and their totals over both levels (`Totals`);
4. `store`: the second commit, `StoreEpics`.

`EstimateItem` and `MoveItem` are `update_work_item` with an estimate or a link
in the body; they start at `commit`, having nothing to flush. `CompareHours`
writes only the items whose sum is wrong, `DeleteDoomed` deletes by id and
resyncs the items still there; neither rolls up. `Crash` ends a request and
drops what it has not committed.

`clear` in a request is a history variable: no other request was at work on
any of its items since it began. The code has no such thing; properties and
proofs need it to say when a recompute must be exact.

Coarser than the code: the SELECTs of one step see one state; a creation
checks, inserts and commits at once (nothing else can see the row before).

### `QueryCache`, `ClientHooks` and the code

`QueryCache` is what TanStack Query does under the client's defaults, as the
hooks use it: entries with a staleness mark, fetches in flight, invalidation
that restarts a fetch, removal, `cancelQueries`, optimistic patches with their
snapshot and rollback, refetch on focus and on mount. The library is external;
the defaults (`refetchOnMount: false`) and every call on it are the client's.

* `ClientHooks` has a function per hook file, a record per `useQuery` and
  `useMutation` in it. `Matching` computes which of the 39 queries a prefix
  invalidates; keys that are written as numbers in one place and as strings in
  another (`Num`, `Str`) differ there as they do in the library.
* A facet is a part of the database that an endpoint reads or writes: a call
  changes a query's answer if they share one.
* `Layers` are pages with their dialogs: what is `shown` is mounted, what is in
  `front` can be clicked. `ByFlag` are queries enabled by a flag of a mounted
  component.
* A behaviour follows one mutation and one query, as no third query has any
  part in what happens to these two but the bundle, which is followed too where
  it seeds the query (`Store`, `useProjectDetailData`).
* `data[q]` is the set of the mutation's calls whose effect the entry shows:
  that a copy is the truth is that it equals `applied`.

`KnownGaps` lists, per mutation, the queries it changes and does not
invalidate. They are facts of the code, each read off its `onSettled`; the
properties excuse them and hold for all others.

### `Session` and the code

Each request carries the token it was sent with and is served and answered in
any order. `Load` is a reload or first load (`checkAuth`), `SignIn`, `SignOut`,
`ChangePassword` and `Poll` the provider's operations, `Fetch` any other
request of a page, `DeliverCaps`, `DeliverMe`, `DeliverLogin`,
`DeliverPassword`, `DeliverApi` the code after each `await`. `Route` is the
effect in `App.tsx` that moves between the login and the application. `Tick`,
`IdleCheck`, `CountDown` and `Act` are the idle timer. `OtherTab` signs in or
out in the shared storage. The server is `routers/auth.py`: `Serve` and
`TurnDown` its endpoints, `Good` its check of a token, `Expire` the end of one,
`AdminChanges` the edits of roles. Only the loss of an answer (`Lose`) is
external. The remembered path is abstracted to the home route.

A page that is loaded anew hears no answer to what the page before asked, but
the server may still come to it. `stray` holds the changes of a password that
`Reloads` leaves on their way, and `ServeStray` makes them, at any time: also
after the new page's `/me` was answered, which `untold` remembers.

### `Dialogs`, `Controls`, `Panels` and the code

Most of the client is one pattern a hundred times over: a component that calls
a mutation, and a hook whose callbacks act on the page. Each pattern is one
module, whose actions read what they do from a row, and a table with a row per
instance. A row has two halves, one for each file: the component's (for a
dialog, who refuses a second call, what is locked while one runs, whether the
draft outlives the dialog) and the hook's (what submitting does at once, what the
answer closes, clears or shows, whom the callbacks take for the subject).

* `Dialogs`: a draft is the number of its last keystroke, which is enough to
  tell whose text was lost, replaced or saved for another subject. `excused`
  are keystrokes the user gave up, typed over, or typed while a call ran.
* `Controls`: a click per row of a list; optimistic display, the pending mark
  (`marks`: of the call, of the latest call, of all rows, a flag), the refetch
  and its answer.
* `Panels`: a query keyed by the choice, or a request in an effect with or
  without a guard against late answers; its spinner and its error.

The rows that break a promise are listed in `MCDialogs` by name and per promise
(`MCDoubling`, `MCLosing`, `MCMisdirecting`, `MCStealing`, `MCMismarked`,
`MCUnhealed`, `MCMisplaced`, `MCOutdated`), and each fails its property when it
is taken off its list. A dialog not on a list keeps the promise.

### `PlanningWizard` and the code

`handler` are the async functions of `useAIPlanning` in flight: each sets the
step, awaits, and sets the step again (`AnalyzePRD`/`EndAnalyze`,
`ParseRoadmap`/`EndParse`, `PreviewTickets`/`EndPreview`,
`CommitArchitecture`, `CommitRoadmap`/`EndCommit`,
`SetSprintDuration`/`EndRebalance`). Closing resets the wizard and leaves them
running (`Orphaned`: `mine` becomes false, their setters reach nobody).
`isGenerating` and the architectures belong to the page: `LeavePage` goes to
another one and back to a board that is mounted anew, so both are lost while the
requests go on; a handler with `here` false ends unheard (`EndUnheard`), what it
asked of the server is done. An analysis is checked for and made in two steps
(`CheckAnalysis`, `Answer`): two that both pass the check are both made.

A file has fixed work weeks, some followed by a gap of the calendar. The server
cuts them into sprints: `Chunked` says what `_chunk_weeks` of `parser.py`
returns, as a relation between the lengths asked for and the lengths answered,
which may be others, and more or fewer. A stepper shows its edit at once and
sends the lengths of the sprints shown; `EndRebalance` puts the server's cut in
their place. The roadmap carries the lengths shown, those its tickets were
distributed by (`cut`), and for the properties those last asked for (`wanted`).

### `ReviewWeek` and the code

`CapacityModal` and `ReviewSubmitView` over `useMyTimesheet`: the view, the
page's rows (the cache), the rows of the server, editors and forms, and calls.
`mine` of a call says that the view that made it is still mounted: TanStack
drops the callbacks given to `mutate` otherwise and runs the hook's. `Serve` is
what the endpoints of `routers/developers.py` and the submit of
`timesheet_service.py` do to the rows (`TimesheetSync` has the push itself),
`Others` the administrator's push and edits elsewhere.

A view that is mounted fetches only when there is no answer at all
(`refetchOnMount: false`, which the hook keeps). An invalidation refetches while
the view is on the screen; off it the entry is only marked (`fetch = "due"`), and
the rows shown the next time are the old ones until the window is focused or
another mutation succeeds. A fetch that fails sets `erred`: the view returns an
error card in place of the week, so every open editor and the form that adds a
row are gone, until a fetch arrives.

### `BoardTree`, `RoleEditor` and the code

`BoardTree` has the page's copy (`list`), the server's rows, one form at a time
(the create dialog, the panel's edit, the add-child dialogs) and the views as
functions of any set of rows a filter leaves (`EpicGroups`, `ListGroups`). Its
`Sound` is `validate_hierarchy` of `WorkItemTree`: the page's
`validateReparent` is compared with the server's rules and not with a copy of
them. `ahead` counts the writes of others that the page has not seen.

`RoleEditor` has the set of grants in the form of the modal, the clicks of
`capabilityPicker.ts` on it, and `matches` of `capabilities.py` and
`capabilities.ts`, over a catalogue that is a constant. `RoleCatalogue` is the
catalogue of the source: the picker's tree of labels and keys (`TabRows`,
`ProjectRows`, `AdminRows`), the server's capabilities and its roles. A key is
the sequence of its parts.

## The runs

| Run | Instance | What it shows |
|---|---|---|
| `sync` | two rows of one developer, one run, a second developer, a batch of two, lost answers, crashes | recorded Ids are the row's own, no push of a row that has one, truthful reports, stamp before POST |
| `lifecycle` | one row, two weeks, two values of hours, lost answers, crashes, fairness | `TimesheetSync` implements `EntryLifecycle`; the lock is always given back |
| `tree` | three items, one request at a time, every kind of request and body, crashes | the depth cap and the gate on closing |
| `tree_status` | three items, one request at a time, single-item requests that keep types, nothing dies | reopening climbs two levels, closing covers the levels below |
| `hours` | two epics, two stories, a subtask, one entry, one request at a time, nothing dies, no repair | logged hours are the sum of the entries, an epic's columns the totals of both levels below it |
| `hours_race` | one story, two entries, two requests of any kind, both repair tools, crashes | a recompute that was alone on its item leaves it exact, whatever it found |
| `client` | all hooks, one pair of a mutation and a query for each combination of roles, two calls of the mutations that overlap, one failed fetch | what a call changed is marked stale or fetched again; an anticipation the server refused is replaced; a user who comes back sees the server's state |
| `session` | two people, one with a temporary password; two sign-ins, one change of a role, one lost answer, one page request, a countdown of two | user and token come and go together; the idle warning ends with its session; a demand for a new password is the server's; capabilities converge; a loading page ends its loading |
| `dialogs` | 38 dialogs (three openings, three keystrokes, two calls, two subjects), 34 controls (three clicks, a list of two), 13 panels (three requests, two choices, one change) | nothing is made twice, no input is lost or saved for another subject, no answer takes the screen away; marks tell what runs, lists what the server has, panels what was chosen |
| `wizard` | a file of two weeks, sprints of one or two, two handlers at once, the page left at any time; the cut in all calendars of up to three weeks | every spinner has its handler, the sprints are the server's cut for what was asked last and fit their tickets, one commit at a time on a page, the page's flag comes down |
| `review` | two rows, two mutations in flight, one change by others | who submitted sees the outcome, one submit at a time, a page that is not waiting to be fetched comes to show the server's rows, editors outlive the saves of others |
| `screens` | three items, one sprint, one write the page has not seen; every label of the role picker that has a shape of its own | forms offer what the server accepts, views show every row once, boxes tell the access they give, a click changes what it says |

Bounds. Two rows are enough for a batch with a row done and a row to come, for
a row that vanishes before and after its POST, and for a burst with a keeper
and a duplicate. Three pushers compete for the lock in `sync`; a fourth adds no
new kind of interleaving, and the theorems cover any number. `MaxActivity` caps
TimeActivities: 2 allows a lost POST and its repetition. `MaxWeek = 1`
lets a window end; `MaxHours = 2` lets an edit change a row. `Log` dates a row
in the current week; back-dating within the week changes nothing at the
granularity of weeks.

For the tree, three items are an epic, a story and a subtask: the deepest
chain the rules allow, and one more than the depth cap needs to be broken.
Statuses other than done differ only for a move between backlog and sprint:
"todo" alone, or with "backlog". `Change` is the set of bodies: one field at a
time as the board sends them, or a type with its links or a status as the edit
form does.

For the hours, two epics and two stories let a subtask move across epics, with
its story or alone; two values of hours tell a stale sum from a fresh one, and
the estimate 1 lies below, at and above what may be logged, so that remaining
hours stop at 0. Epics need no race: `hours_race` keeps one story and two
entries, the least with which two sums can miss each other and the dedupe
script has something to delete. An epic's totals depend on the columns of the
rows below alone, so one entry is enough there.

In `client`, pairs of a mutation and a query that play the same parts on pages
of the same shape have the same behaviours but for their names, and one pair of
each is followed (`OneOfEachRole`); `dialogs` does the same with equal rows. Two
calls are what it takes for one to overtake or roll back another, so `client`
allows them for one mutation of each kind that can be repeated (`CalledTwice`).
Three openings are a dialog left, one in which an answer arrives and one after
it; three keystrokes separate a draft before, during and after a call. Two
sign-ins are an old session and the one a late answer reaches. Two handlers are what
it takes for one to overtake another, and the theorems cover any number. Two
weeks are cut into one sprint or two, and an edit is answered with other lengths
than it asked for, and with more or fewer sprints. That the relation `Chunked`
has one answer, that of the loops, TLC evaluates (`ChunkedAssumption` of
`MCWizard`) for all gaps in up to three weeks, requests of up to three weeks a
sprint and a default of one or two. In
`review`, two mutations are every pair that can overlap on a row, one change by
others every cause of a page that is behind. `Symmetric` and `AnyItem` permute
rows, slots and items, which only name things; no run with a liveness property
uses symmetry.

Deadlock is checked but in `dialogs` and `screens`, where openings, clicks and
writes are counted and a behaviour may end. On the server, requests may wait
for ever (`Refuse` keeps the model from stopping: a server without requests is
not stuck).

## Fairness

`lifecycle` asks for weak fairness of each push's own steps only, not
of clicks, edits or crashes. The code justifies it: a push is one thread
running straight through; each call to QuickBooks has a 30 s timeout
(`workforce_qb_client.py`), each token call one of 10 s (`workforce_oauth.py`),
and the lock is tried, never waited for.

`client` assumes that fetches and calls are served and their callbacks run,
which is the network's timeout and the event loop; `FocusHeals` further
assumes that the user comes back to the window (`Focus`): the property says
what happens then, and without it nothing refetches (`refetchOnMount: false`).

`session` assumes the minute's poll (`setInterval`), an answer, a refusal or a
failure for the session's requests, and that a page that is being left is
loaded. It does not assume that a user acts, signs in or out.

`wizard` assumes that the requests of the handlers end, those of a page that was
left included. It does not assume a click: while the page stays, the flag comes
down by the handlers alone.

## The proofs

`TimesheetSyncProofs` proves, for any finite or infinite set of rows, runs and
developers and any bounds that satisfy `SyncAssumption`:

* `TypeCorrect`, the type invariant;
* `LockIsExclusive`: a push holds the lock exactly while `pc` is in `Critical`
  (`LockInv`), and takes it only when it is free;
* `Invariant`: `IInv` is inductive. `NoRepush` and `RecordedIsOwn` are not
  inductive alone: a push acts on what it read long before. `IInv` adds, per
  push, that what is queued is not yet synced (nobody else records Ids while
  the lock is held, `QueuedIsUnsynced`), that the answer in hand belongs to the
  head of the queue (`AckIsOwn`), that a submit's queue is stamped
  (`SubmitIsStamped`), that what is done and not missed has an Id
  (`DoneIsSynced`), and that QuickBooks and the stamps only know rows that were
  logged (`UnloggedIsBlank`);
* from it `SyncedRowsAreSubmitted`, `RecordedIdsAreOwn`,
  `ActivitiesAreAccounted`, and the action properties `NeverRepushed`,
  `StampedBeforePosted`, `ReportsAreTruthful`;
* `Refinement`: on Postgres, `Spec => ImplementsLifecycle`. Each action maps to
  a Log, Submit, Post, Record or Delete of the abstract rows, or to a stutter.

The argument of `Invariant` is rely and guarantee: `PushIsLocal` and
`PushGrows` say what a step of one push can do to what the others rely on,
`RowFrame` the same for the steps without the lock, and `OthersKeepInv` draws
the conclusion once for all other pushes.

Assumptions: the constants' `SyncAssumption`. `NoRepush`, `SubmitStampsFirst`,
`EachActivityAccounted` and the refinement are about Postgres, as stated in
them; `EachActivityAccounted` also about a network that loses nothing.

`WorkItemTreeProofs` proves, for any items, requests, bodies and statuses that
satisfy `TreeAssumption`:

* `TypeCorrect`, and `LinksNeverDangle` whatever requests race each other: a
  commit checks that its links refer to rows, a deletion clears the links to
  its row, and an id is never handed out twice (`items \subseteq issued` in
  `TypeOK` keeps a new id apart from the old);
* under `Alone`, at most one request in flight, `Invariant`: `IInv` is
  inductive. What it adds to the properties is `Pending`, what the commit to
  come will leave: a row whose links fit its type (`FitsType`) and the depth cap
  (`FitsDepth`), links untouched where the item is done or only its status
  changes, `completed_at` in step (`FitsStatus`), and everything that gates
  what is closed done after the commit (`ClosesLast`). The gate establishes it
  and, alone, nothing can undo it before the commit;
* from it `TreeIsFlat`, `CompletionMatches` (where no batch is used), and the
  action properties `DoneStaysFrozen` and `ClosesBehindChildren`.

* `ReopeningReachesTheEpic`, without `Alone` and for any bodies: unless a process
  dies, a reopened item leaves no closed parent or epic behind. The request that
  reopened it is the one that climbs, and `OneItemEach` says that what it reopened
  is one item, loaded again after its commit; nobody else's step puts a closed row
  above it without a gate that sees it open (`OthersOpen`);
* `ClosingReachesTheSubtasks`, under `Alone` and `Plain`: a story that closes and
  the epic it closes leave nothing open behind. The invariant is `SettledInv`:
  below what is done everything is done, or the request in flight is about to look
  at it (`Settled`), and a pending write changes nothing but what its body says
  (`WritesAsSent`). `Plain` excludes what makes it false: a batch does not
  refresh the parents of what it changes, a change of type may put an open
  subtask under a done story where the gate does not look, a crash comes between
  the commit and the look upwards. `tree_status` is `Plain`; the runs with
  batches and type changes do not state the property.

`Alone` is an assumption about the clients, not a fact of the code. Without it
the depth cap is lost: one request gives an item a parent while another gives
it a child, both checks pass, both commit. The done-freeze goes the same way.

`HoursLedgerProofs` proves, for any items, entries, requests, hours and
estimates that satisfy `LedgerAssumption`, with any scripts and crashes:

* `TypeCorrect`: also that remaining hours of tickets are never negative;
* `Invariant`: `IInv` is inductive for any number of racing requests. What makes
  a recompute right is spread over three stages and two other tables, so the
  invariant says what each stage may count on: a flushed change belongs to one
  request and to its items (`ChangesHeld`, `OwnEntries`), an estimate or a move
  does not write logged hours (`LoggedIsKept`), a request that is `clear` shares
  its items with no other (`ClearIsAlone`), and then what it loaded is still
  what is stored (`Fresh`) and what it is about to write is exact once its change
  of entries is committed (`Settles`, in `PendingIsExact`). The steps of other
  requests keep this because they touch neither its items nor entries on them:
  entries move only onto a request's own items;
* `Heals`, the action property `RecomputeHeals`, from it: drift of any origin is
  gone after the next recompute that runs alone on its item;
* `HoursAddUp`: under `Alone`, `LoggedIsSum`, the sentence of the source, is an
  invariant. Without `Alone` it is false (two sums that miss each other).

* `EpicsAddUp`: when nothing but requests on stories and subtasks changes hours,
  one at a time (`OnlyRequests`, which the instance of the run `hours`
  satisfies), `EpicAddsUp` is an invariant. It is far from inductive: a roll-up
  is computed in a second transaction, stored in a third, and refreshes at most
  the epics of the former and the new parent. `RollInv` says that links fit the
  three levels (`LinksFit`), that a request is about one item and knows the link
  it changes (`OneJob`), that entries are off the epics (`OffEpics`), and that an
  epic adds up unless a request still awaits its refresh (`Awaits`), in which case
  what it is about to store is the sum (`Stored`). The work is in the frame
  lemmas: an epic that is not among those refreshed has the same items below it,
  with the same columns, before and after.

The proofs treat the SUM as a function of what is summed: equal hours give
equal sums. What a sum is numerically is an induction over a set and not needed.

`PlanningWizardProofs` proves, for any calendar of work weeks, any default length
of a sprint and any number of handlers:

* `Invariance`: `IInv` is inductive. `SpinnerHasHandler` alone is not: a
  handler that ends must be the only one of its page that the spinner waits for
  (`OneAsks`; handlers of a page that was left may run beside it). Nor is
  `SprintsMatchTickets`: an answered edit replaces the roadmap, so an edit in
  flight must carry lengths the user asked for, the newest his last
  (`EditsFit`), and between edits the roadmap must be a cut the server makes for
  them (`RoadmapFits`). Even `TypeOK` needs `EditsFit`, for what an answer will
  store;
* from it `TypeCorrect`, `Spinner`, `SprintsMatch` and `OneCommit`. The last is a
  promise of each page: a commit that a page left behind is not in it. A frame
  lemma for each part (`SpinnerFrame`, `AsksFrame`, `EditsFrame`) says what a
  step must leave alone to keep it, so that each action shows only what it
  disturbs.

`SessionProofs` proves, for any users, tokens, versions, failures and countdown:

* `Invariance`: `IInv` is inductive. `SessionsAreWhole` is not alone: a sign-in
  that is answered must find nobody signed in, or the token of one user meets
  the name of another, and the `/me` of a loading page must ask for the token
  the page holds (`CallsFit`, `LoadingWaits`). `BothWhole` says the same of the
  tab and of the browser's storage, which another tab writes;
* from it `TypeCorrect`, `WholeSessions` and `WarningsEnd`;
* `DemandsAreTheServers`: the forced password change is on the screen only for a
  user of whom the server demands it, unless the server made a change that this
  page is not told of (`untold`: its answer was lost, or the page before a reload
  had sent it and `/me` was answered first). A second invariant, `DemandInv`,
  follows the demand on its way: while the page is told of every change, a demand
  in an answer under way is one the server still makes (`Answered`), and until
  somebody has a token nobody can have changed what is demanded of it
  (`NobodyHasToken`).

`ReviewWeekProofs` proves, for any rows and mutations:

* `SubmitterSees` and `SubmitsAlone`, from `LockedWhileSubmitting`: a submit
  whose view is there keeps the modal's lock up, until that submit ends or the
  user walks back through the header, which the lock does not cover (`left`).
  `TeardownKept` says what a view that goes away may do to it;
* `PageComesToBeTheWeek`: at rest the review shows the server's rows, however
  answers, refetches and an admin's push overtook one another. At rest means
  that the entry is not still to be fetched: a review shown again after an
  invalidation off the screen is not (`fetch = "due"`). The invariant `PInv` says
  what was fetched, and what a fetch under way brings, is the server's week
  (`CopiesFit`), unless something changed unseen since (`blind`) or a success is
  answered and about to fetch again (`Told`);
* `EditorsStay`, the action property `EditorsKept`: what closes an editor is its
  user, its own accepted save, the departure of its row or of its client's rows,
  or the error card of a fetch that failed.

`QueryCacheProofs` proves, for any hooks, pages, calls and failing fetches:

* `CacheInvariance`: the invariant of every cache, whatever its hooks: what was
  fetched the server had, what was acknowledged it has, forms that wait have one
  call under way;
* `OwnWritesAreFlagged`, for hooks that keep to `HooksCover` (each query written
  is invalidated, after the answer where the write was anticipated or a fetch
  cancelled, and the bundle together with what is copied from it): an entry that
  lacks a write of the tab's own is marked stale, is being fetched, or waits for
  a call to settle. `StaleInv` says it of the fetches under way too: a fetch that
  was read before the write is followed by another or cancelled;
* `PhantomsAreFlagged`, for hooks that keep to `HooksForget` (what was anticipated
  is invalidated however the call ends, or calls come one at a time and the
  snapshot is exact): no entry taken for fresh shows what the server refused.

`ScreensProofs` proves of the dialogs, controls and panels, for any subjects, values, openings, clicks, calls and
answers, and for any table:

* `DialogInvariance`, and from it, each for the rows that satisfy a condition on
  what the dialog locks, keeps and clears: `OneFormOneThing` (`MakesOne`),
  `AnErrorCostsNoText` (`Forgiving`), `CallsKeepTheirSubject` (`Aimed`) and the
  action property `AnotherOpeningIsLeftAlone` (`Polite`). The condition is the
  design rule that a dialog must follow to keep the promise;
* `ControlInvariance`, `BusyWhilePending` for controls whose mark is that of
  their own calls, `RestIsTruth` for those whose every answer fetches again;
* `PanelInvariance` and `PanelsTellTheTruth`, for panels whose copies are kept by
  the choice and that drop superseded answers.

TLC evaluates the conditions on this client's tables: `HooksAsProved` in
`MCClientCache`, `DialogsAsProved`, `ControlsAsProved` and `PanelsAsProved` in
`MCDialogs`. A dialog that is off the list of the known offenders keeps its
promise because of its row, not because three openings were too few to break it.

Of the board `ScreensProofs` proves, for any items, sprints and bounds:

* `BoardInvariance`: in the table no link dangles and a parent has no parent, and
  the sprint a row names exists (`TreeFits`); the page's copy is of one level
  however old it is (`ListFits`), since it was the whole table once; a form that
  nobody overtook is on a copy that is the table, and its links are those the
  server would take if they were when it was opened (`FormFits`);
* `FormsMatch`: then both pickers offer exactly what the server accepts. The page
  also looks for a cycle, which the server does not. `NoCycle` shows that on such
  a tree this refuses nothing more: the walk up from a target without a link
  ends there. The walk is a function on the naturals, and the lemma is by
  induction (`Steps`, from the library's facts on well-founded relations);
* `NothingIsHidden`: an item below another is drawn under it because that one
  cannot be below a third (`OrderedOnce`), and an item belongs to one group.

Of the role editor it proves, for any catalogue, rows shown and roles that
`CatalogueAssumption` is true of:

* `RoleInvariance`: `Readable` is inductive. The grants in the form are those of
  boxes, and with a row's write grant they give its read grant, other than by
  full access, which the next click may take. A click that sweeps a read grant
  takes the write grant with it; a sweep of another box or group leaves what
  the row is read by (`SurvivesSweep`);
* `BoxesTell` and `ClicksAreLocal` from it. What is specific to the catalogue is
  in four conditions: nothing but the row above, the group and full access gives
  a box (`GrantsNest`); every box has a key that tells it from the others
  (`BoxesDiffer`); a row with rows below it has no keys but theirs
  (`ParentsAreRead`); the roles that are opened are `Readable`. The lemmas turn
  prefixes of keys into those sets: what a grant gives (`HeldAbove`), what a
  sweep takes (`SweepIs`), when a box is ticked (`TickedTells`).

TLC evaluates the conditions on the catalogue of the source (`RoleCatalogue`). A
tab added there that breaks one, such as a key two boxes share, is found by the
run before the theorem is relied on. A role written past the editor need not be
`Readable`, and the theorems say nothing of one.

What each takes for granted is the `ASSUME` of its module: bounds are naturals,
model values are apart from data. TLC evaluates all of them in the runs.

Covered by the proofs and by no run: `MutualExclusion`,
`SyncedIsSubmitted` and `EachActivityAccounted` (`TimesheetSync`), `NoDangling`,
`DoneIsFrozen` and `CompletedMatchesStatus` (`WorkItemTree`).

Only model-checked:

* liveness, out of the prover's reach: `LockReleased`, `FocusHeals`,
  `CapsConverge`, `LoadingEnds`, `GeneratingEnds`. Every other property of the
  runs is stated by a theorem.

## Where the code and its texts disagree

None of these has a run: the runs show what holds. Each was met while modelling
and is in the model as the code has it.

The push and the hours:

* a POST applied by QuickBooks whose answer is lost is repeated by the next
  sync, two TimeActivities for one row (`workforce_qb_client.py:182`, against
  `WORKFORCE_INTEGRATION_SETUP.md:126`, "never double-pushes");
* an edit granted to a draft is applied after a submit froze it, and QuickBooks
  keeps the old hours (`developers.py:432`, against `:359` and `:388`);
* two requests on one ticket each sum its entries before the other commits; the
  ticket keeps a sum without one of them until its next entry is logged, edited
  or deleted (`workitems.py:2002`, against `:2000`, "always exactly the sum");
* `repair-hours` takes epics for tickets without entries and sets their logged
  hours to 0 until the next rollup (`workitems.py:3950`, against `:166`);
* the dedupe script deletes by the ids it chose at its start, so also a row
  synced since (`dedupe_time_entries.py:207`, against `:23`);
* tagging a project makes the week's earlier rows eligible
  (`workforce_sync.py:474`, against `workforce.py:656`);
* two hierarchy checks in flight together nest three levels
  (`hierarchy.py:146`, against `:26`);
* a batch that reopens a subtask leaves its story done, and the epic can then
  be closed over it (`workitems.py:1690`, against `:1174`);
* `recompute_epic_hours.py` sums the stories of an epic and not their subtasks,
  although `update_epic_hours` (`workitems.py:164`) sums both;
* the dedupe script resyncs tickets and not their epics
  (`dedupe_time_entries.py:214`);
* hours logged on an epic, or an estimate set on it, replace its totals until
  its next rollup (`workitems.py:2002`, `:1295`);
* a subtask that becomes a story refreshes nothing above its old parent
  (`workitems.py:1488`);
* deleting a ticket or a project deletes its synced rows (`workitems.py:1727`,
  `projects.py:879`; `REVIEW_RULES.md:33` forbids it);
* without the advisory lock (SQLite) the filter on `workforce_entry_id IS NULL`
  does not make concurrent runs idempotent, as `workforce_sync.py:38` says;
* an administrator refused because a developer's submit runs never gets the
  email that was promised (`workforce.py:800`);
* a submitted row that missed its week is never retried
  (`timesheet_service.py:424`);
* an edit that found an item open changes it after another request closed it
  (`workitems.py:1155`), and a story ends done over a subtask reopened at the
  same time (`workitems.py:1161`), or over one whose process died between its
  two commits (`workitems.py:1500`);
* a batch that reopens an item leaves its `completed_at` (`workitems.py:1646`);
* a body with a type and "done" is gated as the old type (`workitems.py:1177`);
* nobody checks what refers to an item whose type changes
  (`workitems.py:1239`), and a subtask may have no parent (`hierarchy.py:89`).

The client's cache and session:

* a bundle that was read before a newer answer is copied over it and marks it
  fresh; children seeded from a stale bundle look fresh
  (`useProjectDetailData.ts:109`);
* keys with a number (`useProjectsAdmin.ts:225`, the burndown, the template, the
  check for an analysis) are never met by invalidations with a string;
  `deleteProject` leaves the caller's own tasks and capacity;
* a refetch on focus while an optimistic call is in flight brings the old value
  back, for all the `cancelQueries` before it (`useWorkItemMutations.ts`);
* a late answer about capabilities, or a late 401, of the previous session is
  applied to the present one (`AuthContext.tsx:105`, `api.ts:32`); the cache is not
  cleared on sign-out;
* a page reloaded while its change of the password runs can be told by `/me` that
  one is still due; the server then makes the change (`auth.py:459`), and the page
  keeps demanding one until it is loaded again;
* the idle warning speaks of 25 minutes of inactivity (`App.tsx:88`) and comes
  after 23 hours (`AuthContext.tsx:65`); pressing the mouse on its "Logout Now"
  counts as activity and takes the warning away before the click.

The client's forms:

* after a partial failure every row is stamped, so nothing counts as
  submittable and Submit is disabled (`ReviewSubmitView.tsx:406`), while the
  banner says "click Submit again to retry" (`:1441`, and
  `timesheet_service.py:410`);
* the header's back button works while the submit runs, against the comment on
  the lock (`CapacityModal.tsx:42`);
* the wizard's "Save & close", which says it can be resumed at any time
  (`useAIPlanning.ts:397`), leaves no way back to what was generated; a late
  failure of a preview opens the way to a second commit; the timer that closes a
  finished wizard closes the next one; a rebalance that failed leaves the
  lengths it asked for, and the commit sends them;
* leaving the board while a commit runs and returning lowers `isGenerating`
  (`ProjectBoard.tsx:70`), so the wizard opens again and a second commit runs
  beside the first;
* a sprint that the user lengthens beyond a gap or the last week is shown so and
  goes back with the answer (`parser.py:159`);
* the week's review is "refetched after Submit" (`useMyTimesheet.ts:4`) only while
  it is on the screen: save or submit, Back, the answer, and Review again shows
  the old rows until the window is focused (`queryClient.ts:100`);
* a refetch of the review that fails in the background throws away every open
  editor and the form with its text (`ReviewSubmitView.tsx:385`);
* on a compact drawer, the late success of one ticket re-points or reopens the
  drawer for another (`useMyTasks.ts:173`);
* settings typed while a save runs are marked as saved (`usePulseSettingsForm`);
* retyping a parent strands its children, whose later edits are refused; a
  cleared picker keeps showing its old link; a save into a sprint deleted in
  between fails on the foreign key;
* `canWriteTracker` guards dragging on the board by a comment
  (`ProjectBoard.tsx:47`) and not on the card;
* hours on a kanban card can never show: the component returns nothing while the
  total is 0 and fetches it only when expanded (`components/TimeEntriesTable.tsx`);
* legacy roles with grants of single sub-capabilities give access that no ticked
  box shows; two administrators who save a role replace each other's set; a
  rename and the grants are two calls of which the second may fail.

## Not modelled, and why

* Who may call what on the server: the modelled handlers assume the capability
  check passed; the check itself is in `RoleEditor`.
* The other columns of a row, descriptions, classes, customers' names: they
  change nothing in the control flow. Deletion of a developer (which sets
  `developer_id` to NULL) is left out: it only removes rows from every query.
* Weeks are numbers; the conversion from dates is not modelled.
* Work items are also created by the roadmap and PRD imports and by the
  conversion of a personal task, and deleted with their project: not in
  `WorkItemTree`. Projects: a link to another project's item is refused like
  one to no item. `started_at` and assignees do not touch the rules of the tree.
* In `HoursLedger`: changes of type and status, test cases (no epic sums them),
  and imports. A body with an estimate and a link at once is two requests.
  `recompute_epic_hours.py` is a one-off script and is left out. The
  five-second duplicate check only refuses: the model allows every entry it
  would. Edits of submitted entries are refused by `TimesheetSync`'s gate, and
  `HoursLedger` allows them too: its properties do not need the gate.
* Token rotation with Intuit and the pool of database connections: what decides
  there is outside the repository.
* Capacity and assignment history, the dependency graph, calendar sync, the MCP
  server's codes, personal tasks on the server: state machines of their own,
  smaller than those modelled; see the plan.
* Parsing, prompts, email text: no state machine.
* In the client: what fields validate, what charts and reports draw, layout
  primitives, generated API types, the query library's garbage collection by
  time and its retries. Queries influence each other only through the bundle,
  and two mutations only through what they both invalidate: a behaviour of
  `QueryCache` follows one of each. In `Session`, the remembered path and a
  password reset by an administrator. In `BoardTree`, statuses and hours, and
  which set of rows a filter leaves: any. In `RoleEditor`, two administrators
  at once.

## Plan

What would add most next:

1. `AssignmentSpans`: open and closed spans of a ticket under concurrent
   transfers and status changes, and the weekly capacity over them. Theorem: at
   most one open span when alone.
2. `WorkforceConnection`: connect, callback, state tokens, refresh, disconnect,
   customer cache; composed with `TimesheetSync` through the failed refresh and
   the vanished row.
3. `WorkItemTree`: imports and the deletion of projects.
4. `WorkWeek` and the dedupe clustering as pure algorithms against reference
   definitions; the dependency graph; calendar sync; project key prefixes.
