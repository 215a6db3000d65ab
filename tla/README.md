# A verification project for the Conti-Newty Workbench

TLA+ models of the server of the Workbench (`src/src/`, TypeScript) and of the one
page of its front end that keeps up with a changing server
(`src/apps/web/src/pages/workspace/Session.tsx`), the TLC runs that check them and the TLAPS proofs about them.  `PROJECT.json` is the
index: components, runs, the source lines every definition stands for, hazards,
findings and theorems.

The server is one Node.js process: Express routes, Socket.IO handlers, a
scheduler, in-memory maps, and Prisma over SQLite or PostgreSQL.  JavaScript runs
without preemption from one `await` to the next, so concurrency is the
interleaving of handlers, timers and background executions at their `await`s,
and of database transactions at their statements.  Maps in memory are lost when
the process ends; rows stay.  Everything below is about those two kinds of step.

## Inventory

| Component (under `src/src/`) | State it keeps | Operations | What makes it correct |
|---|---|---|---|
| Driver control, `modules/sessions/session-service.ts` | rows `LiveSession.currentDriverId`, `status`; `SessionParticipant.role`, `status`; the event history | create, join, request, approve, hand off, pause on disconnect | one driver, agreeing with the roles; control moves only from its holder; a disconnect promotes nobody |
| Session runner, `modules/sessions/session-runner.ts` | map of control objects (paused, cancelled, redirect queue); executions; row status; redirect rows | start, pause, resume, cancel, redirect; the loop over agent turns | pause and cancel reach what runs and stop it soon; a redirect is used once; a cancelled execution ends |
| Agent tasks, `modules/brain/agent-runner.ts`, `api/tasks` | `AgentTask.status` | run, cancel | the answer of a run and the row agree; a cancelled task is not shown as completed |
| Turn queue, `modules/brain/thread-turn-queue.ts` | queue per thread, set of running threads | enqueue, process, clear | one turn per thread at a time, FIFO, every promise settles |
| Socket server and session events, `realtime/socket-server.ts`, `session-events.ts` | rooms, sockets' sessions | join, leave, the operations of a session, disconnect, broadcast | the last event of a session reaches whoever is in its room |
| Streams and presence, `realtime/` | active streams, presences by socket | start, append, complete, expire; join, leave, disconnect | a late joiner sees the stream that is active |
| Change review, `modules/changes` | `ProposedChange.status`, the file | propose, approve, reject | a decision is final and agrees with the file; the reviewer sees the whole change |
| Workspace files and imports, `modules/storage`, `api/files` | files, `IngestedItem` hashes | put, delete, import | the hash is that of what was imported last |
| Skills, `modules/skills` | `SkillEntry` versions, reviews | propose, edit, confirm, reject, supersede, retrieve | the newest review explains the status; what was replaced has a successor |
| Tribal memory, `modules/tribal-memory` | entries with lineage, candidates, ingested items | create, edit, delete, supersede, review, distill | lineage without gaps; a confirmation leads to its entry; facts are proposed once |
| Connectors, `modules/connectors` | connections, `remoteModifiedAt`, `lastSyncedAt`, files | connect, sync, schedule, disconnect | no watermark is ahead of what was stored |
| Invites, join codes, memberships, `api/invites`, `api/orgs`, `middleware/auth-middleware.ts` | `consumedAt`, `useCount`, memberships, `lastWorkspaceId` | invite, accept, decline, redeem, revoke, visit | an invite is used once; a code not above its cap; who was admitted has the rows |
| Session page, `apps/web/.../Session.tsx`, `lib/socket.ts` | the timeline, the socket, calls in flight | open, click, deliver, drop, close | an event is shown once; the last one is shown |
| App generator, `modules/app-generator` | running sandboxes | generate, start, stop | every server started is stopped |
| MCP server, auth, storage, providers | keys, sessions, files | request and response | outside a state model (see below) |

How they interact: the routes of `api/sessions` call driver control for every
right and the runner for every action; a socket's disconnect calls
`pauseForDisconnect`, which writes the row the runner also writes but not the
runner's flags; the runner runs each turn through `AgentRunner.runTask` and reads
confirmed skills when it starts; redirects are distilled into skill candidates;
connectors and imports write files and ingested items, which the distiller reads; its
candidates are reviewed into tribal memory; whatever a session appends to its
history the socket server broadcasts to the pages, which also read it by GET.

The hard behaviours are listed one by one, with their lines, in `PROJECT.json`
under `hazards`: races of transactions on one driver, check-then-act across an
`await`, two executions of one session, flags and queues read at different
`await`s, memory lost while rows stay, statements that fail halfway.

## Modules

| Module | Stands for | Relation |
|---|---|---|
| `DriverToken` | what the driving right promises: an indivisible token | abstract specification |
| `DriverControl` | `session-service.ts`: rows and transactions | implements `DriverToken` |
| `MCDriverControl` | instance of `DriverControl` for TLC | extends it |
| `SessionRunner` | `session-runner.ts`: handlers, control objects, executions | |
| `MCSessionRunner` | instance of `SessionRunner` for TLC | extends it |
| `SessionRunnerProofs` | theorems about `SessionRunner` | extends it and `TLAPS` |
| `SkillLifecycle` | `skill-service.ts`: rows and transactions | |
| `MCSkillLifecycle` | instance of `SkillLifecycle` for TLC | extends it |
| `SkillLifecycleProofs` | theorems about `SkillLifecycle` | extends it and `TLAPS` |
| `TaskTurns` | `agent-runner.ts`, `thread-turn-queue.ts`, `task-router.ts` | |
| `MCTaskTurns` | instance of `TaskTurns` for TLC | extends it |
| `TaskTurnsProofs` | theorems about `TaskTurns` | extends it and `TLAPS` |
| `TribalMemory` | `tribal-memory.ts`, `knowledge-candidate-service.ts`: entries, lineage, reviews | instance for TLC: `MCTribalMemory` |
| `TribalMemoryProofs` | theorems about `TribalMemory` | extends it and `TLAPS` |
| `KnowledgeDistiller` | `knowledge-distiller.ts`: passes over ingested items | instance for TLC: `MCKnowledgeDistiller` |
| `WorkspaceFiles` | `change-service.ts`, file routes, `git-importer.ts`, `upsertIngestedItem`: one file and its writers | instance for TLC: `MCWorkspaceFiles` |
| `WorkspaceFilesProofs` | theorems about `WorkspaceFiles` | extends it and `TLAPS` |
| `OrgAccess` | invite, organization and workspace routes, the workspace check: tickets and memberships | instance for TLC: `MCOrgAccess` |
| `OrgAccessProofs` | theorems about `OrgAccess` | extends it and `TLAPS` |
| `ConnectorSync` | `drive-connector.ts`, `slack-connector.ts`, `connector-scheduler.ts` | instance for TLC: `MCConnectorSync` |
| `IngestionProofs` | theorems about `ConnectorSync` and about `KnowledgeDistiller` | extends both and `TLAPS` |
| `SessionPage` | the session page composed with the server's handlers and broadcasts | instance for TLC: `MCSessionPage` |
| `LiveSessionProofs` | theorems about `DriverControl` and about `SessionPage` | extends both and `TLAPS` |

`SessionPage` and `KnowledgeDistiller` name their specifications `PageSpec` and
`DistillSpec` (and so their parts), so that a module of proofs can extend them beside
another component.

Definitions that model nothing of the program but a plausible error in it
(`SwapBlindly`, `WakeUpAnyway`, ...) stand before the definition they could
replace; the `mutants` of `PROJECT.json` replace one by the other and the named
property must then fail.  They are how we know that a property can fail.

### DriverControl

A session has the variables `driver`, `running` (the status is RUNNING), `role`
and `conn` (one participant row per user) and `requested` (who has a
DRIVER_REQUESTED event).  An approval, a handoff and a disconnect are database
transactions with several statements; `tx[t]` says where transaction `t` is.
Statements interleave as READ COMMITTED lets them: reads see what is committed,
`Demote`, `Promote` and `Mark` write a participant row and take its lock
(`Holds`), writes are published together by `Commit` (whose guard, in `Swap`, is
the `updateMany ... where currentDriverId`) or undone by `Abort`.  That is
PostgreSQL's default; under SQLite, which runs one writing transaction at a time, the
behaviours are those with one element in `Txs`, a subset.  `createSession`,
`joinSession` and `requestDriver` decide with a single write and are one action.
`RunnerSetsStatus` stands for the writes of the runner.  `asked` is a history
variable, used by one property and by no guard.

### SessionRunner

One session.  `current` is the map entry, `ctrls` the control objects with their
identity, because an execution keeps using its object after the map has
forgotten it, `reqs` the handlers that wait at an `await` and `exec` the
executions.  One action is the code from one `await` to the next:
`StartFlags`, `StartWrite`, `StartLaunch` are the three pieces of `start`;
`RedirectCall` and `StoreRedirect` those of `submitRedirect`; an execution goes
through `Loop`, `WakeUp`, `MarkRedirected` (once for each queued redirect),
`BeginTurn`, `EndTurn` and ends in `CancelSession`, `CompleteSession` or
`WriteFailed`; each of the first two is two statements, and when the second throws the
catch writes FAILED over what the first has written (`EndFails`).  Every statement may throw (`Fail`, `RejectRequest`); the process
may end anywhere (`Crash`).  `late` and `overlapped` are history variables.

Left out on purpose: the `AgentTask` row an execution writes, the event and audit rows (nobody decides by them), the
driver check of the routes (composition of the plan).  `NextRedirect` covers the
two event appends around the prompt as one step; both can only throw.

A disconnect is a handler like the others: `DisconnectCall` has found the session
running, `WriteStatus` is the write of `pauseForDisconnect`.  `DriverControl` has
the statements in between; here they can only make the write not happen.

### SkillLifecycle

The entries of one workspace: `status`, `content` (all editable fields as one
value), `old` (the version an entry supersedes) and `review`, the newest
`SkillReview` of each entry with its place in the order of recording (`clock`).
`tx` holds the edits and reviews in flight.  `confirmSkill`, `rejectSkill` and
`supersedeSkill` are transactions of four statements or groups of inserts:
`BeginReview` reads, `Update` writes the status and keeps the row locked,
`Record` inserts, and `Confirm`, `Reject`, `Supersede` commit.  `updateCandidate`
is `BeginEdit` and `WriteEdit`, outside a transaction.  Any of them may fail
anywhere (`Abort`).  Left out: the stable id, which an entry inherits from the one
it supersedes and nothing compares; the audit row, whose failure the code ignores;
retrieval, which reads.

### TaskTurns

`status` is the `AgentTask` row of each task, `pc` and `result` its run, and
`queue`, `running`, `history` are the three maps of `ThreadTurnQueue`.  A task is
created (`CreateTask`), then refused for want of a provider (`RefuseTask`), run by
the request itself (`RunTask`) or enqueued (`EnqueueTurn`, which starts it when
its thread is quiet).  `runTask` is cut at the statements that write the row:
`Begin`, `Work` (the turns of the agents), `Complete` or `Fail`, `Return`; each
may throw, and `End` is what the queue's `try/catch/finally` makes of it,
`processNext` included.  `CancelTask` may come at any time, `Clear` forgets the
maps and not the runs, `Restart` forgets everything but the rows.  `asked` and
`clears` are history variables.  Only tests call the queue at this commit; the
create route runs its task past it, and the model has both.  Left out: events,
broadcasts, citations, and the task of a live session, which several turns share.

### TribalMemory

`status`, `old` and `from` are the rows of `TribalMemoryEntry` (status,
`supersedesId`, `sourceCandidateId`), `verdict`, `target` and `promoted` those of
`KnowledgeCandidate`.  None of these handlers uses a transaction, so `job[j]` says
between which two statements a handler stands: `confirmCandidate` is
`BeginConfirm`, `ReadTarget`, `Retire` (the first write of `supersedeEntry`),
`Promote` (its second, or `createEntry`) and `RecordConfirmed`; `rejectCandidate` is
`BeginReject` and `RecordRejected`; `updateEntry` is `BeginEdit` and `WriteEdit`,
which writes back the status it read.  `Fail` ends a handler anywhere.
`DeleteEntry` nulls the references of its successors, as the schema's foreign key
does.  `broken`, `edited`, `disputed` are history variables: the exceptions the
properties make.  Left out: text, tags, search, export, audit rows; `archiveEntry`,
which nothing calls.

### KnowledgeDistiller

`distillIngestedItems` reads the candidates once (`ReadCandidates`) and then works
from that snapshot, `pass[d].known`, while it asks a model about each item
(`Extract`), merges a fact it knows (`Merge`) and proposes one it does not
(`Propose`).  A `Fact` stands for all texts the distiller takes to be the same.
`Decide` is a review, which may fall anywhere.  The similarity measure, the model's
answers and the target a new candidate supersedes are left out (`TribalMemory`
leaves that target open).

### WorkspaceFiles

One file with its content as a sequence of lines.  A proposal reads it
(`BeginPropose`) and is created some awaits later (`CreateChange`) with a diff
computed line by line (`LineDiff`); an approval checks PENDING (`BeginApprove`), writes
the file (`WriteChange`) and writes the decision (`Record`).  An import writes the
file (`WriteImport`), looks for the row (`Lookup`) and inserts or updates it.  Users
edit and delete the file at any time, and each request may end after any statement
(`Fail`).  Left out: paths and their validation, archives, the fetching of a
repository.

### OrgAccess

`stage` is how far `POST /orgs` and `POST /workspaces` got, `org` and `ws` the
memberships, `last` who has the workspace as `lastWorkspaceId`, `ticket` the invites
and join codes and `req` the requests.  Accepting and redeeming are checked before
they begin (`BeginAdmission`) and then run as one transaction: `Take` is the
`updateMany` that looks at the ticket again and locks it, `Find`, `CreateMember` and
`CreateSeat` are the lookups and inserts, which wait for another transaction's
insert of the same key (`KeyFree`), `Commit` publishes, `Fail` undoes.
`requireWorkspaceRole`, which gives every member of the organization a row in the
workspace on the first visit, is `BeginVisit`, `Seat` and `Remember`: it commits
statement by statement beside the others.  A bulk invite (`BeginBulk`) is a loop of
upserts without a transaction: `BulkInvite` is one user of it, `AnswerBulk` its answer,
and a `Fail` on the way answers 500 and keeps the memberships of the users before.
Left out: the role a ticket carries, previews, lists, mail.

### ConnectorSync

Files picked from Drive, each known by its version, and one Slack connection, whose
messages are known by their order.  A sync is one call or statement at a time.  For
Drive these are `List`, `FetchMeta`, `Recheck`, `FetchContent`, `WriteFile` and
`WriteRow`, for each connection listed.  `connectFiles` is a handler like them, and as
many as there are slots run at once: `StartPick`, `PickMeta`, which takes the path from
the name the file has by then and the target asked for, `FetchContent`, `WriteFile`,
`FindRow` and `WriteRow`.  `FindRow` looks for any row of the file, and a row it finds
keeps its `brainPath`, whatever path the content was written to; two that find none make
two rows.  `setup` says which paths a file may get: another after a rename or with
another target, the same as another file of its name.

For Slack they are `ReadConnection`, `FetchChannel` and `WriteChannel` for each
channel, then `Mark`.  A first sync asks for the last seven days, which is any part
of the past; a call returns `Limit` messages; the threaded format drops a root that
carries its own `thread_ts` and the replies to it (`Shown`); the file of a channel is
replaced by what was fetched (`files`).  `ConnectSlack` creates the row or gives the
one there is another list of channels and another format, and leaves its mark and
target alone.  That a reply comes back from the call that fetches a channel, and that a
root may carry its own `thread_ts`, is taken from `channelToMarkdown` and its tests;
Slack is not in the repository.

The world edits and posts meanwhile (`EditRemote`, `Post`).  Channels fail alone
(`FailChannel`), a connection as a whole (`FailDrive`, `FailSlack`, `WriteFailure`), a
process anywhere (`Crash`).  The scheduler is a sync that may start at any time: it
decides by a row that is written when a sync ends, so its ticks do not keep syncs apart.
`disputed`, `astray` and `left` are history variables, and so is `missed` of a sync.
Left out: the tokens, of which only a failed refresh is seen, and the rows of ingested
items.

### SessionPage

`history` is what `loadSessionDto` lists, `job` the handlers and executions that
broadcast.  A handler appends its event, reads the session again (`Reread`) and
broadcasts whatever event is last; the runner broadcasts the event it appended.
A disconnect that finds another driver by then appends nothing and reads and broadcasts
all the same (`DisconnectTooLate`), so an event may go out twice.
The page joins the room (`Open`, `Join`, `EnterRoom`), is handed events in order
(`Deliver`), clicks (`Click`, `PostDone`), loads the session (`ServeGet`) and replaces
its timeline by the response when it arrives (`Apply`).  The socket may drop
(`Drop`); the page does not join again.  `unsaid` and `missed` are history
variables.  Participants, status and discussion messages are left out.

## Runs

| Run | Question | Result |
|---|---|---|
| `driver_control` | can two transactions leave two drivers, or move the driver against its holder? | no: 3 users, 2 transactions, all interleavings |
| `session_runner` | with two executions: are flags seen, is a redirect used once? | holds: 2 executions, 2 turns, 1 handler at a time, 1 redirect |
| `session_progress` | does a cancelled execution end, is a queued redirect read? | holds: 1 execution, 2 turns, 2 redirects |
| `resume_second_execution` | does resume start a second execution? | violated: see Findings |
| `skill_lifecycle` | do reviews explain decisions, is history kept? | yes: 3 entries, 2 edits or reviews at once, 4 reviews |
| `task_turns` | do turns run one by one, in order, and are they answered as the row says? | yes: 3 tasks, 1 thread, 1 clear, any restarts |
| `tribal_memory` | what lineage and verdicts do overlapping, failing reviews leave? | gaps and revivals only where a failure or an edit explains them |
| `knowledge_distiller` | what do two passes with one snapshot each leave? | duplicates and lost sources only of overlapping passes, second merges or rejections |
| `workspace_files` | do decisions, diffs and hashes agree with the file? | yes, unless two reviews or two imports overlapped or one broke off |
| `org_access` | can tickets admit too many, or a membership appear or be lost? | no: 2 users, an invite, a code with cap 1, 3 requests, of which one may be a bulk invite |
| `connector_sync` | can a watermark pass what was not stored? | only for the reasons the properties list: 2 syncs, 2 files, 2 paths, 2 rows, 2 versions; 2 channels, 2 messages |
| `session_page` | does a page show every event once, and the last one? | once, yes; the last one, with the exceptions the property lists |

Properties of driver control.  `SingleDriver` is the agreement of the roles with
`currentDriverId`.  `HandoverIsExclusive` says that once the giver's row is
written nobody else can move the driver, which is why the compare and set at the
end cannot fail for a transfer that got that far from the actual driver.
`TokenSpec` is the refinement of `DriverToken`: an offer for every open transfer.

Properties of the runner.  `ControlIsReachable`: as long as no start ran into
another start or execution there is one execution and the map leads to its
control.  (It is conditional because the unconditional form is false:
`resume_second_execution` shows how.)  `StopsWithinOneTurn` counts turns begun
after a stop.  `RedirectTakenOnce` holds even when executions share a queue.
`CancelledExecutionEnds` and `QueuedRedirectIsRead` are the liveness properties.

Properties of the skill lifecycle.  `ReviewExplainsStatus`: whoever reads the
newest review of a confirmed or rejected skill reads its status, because a review
is recorded while its row is locked.  `SupersededHasSuccessor`: what was replaced
has the version that replaced it.

Properties of tasks and turns.  `OverlapIsBounded`: one turn of a thread at a
time, and one more for each `clear()`; the bound is reached and never passed, also
after the turns that overlap end in any order.  `HistoryIsFIFO`: without a `clear()`
the log is what was asked, in order, without the runs that threw.
`RowMatchesResult` and `RunningHasRun` relate the answer, the run and the row under
failures of every statement.  `TurnsSettle` is liveness: no failure of an earlier
turn strands the ones behind it.

Properties of tribal memory.  `SupersededIsReplaced`: whoever reads a SUPERSEDED
entry finds its successor, unless the second write of the supersession never came or
the successor was deleted.  `ReplacedIsRetired` is the converse: an entry with a
successor is out of force, unless an edit had read it before.  `PromotionIsRecorded`:
an entry made from a candidate is the one that candidate names, except after two
reviews or half of one.  Each exception is reached: without it TLC shows the
behaviour at once.

Properties of the distiller.  `DuplicatesAreExplained` and `SourcesAreKept` bound what
a stale snapshot may do: duplicates need overlapping passes or a rejection, and a
source is lost only by a second merge of one pass or by overlapping passes.

Properties of files.  `DecisionMatchesFile` and `DecisionIsFinal` relate the row to
what happened to the file; `DiffShowsChange` checks `computeLineDiff` by reading both
contents back from it; `RowMatchesImport` the hash the next import compares with.

Properties of access.  `TicketsAreNotOverspent` counts requests that were told to
have joined against uses and cap.  `MembershipsAreAccountedFor` goes both ways: those
requests have their rows, and every row has such a request, a bulk invite, a visit or
the founding behind it.  `ClosedTicketAdmitsNobody` is the point of the second look
inside the transaction.

Properties of connectors.  `RowIsNotAheadOfCopy`: the next sync skips a file when
`remoteModifiedAt` is current, so it must never be newer than what lies at the row's
path.  The order of the statements sees to that (metadata before content, content before
the row) through edits, failures, crashes, overlapping syncs and connects, of which two
may make two rows of one file.  It does not hold for a row that `connectFiles` moved on
while it wrote elsewhere (`astray`, until the next sync or connect that writes to the row's
path) and for a path that two files share or that an older content reaches after a later
one (`disputed`).  `MarkPassesOnlyWhatWasSeen`: a message before `lastSyncedAt` is in its
channel's file or in `left`, which has the messages a replaced file lost and, when a mark
is written, those the sync had passed over.  So what the property excludes is that a
message is lost although no sync chose to leave it out: by a mark taken too late, by a
failed sync that marks, by a channel that was skipped, by a connection made again.
Each exception of both is reached: without it TLC shows the behaviour at once.

Property of the page.  `LastEventIsShown`: when no broadcast is under way a page in
the room shows the newest event or is about to, unless its writer does not broadcast,
or it went by before the page could take it, or an older response replaced it.

### Bounds

* `Users`: three, so that one driver has two rival receivers.  `Txs`: two; the
  hazards are races of two transactions, and the proofs cover any number.
* `Agents`: two, a turn that may still begin after a stop and one that may not.
* `Execs`, `Reqs`: slots for what is alive at once.  A third concurrent
  execution or handler waits for a slot; that only delays it.
* `Ctrls`: control objects alive at once; three are enough for one in the map,
  one kept by an execution and one kept by a handler. 
* `Redirects`: each is submitted at most once.
* `Tasks`: three, one that runs and two that wait in order.  `Threads`: one, since
  threads share nothing (the proofs cover any number).  `MaxClears`: one, for which
  the overlap of two is reached.
* `Ids`: three, a chain of two supersessions or a fork of two.  `MaxReviews`: four
  decisions, enough to confirm, reject, confirm again and supersede one entry.
  `Contents`: one value where no property looks at it, two where one does.

* `TribalMemory`: three entries (one, its successor, the successor's), two candidates
  so that both may target one entry, two handlers.
* `KnowledgeDistiller`: three items (propose, merge, merge again), one fact for which
  two candidates are duplicates, two passes that may overlap.  `MaxPasses` is two;
  passes do not come back and a rejected candidate may stay the last word, so the run
  checks no deadlock.
* `WorkspaceFiles`: one change, since changes share only the file and users write that
  as they like; three requests: two rival ones and one more.  Two contents of
  different length that share a line at different places.
* `OrgAccess`: one invite and one code at cap one, three requests: two that race and
  one that comes late.  `Mixes` lets one visit, decline or bulk invite run beside
  acceptances and redemptions, lets the invite expire and the code be revoked, and
  makes nobody but the founder an owner.  The proofs cover any number and any mix.
* `ConnectorSync`: either source (they share no row), two syncs or connects at once.
  Drive: one file with two paths, or two files that share one; two rows, so that two
  connects may make two; one edit of each file.  Slack: two channels, so that a
  connection may have one and then the other; two messages, the second may answer the
  first; one per call, so that a call leaves one out.  The one format is the threaded
  one: of messages without a thread it writes what the raw one does.  `OneFailure`
  stands for both statuses of a failed Slack connection, which no guard tells apart.
* `SessionPage`: one page, since another page is to it a writer that does not
  broadcast; two calls and two handlers that overtake one another; three events.
  Handlers that append nothing can repeat an event without end, so `Waiting` bounds the
  messages on their way to a page by two (`MaxQueue`) and lets such handlers read only
  before the last event; the proofs have neither bound.

Symmetry is used in safety runs only.

### Fairness

None is assumed of users, of restarts or of failures.  `FairSpec` assumes weak
fairness of `Advance(e)`, the steps an execution takes by itself: the event loop
serves it, the database answers and the model provider answers or throws.  The
last is an assumption about the provider: most provider calls in the code carry
no timeout.  A handler is never assumed to be called.  `TaskTurns` assumes the same
of `Run(t)`, the statements of one `runTask`.  The other modules state no liveness:
nothing in them retries, so a request that failed is simply over.

## Findings

**A second execution** (`resume_second_execution`, `session-runner.ts:143`).  A
paused session without a control in memory (after a restart, or paused before it was
ever started) resumed twice, or resumed and started, gets two executions: `resume`
finds no control, `start` takes whatever control is there and launches.  The route's
comment says "without starting a second execution" (`session-router.ts:222`).

## Divergences

Further places where the code does less than a name or a comment suggests.  Four of
them are stated as properties that TLC refutes; no run of this project checks them,
because the runs show what holds.

* `ApprovalAnswersPendingRequest` (`DriverControl`): `approveDriverRequest` accepts any
  request of the past, although its error speaks of a pending one
  (`session-service.ts:195`): u1 asks, is approved, drives, hands back and can be
  approved again.
* `PausedSessionWaits` (`SessionRunner`): the disconnect of the driver writes PAUSED on
  the row; the flag the execution looks at stays clear, so the next turn begins.
* `ConfirmedIsImmutable` (`SkillLifecycle`): an edit is refused only while the status is
  CONFIRMED (`skill-service.ts:115`), so a confirmed version can be changed once it is
  superseded, or by an edit that looked at it before the confirmation.
* `CancelledIsNotCompleted` (`TaskTurns`): the cancel route writes CANCELLED and nothing
  reads it; the run goes on and writes COMPLETED or FAILED.
* The distiller's header speaks of merging source item references
  (`knowledge-distiller.ts:11`); a merge writes the sources as its snapshot had them,
  so a source added since then is lost (`SourcesAreKept` says when).
* A Slack sync after the first replaces each channel's file by the new messages only;
  the older ones leave the file (`slack-connector.ts:504`, `left`).
* A first Slack sync asks for seven days and moves `lastSyncedAt` to the present, so
  older messages are never fetched.  Connecting anew may add channels and keeps
  `lastSyncedAt`: what they held before it is never fetched either.
* The threaded format drops a root that carries its own `thread_ts`, and its replies.
* Connecting a Drive file again after a rename, or with another target, writes the copy
  to the new path and the version to the row, which keeps the old one
  (`drive-connector.ts:264`): the copy at the row's path stays as it was, and syncs
  skip it as current until the file is edited again.
* Two connects of one file at once find no row and make two, both of which are synced.
* A bulk invite that fails midway answers 500 and keeps the memberships it has made.
* A connection in `sync_failed` or `auth_failed` is not synced by the scheduler again;
  only a manual sync of that connection, or connecting anew, makes it active.
* Handlers of the socket broadcast the last event, not the one they appended: of two
  events close together one may go out twice and the other never.
* The page reads `data.driverId` from `session.driver_changed` (`Session.tsx:137`), the
  server sends `currentDriverId` (`socket-server.ts:243`).
* Requesting, approving and handing off are sent on the socket and as a POST
  (`Session.tsx:221`), so each is executed twice.
* When the driver of a session who is no admin disconnects, `getSession` refuses to
  read it for him, so the events of the pause are not broadcast
  (`socket-server.ts:315`).
* Joining a session, and the routes of pausing, cancelling and the driver's
  operations, broadcast nothing.  A page does not join again when its socket
  reconnects, and an older response replaces newer events.

## What is proved

`LiveSessionProofs` proves of `DriverControl`, for any set of users and any set of transactions,
assuming only `NoUser \notin Users`:

* `TypeCorrect`, `DriverIsSingle`: `Spec => []TypeOK`, `Spec => []SingleDriver`.
  `SingleDriver` together with `TypeOK` is inductive thanks to the compare and
  set: a commit demotes exactly the user who still is the driver.
* `HandoverExclusive`: needs the strengthening `LocksExclusive`, that no row is
  held by two transactions.  Two transfers that could both move the driver would
  both hold the row of the current one.  `IInv == TypeOK /\ SingleDriver /\
  LocksExclusive` is the inductive invariant (`InitIInv`, `TypeStep`,
  `SingleDriverStep`, `LocksStep`).
* `ImplementsToken`: `Spec => TokenSpec`, step by step in `TokenStep`:
  `CreateSession` is `Take`, `BeginTransfer` is `Offer`, `Swap` is `Accept`, a
  transfer that aborts is `Withdraw`, everything else stutters.

`SessionRunnerProofs` proves, for any number of agents, control objects,
executions, concurrent handlers and redirects, assuming that there is at least
one agent and that `None` is none of the others:

* `RunnerTypeCorrect`: `Spec => []TypeOK`.  `TypeOK` says of every statement what
  a handler or an execution waiting at it must have (`ReqStates`, `ExecStates`),
  which makes it inductive.
* `RunnerIsReachable`: `Spec => []ControlIsReachable`.  The strengthening
  `OneAtATime` also counts the starts between their reset of the flags and the
  execution they launch: without it a start that is about to launch would not be
  known to hold the control of the map.
* `RunnerTakesOnce`: `Spec => RedirectTakenOnce`.  The strengthening `OnePlace`
  says that a redirect is in one place only (a handler's hand, one position of
  one queue, an execution's hand) and what its row says there; it holds however
  many executions drain one queue.  `QuietStep` disposes of the steps that move
  no redirect, `AppendPlaces` and `TailPlaces` say what is in a queue after a
  submission and after a take.
* `RunnerStops`: `Spec => []StopsWithinOneTurn`.  The strengthening
  `CountedTurns`: an execution whose count is one is stopped and not on the way
  into a turn, because the only way there is the wait that lets nothing stopped
  through, or the redirects it was reading when it was stopped.

`SkillLifecycleProofs` proves, for any entries, contents, concurrent edits and
reviews and any `MaxReviews`, assuming that `None` is no entry:
`SkillTypeCorrect`, `ReviewsExplain` and `HistoryIsKept`.  The inductive invariant
is `IInv`: no row is locked twice (`Locks`), what a transaction recorded is newer
than what is committed of its row (`Order`), and the row a supersession will
insert is nobody else's and not there yet (`Reserved`).

`TaskTurnsProofs` proves, for any threads, any finite set of tasks and any number of
clears: `TurnsTypeCorrect`, `TurnsOverlapBound`, `RowsMatch` and `RunsAreRunning`.
The inductive invariant `IInv` says that a queue holds waiting turns of its own
thread, each once (`Waiting`), what a program counter says of row and result
(`RowOf`), and that the turns under way plus one, if the thread counts as free, are
at most one more than the clears (`Bounded`): the plain bound is not inductive,
because a free thread may begin another turn.  `Serves` describes `processNext`,
`EndStep` and `EnqueueStep` are the two callers of it.

`OrgAccessProofs` proves, for any users, invites, join codes and any finite set of
requests, any cap, assuming that the founder is a user, that invites are no codes and
`None` is none of them: `OrgTypeCorrect`, `TicketsNotOverspent`,
`MembershipsAccounted` and `ClosedAdmitsNobody`.  The inductive invariant `IInv` adds to
the properties that no ticket is locked twice (`Locks`), that a ticket held by a
transaction is open and below its cap (`TicketOf`), what a transaction has found and
inserted on its way to each statement (`Progress`), that an invite which admitted
somebody is closed (`Spent`), and that uses are admissions (`CountedUses`).  A commit is
then the admission of an invite nobody was admitted by, or one more use of a code
that has one left.  Requests are finite because uses are counted by `Cardinality`.
`MoveStep` disposes of the steps that change no table, `PlainStep` of those that
commit one statement, `CommitStep` of the transaction.

`TribalMemoryProofs` proves, for any entries, candidates and handlers, assuming only that
`None` is neither entry nor candidate: `MemoryTypeCorrect`, `LineageHasNoGap`,
`ReplacedStaysRetired` and `PromotionsRecorded`.  None of the three properties is
inductive by itself, because a handler in flight remembers what it read: the inductive
invariant `IInv` says that the rows it works on exist (`Rows`), that an entry an edit is
about to mark SUPERSEDED again has its successor (`Lineage`), that an edit of a retired
entry knows of the retirement or is on record in `edited` (`Retirement`), and that a
candidate nobody disputes has one review, before its verdict (`OneReview`).  `Steps`
names the outcomes of each statement, so that a lemma has one step for each.

`HistoriesAreFIFO` (`TaskTurnsProofs`) proves `HistoryIsFIFO`.  The invariant `Logged`
goes with it: what was asked of a thread is what began and then what is in its queue,
of what began only the last may still run, and the history has the others but those
whose run threw.  It is kept apart from `IInv`, which does not need it; `NextIsLogged`, `EndIsLogged` and
`EnqueueIsLogged` are the three places where the log moves.

`WorkspaceFilesProofs` proves, for any contents (sequences of lines, none empty), changes and
requests, assuming that `None` is neither change nor content: `FilesTypeCorrect`,
`DecisionsMatchTheFile`, `DecisionsAreFinal` and `RowsMatchImports` from the
inductive invariant `IInv`, and `DiffsShowChanges`.  `IInv` adds that a change nobody
disputes has one review at most, before its decision (`OneReview`); that a review and
a written change have a row (`Reviewed`); that an approval which comes to its decision
has written the file, and that a change found in the file was decided or is about to
be (`Written`): the property speaks of decided changes only, and the write comes
first; and that an import alone holds what was imported last (`OneImport`).
`DiffsShowChanges` is about `LineDiff` itself: `LineDiffSides` says for two texts of any
length that the diff without its added lines is one and without its removed lines the
other, by induction over the lines (`HunksSides`, with `HunkSides` for one line).

`IngestionProofs` proves of `ConnectorSync`, for any files, paths, rows, channels, syncs,
versions and messages and any limit of a call, assuming that a file has a version, a call
returns at least one message and `Null` is neither file nor row: `SyncTypeCorrect`,
`CopyIsAsNewAsItsRow` and `WatermarkPassesNothingUnseen`.  What a sync holds was read
before, and each of the two properties is inductive only with what that is worth later.
`DriveIInv` says that the rows a sync works on were made and are of the file and, unless
`connectFiles` brought the content, of the path at hand (`Works`); that the content it holds is no older than its
metadata and than the copy it is to replace, and that the copy is no older once it has
written (`Carries`); that where several contents are under way to an undisputed path they
are one (`OneContent`); and that no copy has a version that is yet to come (`Copies`).
`SlackIInv` says that every message up to the watermark a sync read is settled, and that
a later one of a channel it is done with is settled, in its hands or among what it has
passed over (`Accounts`): then the watermark it writes passes nothing.  `Holds` says
whose messages it has in hand, `Connected` that a connection has a target.

It proves of `KnowledgeDistiller`, for any candidates, items, facts and passes, with no
assumption but that `None` is neither item nor fact: `DistillTypeCorrect`,
`FactsAreProposedOnce` and `SourcesAreNotLost`.  `DistillIInv` says what a snapshot is
worth later: a pass that overlapped no other is the only one under way (`Overlap`), knows
every live candidate that was never rejected (`Complete`), and has the sources of each
it did not merge into yet (`UpToDate`).  `PassStepKeeps` disposes of the steps that
change only a pass; `Merge` and `Propose` are left.

`LiveSessionProofs` proves of `SessionPage`, for any pages, handlers, calls and number of
events: `PageTypeCorrect` and `PagesShowTheLastEvent`.  `LastEventIsShown` speaks of
states without a broadcast under way and of pages in the room; `PageIInv` says for all
states and pages that the last event is among `unsaid`, or some handler has it yet to
send or appended it and will read the last one (`WillSay`), or every page shows it,
awaits it or has missed it (`Announced`).  It also says that the events are numbered
in some order (`Numbered`), without which a timeline taken from a response could show
one twice.  An event that is not the last one any more is nobody's duty: the handler
that appended it may send another.  `AppendKeeps`, `PageStepKeeps` and `UnsaidKeeps` are
the three kinds of steps.

Induction over data.  The induction theorems of the library take an operator as a
parameter, which none of the provers can instantiate.  `HistoriesAreFIFO` and
`DiffsShowChanges` use a lemma `Induction` about sets of numbers instead, which follows
from the well-foundedness of `<` on the naturals (`NatLessThanWellFounded`, `WFMin`): a
set with 0 and with n + 1 for each n it has contains every number.  `Kept` and `Side`,
which the two properties are stated with, are recursive functions; lemmas `KeptExists`,
`KeptUnfolds`, `SideUnfolds`, `UpToExists` and `HunksUnfold` show that these functions, which
TLA+ defines by CHOOSE, exist and unfold.

Only model-checked: liveness (`CancelledExecutionEnds`, `QueuedRedirectIsRead`,
`TurnsSettle`), which the prover does not do, and the violation.  Every invariant and
action property of the passing runs is a theorem.

## Plan

In this order; the most important behaviour first.

1. Done: driver control, its abstract token, its proofs.
2. Done: the session runner, proofs of all its safety properties.
3. Done: `SkillLifecycle` and proofs of its safety properties.
4. Done: `TaskTurns` and proofs of its safety properties.
   Left of it: the stream buffer and its expiry.
5. Done: `TribalMemory`, `KnowledgeDistiller`, `ConnectorSync` and proofs of their
   safety properties.
6. Done: `OrgAccess` and proofs of its safety properties.
7. Done: `WorkspaceFiles`, which has the change review in it, and proofs of its
   safety properties.
8. Done: `SessionPage`, the page composed with the broadcasts, and proofs of its
   safety properties.
9. Next, `LiveSession`: driver control and runner composed, for the right a route checks
    before it acts.

## Not modelled, and why

* Jira: each sync fetches everything and keeps no watermark, so a sync depends on no
  earlier one.  The legacy sync routes are one fetch and one write per file.  The
  opt-in row and the times of the scheduler: syncs may start at any time in the model.
* Stream buffers and presence: nothing in the server starts a stream
  (`broadcastMessageCreated` and `broadcastMessageChunk` are called by tests only), and
  presence lives as long as its socket.
* Authentication, credentials, OAuth round trips, MCP requests and the plain routers:
  one check and one statement or call each.
* Brain tools, authorization guard: a stateless table of tools and roles.
* Skill distiller, generator, providers, anonymizer, citations, storage paths and
  archives: text and file processing, or services whose answers are data to the
  rest.
* The front end beside the session page, more than half of the implementation's
  lines: pages that load once and show what they loaded, layout and animation.  This,
  the text processing and the plain routers are why the models map a tenth of the
  implementation's lines.
