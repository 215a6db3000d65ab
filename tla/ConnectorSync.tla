--------------------------- MODULE ConnectorSync ---------------------------
(***************************************************************************)
(* The connectors of one workspace: files picked from Drive                *)
(* (src/modules/connectors/drive-connector.ts), a Slack connection         *)
(* (slack-connector.ts) and the scheduler that syncs both                  *)
(* (connector-scheduler.ts).                                               *)
(*                                                                         *)
(* A sync is a sequence of calls to a provider, to the database and to the *)
(* workspace's files with an await at each; scheduled syncs, manual ones   *)
(* and the connecting of a source run beside one another.  A Drive file is *)
(* known by its versions, a Slack message by its place in the order of all *)
(* messages, so that lastSyncedAt is the number of messages posted by then.*)
(***************************************************************************)
EXTENDS Naturals, FiniteSets

CONSTANTS Jobs,         \* slots for syncs under way at the same time
          Files,        \* the files picked from Drive
          Paths,        \* brainPath
          Rows,         \* ids of SourceConnection rows, a bound on their number
          MaxVersion,   \* bound on the versions of a file
          Channels,     \* the channels of the Slack team
          Formats,      \* archiveFormat: "raw", "threaded"
          Targets,      \* targetPath of a Slack connection
          MaxMessages,  \* bound on the messages posted
          Limit,        \* messages one conversations.history call returns
          Setups,       \* what a workspace may be connected to
          Null          \* null

ASSUME SyncAssumption == /\ MaxVersion \in Nat \ {0}
                         /\ MaxMessages \in Nat
                         /\ Limit \in Nat \ {0}
                         /\ Setups \subseteq [paths : [Files -> SUBSET Paths], slack : BOOLEAN]
                         /\ Null \notin Files \cup Rows

VARIABLES
  setup,     \* the paths toBrainPath makes of a file's names and target directories,
             \* none: it is not picked; whether there is a Slack team
  remote,    \* version of each file in Drive
  copy,      \* what the workspace holds at a path: the version of a file
  drive,     \* SourceConnection rows; seen: remoteModifiedAt
  job,       \* the Drive syncs under way
  disputed,  \* history variable: paths with two writers, see FetchContent
  astray,    \* history variable: rows whose version was last written to another path
  posted,    \* channel and thread_ts of each message posted
  slack,     \* the SlackConnection row; mark: lastSyncedAt, unless never synced
  files,     \* the messages in the file of a channel
  pull,      \* the Slack syncs under way
  left       \* history variable: messages in no file, as a later sync has replaced
             \* it, or as syncs passed them over: see missed

driveVars == <<remote, copy, drive, job, disputed, astray>>
slackVars == <<posted, slack, files, pull, left>>
vars == <<setup, driveVars, slackVars>>

Versions == 0..MaxVersion
Messages == 1..MaxMessages
DriveStatus == {"none", "active", "reconnect_required"}
SlackStatus == {"none", "active", "auth_failed", "sync_failed"}
Stages == {"idle", "meta", "recheck", "content", "write", "find", "row"}
PullStages == {"idle", "read", "channel", "file", "mark", "fail"}

\* pick: connectFiles, not a sync.
\* list: the connections to come, row: the one at hand, Null: none yet;
\* file, path: where the content goes; meta and content: the versions fetched,
\* the content until it is written.
Idle == [at |-> "idle", pick |-> FALSE, list |-> {}, row |-> Null,
         file |-> Null, path |-> Null, meta |-> 0, content |-> 0]

\* row: the SlackConnection row it works for still exists; first: it was never
\* synced; since: lastSyncedAt as read; todo: channels to come, chan: the one at
\* hand, got: messages for its file; missed: messages this sync has passed over.
Quiet == [at |-> "idle", row |-> FALSE, first |-> FALSE, since |-> 0, format |-> Null,
          target |-> Null, todo |-> {}, chan |-> Null, got |-> {}, missed |-> {}]

JobStates ==
  [at : Stages, pick : BOOLEAN, list : SUBSET [row : Rows, seen : Versions],
   row : Rows \cup {Null}, file : Files \cup {Null}, path : Paths \cup {Null},
   meta : Versions, content : Versions]

PullStates ==
  [at : PullStages, row : BOOLEAN, first : BOOLEAN, since : 0..MaxMessages,
   format : Formats \cup {Null}, target : Targets \cup {Null}, todo : SUBSET Channels,
   chan : Channels \cup {Null}, got : SUBSET Messages, missed : SUBSET Messages]

Set(j, r) == job' = [job EXCEPT ![j] = r]
SetPull(j, r) == pull' = [pull EXCEPT ![j] = r]

\* After connection r of a sync.
NextRow(j, r) ==
  LET list == {c \in job[j].list : c.row # r}
  IN  IF list = {} THEN Idle ELSE [Idle EXCEPT !.at = "meta", !.list = list]

-----------------------------------------------------------------------------
(* The world outside *)

EditRemote(f) ==
  /\ setup.paths[f] # {} /\ remote[f] < MaxVersion
  /\ remote' = [remote EXCEPT ![f] = @ + 1]
  /\ UNCHANGED <<setup, copy, drive, job, disputed, astray, slackVars>>

Count == CHOOSE n \in 0..MaxMessages : DOMAIN posted = 1..n

\* Messages later than the first n in the channels of chs.
After(n, chs) == {k \in DOMAIN posted : n < k /\ posted[k].ch \in chs}

\* A message, or a reply to the message root: its thread_ts is that of the root,
\* which then may carry its own.  A sync misses it that is past its channel.
Post(ch, root, own) ==
  /\ setup.slack /\ Count < MaxMessages
  /\ root # 0 => root \in After(0, {ch}) /\ posted[root].thread \in {0, root}
  /\ posted' = [k \in 1..(Count + 1) |->
                  IF k > Count THEN [ch |-> ch, thread |-> root]
                  ELSE IF k = root /\ own THEN [ch |-> ch, thread |-> root] ELSE posted[k]]
  /\ pull' = [j \in Jobs |->
               IF pull[j].at \in {"channel", "file", "mark"} /\ ch \notin pull[j].todo
               THEN [pull[j] EXCEPT !.missed = @ \cup {Count + 1}] ELSE pull[j]]
  /\ UNCHANGED <<setup, driveVars, slack, files, left>>

-----------------------------------------------------------------------------
(* How a sync starts *)

\* A tick of the scheduler, auto-sync/run or drive/sync: the active connections are
\* listed.  syncWorkspace syncs Drive and then Slack, a request either: one of each
\* may start at any time, since the scheduler goes by a row that syncWorkspace
\* writes at its end and its ticks do not keep syncs apart.
List(j) ==
  /\ job[j] = Idle
  /\ LET list == {[row |-> r, seen |-> drive[r].seen] : r \in {q \in Rows : drive[q].status = "active"}}
     IN  list # {} /\ Set(j, [Idle EXCEPT !.at = "meta", !.list = list])
  /\ UNCHANGED <<setup, remote, copy, drive, disputed, astray, slackVars>>

\* drive/connect: connectFiles goes through the files one after the other.
StartPick(j, f) ==
  /\ setup.paths[f] # {} /\ job[j] = Idle
  /\ Set(j, [Idle EXCEPT !.at = "meta", !.pick = TRUE, !.file = f])
  /\ UNCHANGED <<setup, remote, copy, drive, disputed, astray, slackVars>>

\* The Slack part of syncWorkspace and slack/sync: only active connections are synced.
ListSlack(j) ==
  /\ slack.status = "active" /\ pull[j] = Quiet
  /\ SetPull(j, [Quiet EXCEPT !.at = "read", !.row = TRUE])
  /\ UNCHANGED <<setup, driveVars, posted, slack, files, left>>

\* slack/sync for one connection, whatever its status.
StartPull(j) ==
  /\ slack.status # "none" /\ pull[j] = Quiet
  /\ SetPull(j, [Quiet EXCEPT !.at = "read", !.row = TRUE])
  /\ UNCHANGED <<setup, driveVars, posted, slack, files, left>>

\* slack/connect, then a sync.  A row that exists gets the new list of channels and
\* the format, and keeps its targetPath and lastSyncedAt.
ConnectSlack(j, chs, format, target) ==
  /\ setup.slack /\ pull[j] = Quiet
  /\ slack' = IF slack.status = "none"
              THEN [status |-> "active", synced |-> FALSE, mark |-> 0, channels |-> chs,
                    format |-> format, target |-> target]
              ELSE [slack EXCEPT !.status = "active", !.channels = chs, !.format = format]
  /\ SetPull(j, [Quiet EXCEPT !.at = "read", !.row = TRUE])
  /\ UNCHANGED <<setup, driveVars, posted, files, left>>

NoConnection == [status |-> "none", synced |-> FALSE, mark |-> 0, channels |-> {},
                 format |-> Null, target |-> Null]

DisconnectSlack ==
  /\ slack.status # "none"
  /\ slack' = NoConnection
  /\ pull' = [j \in Jobs |-> [pull[j] EXCEPT !.row = FALSE]]
  /\ UNCHANGED <<setup, driveVars, posted, files, left>>

-----------------------------------------------------------------------------
(* syncWorkspaceConnections, connectFiles *)

\* fetchWithRefresh: a call that answers, with a refreshed token or without.  A
\* sync goes by the version it has listed and keeps to the path of its row.
FetchMeta(j) ==
  /\ job[j].at = "meta" /\ ~job[j].pick
  /\ \E c \in job[j].list :
       LET f == drive[c.row].file
       IN  Set(j, IF remote[f] <= c.seen THEN NextRow(j, c.row)
                  ELSE [job[j] EXCEPT !.at = "recheck", !.row = c.row, !.file = f,
                                      !.path = drive[c.row].path, !.meta = remote[f]])
  /\ UNCHANGED <<setup, remote, copy, drive, disputed, astray, slackVars>>

\* connectFiles takes a path from the name the file has and the target asked for:
\* another one than last time, or that of another file of the same name.
PickMeta(j) ==
  /\ job[j].at = "meta" /\ job[j].pick
  /\ \E p \in setup.paths[job[j].file] : Set(j, [job[j] EXCEPT !.at = "content", !.path = p, !.meta = remote[job[j].file]])
  /\ UNCHANGED <<setup, remote, copy, drive, disputed, astray, slackVars>>

Recheck(j) ==
  /\ job[j].at = "recheck"
  /\ Set(j, IF drive[job[j].row].status = "active" THEN [job[j] EXCEPT !.at = "content"]
            ELSE NextRow(j, job[j].row))
  /\ UNCHANGED <<setup, remote, copy, drive, disputed, astray, slackVars>>

\* A path is disputed once it is about to be written for two files, or while a
\* sync that fetched an older content of the file has yet to write it there.
FetchContent(j) ==
  /\ job[j].at = "content"
  /\ LET f == job[j].file
         p == job[j].path
         rivals == {i \in Jobs \ {j} : /\ job[i].at = "write" /\ job[i].path = p
                                       /\ job[i].file # f \/ job[i].content < remote[f]}
     IN  /\ Set(j, [job[j] EXCEPT !.at = "write", !.content = remote[f]])
         /\ disputed' = IF rivals # {} \/ copy[p].file \notin {Null, f}
                        THEN disputed \cup {p} ELSE disputed
  /\ UNCHANGED <<setup, remote, copy, drive, astray, slackVars>>

WriteFile(j) ==
  /\ job[j].at = "write"
  /\ copy' = [copy EXCEPT ![job[j].path] = [file |-> job[j].file, version |-> job[j].content]]
  /\ Set(j, [job[j] EXCEPT !.at = IF job[j].pick THEN "find" ELSE "row", !.content = 0])
  /\ UNCHANGED <<setup, remote, drive, disputed, astray, slackVars>>

\* connectFiles looks for a row of the file, whatever its status and path.
FindRow(j) ==
  /\ job[j].at = "find"
  /\ LET found == {r \in Rows : drive[r].status # "none" /\ drive[r].file = job[j].file}
     IN  \E r \in IF found = {} THEN {Null} ELSE found :
           Set(j, [job[j] EXCEPT !.at = "row", !.row = r])
  /\ UNCHANGED <<setup, remote, copy, drive, disputed, astray, slackVars>>

\* The row gets the version v: a new row with the path written, a row found by
\* connectFiles is active again but keeps its path, a sync leaves the status alone.
RecordVersion(j, v) ==
  LET r == job[j].row
  IN  /\ job[j].at = "row"
      /\ \/ /\ r = Null
            /\ \E new \in {q \in Rows : drive[q].status = "none"} :
                 drive' = [drive EXCEPT ![new] = [status |-> "active", file |-> job[j].file,
                                                  path |-> job[j].path, seen |-> v]]
            /\ UNCHANGED astray
         \/ /\ r # Null
            /\ drive' = [drive EXCEPT ![r].seen = v, ![r].status = IF job[j].pick THEN "active" ELSE @]
            /\ astray' = IF job[j].path = drive[r].path THEN astray \ {r} ELSE astray \cup {r}
      /\ Set(j, IF job[j].pick THEN Idle ELSE NextRow(j, r))
      /\ UNCHANGED <<setup, remote, copy, disputed, slackVars>>

\* remoteModifiedAt is what Drive says when the row is written.
WriteRowNow(j) == job[j].file # Null /\ RecordVersion(j, remote[job[j].file])

\* remoteModifiedAt is that of the metadata.
WriteRow(j) == RecordVersion(j, job[j].meta)

\* A call or a statement fails, or the token cannot be refreshed and the row says
\* so: the sync goes on with the next connection, or ends when the catch fails too.
FailDrive(j) ==
  /\ job[j].at # "idle"
  /\ \/ Set(j, Idle) /\ UNCHANGED drive
     \/ /\ ~job[j].pick
        /\ \E r \in IF job[j].row # Null THEN {job[j].row} ELSE {c.row : c \in job[j].list} :
             /\ Set(j, NextRow(j, r))
             /\ \/ UNCHANGED drive
                \/ /\ job[j].at \in {"meta", "content"}
                   /\ drive' = [drive EXCEPT ![r].status = "reconnect_required"]
  /\ UNCHANGED <<setup, remote, copy, disputed, astray, slackVars>>

-----------------------------------------------------------------------------
(* syncWorkspaceSlackConnections, syncSlackConnection *)

\* What is posted in channels the connection does not have is passed over.
ReadConnection(j) ==
  /\ pull[j].at = "read"
  /\ SetPull(j, IF ~pull[j].row THEN Quiet
                ELSE [pull[j] EXCEPT !.at = IF slack.channels = {} THEN "mark" ELSE "channel",
                                     !.first = ~slack.synced, !.since = slack.mark,
                                     !.format = slack.format, !.target = slack.target,
                                     !.todo = slack.channels,
                                     !.missed = After(slack.mark, Channels \ slack.channels)])
  /\ UNCHANGED <<setup, driveVars, posted, slack, files, left>>

\* channelToMarkdown: the threaded format writes messages without a thread_ts and
\* the replies to these; a root that carries its own is left out with its replies.
Shown(S, format) ==
  {k \in S : \/ format # "threaded" \/ posted[k].thread = 0
             \/ posted[k].thread \in S /\ posted[posted[k].thread].thread = 0}

\* searchMessages: the newest messages since lastSyncedAt, which is cut to the
\* second: one posted in the same second before it comes again.  A first sync has
\* no lastSyncedAt and asks for seven days, which may be any part of the past.
FetchChannel(j, ch) ==
  /\ pull[j].at = "channel" /\ ch \in pull[j].todo
  /\ \E low \in {n \in 0..Count : pull[j].first \/ n \in {pull[j].since, pull[j].since - 1}} :
       LET new == After(low, {ch})
           newest == {k \in new : Cardinality({i \in new : i > k}) < Limit}
           got == Shown(newest, pull[j].format)
       IN  SetPull(j, [pull[j] EXCEPT !.at = "file", !.todo = @ \ {ch}, !.chan = ch, !.got = got,
                                      !.missed = @ \cup (After(pull[j].since, {ch}) \ got)])
  /\ UNCHANGED <<setup, driveVars, posted, slack, files, left>>

\* After a channel.
NextChannel(j, todo, missed) ==
  LET over == pull[j].missed \cup missed
  IN  SetPull(j, IF todo = {} THEN [Quiet EXCEPT !.at = "mark", !.row = pull[j].row, !.missed = over]
                 ELSE [pull[j] EXCEPT !.at = "channel", !.todo = todo, !.chan = Null, !.got = {},
                                      !.missed = over])

\* The channel's file is replaced by what was fetched.
WriteChannel(j) ==
  /\ pull[j].at = "file"
  /\ LET path == <<pull[j].target, pull[j].chan>>
     IN  /\ files' = [files EXCEPT ![path] = pull[j].got]
         /\ left' = (left \cup files[path]) \ pull[j].got
  /\ NextChannel(j, pull[j].todo, {})
  /\ UNCHANGED <<setup, driveVars, posted, slack>>

\* A failing channel is noted and passed over, be it the call or the write.
FailChannel(j) ==
  /\ \/ /\ pull[j].at = "channel"
        /\ \E ch \in pull[j].todo : NextChannel(j, pull[j].todo \ {ch}, After(pull[j].since, {ch}))
     \/ /\ pull[j].at = "file"
        /\ NextChannel(j, pull[j].todo, pull[j].got)
  /\ UNCHANGED <<setup, driveVars, posted, slack, files, left>>

\* A message is in the file of its channel.
Archived(k) == \E target \in Targets : k \in files[<<target, posted[k].ch>>]

Synced(n) == slack' = [slack EXCEPT !.status = "active", !.synced = TRUE, !.mark = n]

\* A lastSyncedAt that is rounded up.
MarkAhead(j) ==
  /\ pull[j].at = "mark" /\ pull[j].row
  /\ Synced(IF Count < MaxMessages THEN Count + 1 ELSE Count)
  /\ left' = left \cup {k \in pull[j].missed : ~Archived(k)}
  /\ SetPull(j, Quiet)
  /\ UNCHANGED <<setup, driveVars, posted, files>>

\* lastSyncedAt becomes the present, whatever was fetched when.
Mark(j) ==
  /\ pull[j].at = "mark" /\ pull[j].row
  /\ Synced(Count)
  /\ left' = left \cup {k \in pull[j].missed : ~Archived(k)}
  /\ SetPull(j, Quiet)
  /\ UNCHANGED <<setup, driveVars, posted, files>>

\* A revoked token ends the sync, and so does any failure outside a channel.  Until
\* the row is read there is no catch that says so in it.
FailSlack(j) ==
  /\ \/ pull[j].at \in {"channel", "mark"} /\ SetPull(j, [Quiet EXCEPT !.at = "fail", !.row = pull[j].row])
     \/ pull[j].at = "read" /\ SetPull(j, Quiet)
  /\ UNCHANGED <<setup, driveVars, posted, slack, files, left>>

\* Marks a failed sync as synced.
WriteFailureMarked(j) ==
  /\ pull[j].at = "fail"
  /\ IF pull[j].row
     THEN \E status \in {"auth_failed", "sync_failed"} :
            slack' = [slack EXCEPT !.status = status, !.synced = TRUE, !.mark = Count]
     ELSE UNCHANGED slack
  /\ SetPull(j, Quiet)
  /\ UNCHANGED <<setup, driveVars, posted, files, left>>

\* The status says why; this write may fail as well, or find no row.
WriteFailure(j) ==
  /\ pull[j].at = "fail"
  /\ \/ UNCHANGED slack
     \/ /\ pull[j].row
        /\ \E status \in {"auth_failed", "sync_failed"} : slack' = [slack EXCEPT !.status = status]
  /\ SetPull(j, Quiet)
  /\ UNCHANGED <<setup, driveVars, posted, files, left>>

-----------------------------------------------------------------------------
\* The process ends.
Crash ==
  /\ \E j \in Jobs : job[j] # Idle \/ pull[j] # Quiet
  /\ job' = [j \in Jobs |-> Idle]
  /\ pull' = [j \in Jobs |-> Quiet]
  /\ UNCHANGED <<setup, remote, copy, drive, disputed, astray, posted, slack, files, left>>

Init ==
  /\ setup \in Setups
  /\ remote = [f \in Files |-> 1]
  /\ copy = [p \in Paths |-> [file |-> Null, version |-> 0]]
  /\ drive = [r \in Rows |-> [status |-> "none", file |-> Null, path |-> Null, seen |-> 0]]
  /\ disputed = {} /\ astray = {}
  /\ job = [j \in Jobs |-> Idle]
  /\ posted = <<>>
  /\ slack = NoConnection
  /\ files = [path \in Targets \X Channels |-> {}]
  /\ left = {}
  /\ pull = [j \in Jobs |-> Quiet]

DriveStep(j) ==
  \/ FetchMeta(j) \/ PickMeta(j) \/ Recheck(j) \/ FetchContent(j)
  \/ WriteFile(j) \/ FindRow(j) \/ WriteRow(j) \/ FailDrive(j)

SlackStep(j) ==
  \/ ReadConnection(j) \/ WriteChannel(j) \/ FailChannel(j) \/ Mark(j)
  \/ FailSlack(j) \/ WriteFailure(j)
  \/ \E ch \in Channels : FetchChannel(j, ch)

World ==
  \/ \E f \in Files : EditRemote(f)
  \/ \E ch \in Channels, root \in 0..MaxMessages, own \in BOOLEAN : Post(ch, root, own)

Start(j) ==
  \/ List(j) \/ ListSlack(j) \/ StartPull(j)
  \/ \E f \in Files : StartPick(j, f)
  \/ \E chs \in SUBSET Channels \ {{}}, format \in Formats, target \in Targets :
       ConnectSlack(j, chs, format, target)

Next ==
  \/ World \/ DisconnectSlack \/ Crash
  \/ \E j \in Jobs : Start(j) \/ DriveStep(j) \/ SlackStep(j)

Spec == Init /\ [][Next]_vars

-----------------------------------------------------------------------------
(* Properties *)

\* The variables keep their types; a message is counted as written or passed over
\* only once posted (drive-connector.ts, slack-connector.ts).
TypeOK ==
  /\ setup \in Setups
  /\ remote \in [Files -> Versions]
  /\ copy \in [Paths -> [file : Files \cup {Null}, version : Versions]]
  /\ drive \in [Rows -> [status : DriveStatus, file : Files \cup {Null}, path : Paths \cup {Null},
                         seen : Versions]]
  /\ job \in [Jobs -> JobStates]
  /\ disputed \subseteq Paths /\ astray \subseteq Rows
  /\ posted \in UNION {[1..n -> [ch : Channels, thread : 0..MaxMessages]] : n \in 0..MaxMessages}
  /\ slack \in [status : SlackStatus, synced : BOOLEAN, mark : 0..MaxMessages, channels : SUBSET Channels,
                format : Formats \cup {Null}, target : Targets \cup {Null}]
  /\ slack.mark <= Count
  /\ files \in [Targets \X Channels -> SUBSET DOMAIN posted]
  /\ left \subseteq DOMAIN posted
  /\ pull \in [Jobs -> PullStates]
  /\ \A j \in Jobs : pull[j].got \cup pull[j].missed \subseteq DOMAIN posted

\* A sync passes over a file whose row names its current version (line 366 of
\* drive-connector.ts).  So no row may name a version later than what lies at its
\* path, or another file may lie there: whatever is edited between the fetches,
\* fails in between, overlaps or is connected again, twice or at once; but for a
\* row that connectFiles moved on while it wrote to another path, and for a path
\* two files share or that an older content reaches after a later one.
RowIsNotAheadOfCopy ==
  \A r \in Rows :
    drive[r].status # "none" /\ r \notin astray /\ drive[r].path \notin disputed =>
      copy[drive[r].path].file = drive[r].file /\ drive[r].seen <= copy[drive[r].path].version

\* A message that lastSyncedAt has passed is in its channel's file, or was until a
\* later sync replaced that, or a sync that moved lastSyncedAt had a reason to leave
\* it out: posted after its channel was fetched, in a channel that failed or that
\* the connection did not have, before the seven days of a first sync, beyond the
\* limit of a call, or in a thread the threaded format drops.  A sync that fails as
\* a whole, is overtaken by another, loses its row or crashes loses none.
MarkPassesOnlyWhatWasSeen ==
  \A k \in DOMAIN posted : k <= slack.mark => Archived(k) \/ k \in left
=============================================================================
