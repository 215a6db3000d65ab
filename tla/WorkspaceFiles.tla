---------------------------- MODULE WorkspaceFiles ----------------------------
(***************************************************************************)
(* One file of a workspace and those who write it: reviewers who apply or  *)
(* reject proposed changes (src/modules/changes/change-service.ts), users  *)
(* (src/api/files/file-router.ts) and imports of a repository, which also  *)
(* record the file in an IngestedItem row (src/modules/storage/            *)
(* git-importer.ts, upsertIngestedItem of connector-scheduler.ts).         *)
(*                                                                         *)
(* Neither files nor rows are locked and there is no transaction: an       *)
(* action is one statement.  A content is the sequence of its lines, and   *)
(* its hash is the content itself.                                         *)
(***************************************************************************)
EXTENDS Naturals, Sequences

CONSTANTS Changes,   \* ids of ProposedChange rows
          Contents,  \* what a file may contain: non-empty sequences of lines
          Jobs,      \* slots for requests in flight
          None       \* no file, no row

ASSUME ContentsAssumption == Contents \subseteq Seq(STRING) /\ <<>> \notin Contents
ASSUME NoneAssumption == None \notin Changes \cup Contents

VARIABLES
  file,      \* the file in the workspace
  status,    \* ProposedChange.status; "NONE": no row
  base,      \* its originalContent
  text,      \* its proposedContent
  diff,      \* its diff, which the reviewer is shown
  row,       \* contentHash of the file's IngestedItem
  job,       \* requests between two statements
  applied,   \* history: changes whose text was written to the file
  disputed,  \* history: changes with two reviews at once, or one that broke off
  imported,  \* history: what an import wrote last
  mixed      \* history: two imports overlapped, or one broke off

changes == <<status, base, text, diff>>
history == <<applied, disputed, imported, mixed>>
vars == <<file, changes, row, job, history>>

Quiet == [op |-> "none", pc |-> "idle", change |-> None, seen |-> None]
Decided == {"APPROVED", "REJECTED"}
Blank == << "" >>

\* A request between two statements.
JobStates ==
  {Quiet}
    \cup [op : {"propose"}, pc : {"create"}, change : {None}, seen : Contents \cup {Blank}]
    \cup [op : {"approve"}, pc : {"write", "record"}, change : Changes, seen : {None}]
    \cup [op : {"reject"}, pc : {"record"}, change : Changes, seen : {None}]
    \cup [op : {"import"}, pc : {"lookup", "insert", "update"}, change : {None}, seen : Contents]

Goto(j, pc) == job' = [job EXCEPT ![j].pc = pc]
End(j) == job' = [job EXCEPT ![j] = Quiet]
Start(j, op, pc, change, seen) ==
  /\ job[j] = Quiet
  /\ job' = [job EXCEPT ![j] = [op |-> op, pc |-> pc, change |-> change, seen |-> seen]]

-----------------------------------------------------------------------------
(* computeLineDiff *)

Line(mark, content, i) == IF i <= Len(content) THEN << [mark |-> mark, text |-> content[i]] >>
                          ELSE <<>>

\* The i-th lines of both sides, or the one line they share.
Hunk(o, p, i) ==
  IF i <= Len(o) /\ i <= Len(p) /\ o[i] = p[i] THEN Line(" ", o, i)
  ELSE Line("-", o, i) \o Line("+", p, i)

Hunks(o, p, n) ==
  LET upTo[i \in 0 .. n] == IF i = 0 THEN <<>> ELSE upTo[i - 1] \o Hunk(o, p, i)
  IN  upTo[n]

\* Comparing only the lines both sides have.
DiffOfCommonLines(o, p) == Hunks(o, p, IF Len(o) < Len(p) THEN Len(o) ELSE Len(p))

LineDiff(o, p) == Hunks(o, p, IF Len(o) > Len(p) THEN Len(o) ELSE Len(p))

-----------------------------------------------------------------------------
(* Users *)

\* The put and delete routes.
EditFile(v) ==
  /\ file' = v
  /\ UNCHANGED <<changes, row, job, history>>

-----------------------------------------------------------------------------
(* createProposedChange, approveChange, rejectChange *)

\* A missing file is no original.
BeginProposeRaw(j) ==
  /\ Start(j, "propose", "create", None, file)
  /\ UNCHANGED <<file, changes, row, history>>

\* The original is read; a missing file counts as empty.
BeginPropose(j) ==
  /\ Start(j, "propose", "create", None, IF file = None THEN Blank ELSE file)
  /\ UNCHANGED <<file, changes, row, history>>

\* The row is created after more awaits, with the original as it was read.
CreateChange(j, c, v) ==
  /\ job[j].pc = "create"
  /\ status[c] = "NONE"
  /\ status' = [status EXCEPT ![c] = "PENDING"]
  /\ base' = [base EXCEPT ![c] = job[j].seen]
  /\ text' = [text EXCEPT ![c] = v]
  /\ diff' = [diff EXCEPT ![c] = LineDiff(job[j].seen, v)]
  /\ End(j)
  /\ UNCHANGED <<file, row, history>>

\* Two reviews of one change are in flight at once.
Dispute(c) ==
  disputed' = IF \E k \in Jobs : job[k].change = c THEN disputed \cup {c} ELSE disputed

BeginReview(j, op, pc, c) ==
  /\ Start(j, op, pc, c, None)
  /\ Dispute(c)
  /\ UNCHANGED <<file, changes, row, applied, imported, mixed>>

\* Approving whatever the status is.
ApproveAny(j, c) == status[c] # "NONE" /\ BeginReview(j, "approve", "write", c)

BeginApprove(j, c) == status[c] = "PENDING" /\ BeginReview(j, "approve", "write", c)

\* Rejecting whatever the status is.
RejectAny(j, c) == status[c] # "NONE" /\ BeginReview(j, "reject", "record", c)

BeginReject(j, c) == status[c] = "PENDING" /\ BeginReview(j, "reject", "record", c)

\* The file is replaced, whatever is in it by now.
WriteChange(j) ==
  LET c == job[j].change
  IN  /\ job[j].op = "approve" /\ job[j].pc = "write"
      /\ file' = text[c]
      /\ applied' = applied \cup {c}
      /\ Goto(j, "record")
      /\ UNCHANGED <<changes, row, disputed, imported, mixed>>

\* The decision is written, whatever the status is by now.
Record(j) ==
  LET c == job[j].change
  IN  /\ job[j].pc = "record"
      /\ status' = [status EXCEPT ![c] = IF job[j].op = "approve" THEN "APPROVED" ELSE "REJECTED"]
      /\ End(j)
      /\ UNCHANGED <<file, base, text, diff, row, history>>

-----------------------------------------------------------------------------
(* importRepository and upsertIngestedItem *)

\* A fetched file is written ...
WriteImport(j, v) ==
  /\ Start(j, "import", "lookup", None, v)
  /\ file' = v
  /\ imported' = v
  /\ mixed' = (mixed \/ \E k \in Jobs : job[k].op = "import")
  /\ UNCHANGED <<changes, row, applied, disputed>>

\* Rows are only ever added.
LookupForInsert(j) ==
  /\ job[j].pc = "lookup"
  /\ IF row = None THEN Goto(j, "insert") ELSE End(j)
  /\ UNCHANGED <<file, changes, row, history>>

\* ... its row is looked for and its hash compared ...
Lookup(j) ==
  /\ job[j].pc = "lookup"
  /\ \/ row = None /\ Goto(j, "insert")
     \/ row # None /\ row # job[j].seen /\ Goto(j, "update")
     \/ row = job[j].seen /\ End(j)
  /\ UNCHANGED <<file, changes, row, history>>

\* ... and the row is created, unless another import was faster and the unique key
\* refuses it ...
InsertRow(j) ==
  /\ job[j].pc = "insert"
  /\ row' = IF row = None THEN job[j].seen ELSE row
  /\ End(j)
  /\ UNCHANGED <<file, changes, history>>

\* ... or updated.
UpdateRow(j) ==
  /\ job[j].pc = "update"
  /\ row' = job[j].seen
  /\ End(j)
  /\ UNCHANGED <<file, changes, history>>

\* A statement throws or the process ends: what was written before stays.
Fail(j) ==
  /\ job[j] # Quiet
  /\ End(j)
  /\ disputed' = IF job[j].change # None THEN disputed \cup {job[j].change} ELSE disputed
  /\ mixed' = (mixed \/ job[j].op = "import")
  /\ UNCHANGED <<file, changes, row, applied, imported>>

-----------------------------------------------------------------------------
Init ==
  /\ file \in Contents \cup {None}
  /\ status = [c \in Changes |-> "NONE"]
  /\ base = [c \in Changes |-> None]
  /\ text = [c \in Changes |-> None]
  /\ diff = [c \in Changes |-> <<>>]
  /\ row = None
  /\ job = [j \in Jobs |-> Quiet]
  /\ applied = {} /\ disputed = {} /\ imported = None /\ mixed = FALSE

Review(j) ==
  \/ BeginPropose(j) \/ \E c \in Changes, v \in Contents : CreateChange(j, c, v)
  \/ \E c \in Changes : BeginApprove(j, c) \/ BeginReject(j, c)
  \/ WriteChange(j) \/ Record(j) \/ Fail(j)

Import(j) ==
  \/ \E v \in Contents : WriteImport(j, v)
  \/ Lookup(j) \/ InsertRow(j) \/ UpdateRow(j)

Next ==
  \/ \E v \in Contents \cup {None} : EditFile(v)
  \/ \E j \in Jobs : Review(j) \/ Import(j)

Spec == Init /\ [][Next]_vars

-----------------------------------------------------------------------------
(* Properties *)

TypeOK ==
  /\ file \in Contents \cup {None}
  /\ status \in [Changes -> {"NONE", "PENDING"} \cup Decided]
  /\ base \in [Changes -> Contents \cup {None, Blank}]
  /\ text \in [Changes -> Contents \cup {None}]
  /\ \A c \in Changes : status[c] = "NONE" <=> text[c] = None
  /\ row \in Contents \cup {None}
  /\ job \in [Jobs -> JobStates]
  /\ applied \subseteq Changes /\ disputed \subseteq Changes
  /\ imported \in Contents \cup {None} /\ mixed \in BOOLEAN

\* What was decided is what happened to the file: an approved change was written,
\* and a rejected one was not, unless an approval of it overlapped or broke off.
DecisionMatchesFile ==
  \A c \in Changes :
    /\ status[c] = "APPROVED" => c \in applied
    /\ status[c] = "REJECTED" /\ c \notin disputed => c \notin applied

\* A decision is final, unless it was taken while another review was in flight.
DecisionIsFinal ==
  [][\A c \in Changes \ disputed : status[c] \in Decided => status'[c] = status[c]]_vars

\* The lines of a diff with one of the marks.
Side(d, marks) ==
  LET kept[i \in 0 .. Len(d)] ==
        IF i = 0 THEN <<>>
        ELSE IF d[i].mark \in marks THEN Append(kept[i - 1], d[i].text) ELSE kept[i - 1]
  IN  kept[Len(d)]

\* The reviewer sees all of a change: its diff without the added lines is the
\* original, without the removed lines the proposed content.
DiffShowsChange ==
  \A c \in Changes : status[c] # "NONE" =>
    /\ Side(diff[c], {" ", "-"}) = base[c]
    /\ Side(diff[c], {" ", "+"}) = text[c]

\* Between imports the row has the hash of what was imported last, unless two
\* imports overlapped or one broke off.
RowMatchesImport ==
  row = imported \/ mixed \/ \E j \in Jobs : job[j].op = "import"
=============================================================================
