---------------------------- MODULE TribalMemory ----------------------------
(***************************************************************************)
(* The entries of one workspace's tribal memory with their lineage, and    *)
(* the reviews that turn candidates into entries, src/modules/             *)
(* tribal-memory/tribal-memory.ts and knowledge-candidate-service.ts.      *)
(*                                                                         *)
(* Nothing here runs in a transaction: an action is one statement, and the *)
(* handlers interleave at every await.  Titles, contents, tags, search     *)
(* text and audit rows are left out.                                       *)
(***************************************************************************)
CONSTANTS Entries,     \* ids of TribalMemoryEntry rows
          Candidates,  \* ids of KnowledgeCandidate rows
          Jobs,        \* slots for reviews and edits in flight
          None         \* null

ASSUME NoneAssumption == None \notin Entries \cup Candidates

VARIABLES
  status,    \* TribalMemoryEntry.status; "NONE": never created, "DELETED": row gone
  old,       \* its supersedesId
  from,      \* its sourceCandidateId
  verdict,   \* KnowledgeCandidate.status; "NONE": never created
  target,    \* its targetEntryId; with one, suggestedAction is SUPERSEDE
  promoted,  \* its promotedEntryId
  job,       \* confirmations, rejections and edits between two statements
  broken,    \* history: entries that lost their successor halfway or by deletion
  edited,    \* history: entries superseded while an edit of them was in flight
  disputed   \* history: candidates reviewed more than once, or only in part

entries == <<status, old, from>>
cands == <<verdict, target, promoted>>
history == <<broken, edited, disputed>>
vars == <<entries, cands, job, history>>

Statuses == {"ACTIVE", "SUPERSEDED"}
Verdicts == {"TENTATIVE", "CONFIRMED", "REJECTED"}
Exists(e) == status[e] \in Statuses

Quiet == [op |-> "none", pc |-> "idle", cand |-> None, entry |-> None, seen |-> "NONE"]

\* A review or edit between two statements.
JobStates ==
  {Quiet}
    \cup [op : {"confirm"}, pc : {"target", "retire", "create"}, cand : Candidates,
          entry : {None}, seen : {"NONE"}]
    \cup [op : {"confirm"}, pc : {"record"}, cand : Candidates, entry : Entries, seen : {"NONE"}]
    \cup [op : {"reject"}, pc : {"record"}, cand : Candidates, entry : {None}, seen : {"NONE"}]
    \cup [op : {"edit"}, pc : {"write"}, cand : {None}, entry : Entries, seen : Statuses]

End(j) == job' = [job EXCEPT ![j] = Quiet]
Goto(j, pc) == job' = [job EXCEPT ![j].pc = pc]
Fresh(table) == {r \in DOMAIN table : table[r] = "NONE"}

-----------------------------------------------------------------------------
(* Entries *)

\* createEntry, called by the create route.
CreateEntry(e) ==
  /\ e \in Fresh(status)
  /\ status' = [status EXCEPT ![e] = "ACTIVE"]
  /\ UNCHANGED <<old, from, cands, job, history>>

\* updateEntry reads the row ...
BeginEdit(j, e) ==
  /\ job[j] = Quiet
  /\ Exists(e)
  /\ job' = [job EXCEPT ![j] = [op |-> "edit", pc |-> "write", cand |-> None, entry |-> e,
                                seen |-> status[e]]]
  /\ UNCHANGED <<entries, cands, history>>

\* An edit that puts an entry back into force.
WriteActive(j) ==
  LET e == job[j].entry
  IN  /\ job[j].pc = "write"
      /\ status' = IF Exists(e) THEN [status EXCEPT ![e] = "ACTIVE"] ELSE status
      /\ End(j)
      /\ UNCHANGED <<old, from, cands, history>>

\* ... and writes all of it, the status it has read included.
WriteEdit(j) ==
  LET e == job[j].entry
  IN  /\ job[j].pc = "write"
      /\ status' = IF Exists(e) THEN [status EXCEPT ![e] = job[j].seen] ELSE status
      /\ End(j)
      /\ UNCHANGED <<old, from, cands, history>>

\* deleteEntry: the rows that supersede it lose their reference.
DeleteEntry(e) ==
  /\ Exists(e)
  /\ status' = [status EXCEPT ![e] = "DELETED"]
  /\ old' = [n \in Entries |-> IF old[n] = e \/ n = e THEN None ELSE old[n]]
  /\ broken' = broken \cup ({old[e]} \ {None})
  /\ UNCHANGED <<from, cands, job, edited, disputed>>

-----------------------------------------------------------------------------
(* Reviews *)

\* The distiller proposes a candidate, to supersede an entry it has read as active.
Propose(c, e) ==
  /\ c \in Fresh(verdict)
  /\ e # None => status[e] # "NONE"
  /\ verdict' = [verdict EXCEPT ![c] = "TENTATIVE"]
  /\ target' = [target EXCEPT ![c] = e]
  /\ UNCHANGED <<entries, promoted, job, history>>

\* Reading a candidate to review it: its verdict is not looked at.
Reviewing(c) == \E j \in Jobs : job[j].cand = c
Again(c) == verdict[c] # "TENTATIVE" \/ Reviewing(c)

BeginReview(j, op, c, pc) ==
  /\ job[j] = Quiet
  /\ verdict[c] # "NONE"
  /\ job' = [job EXCEPT ![j] = [Quiet EXCEPT !.op = op, !.pc = pc, !.cand = c]]
  /\ disputed' = IF Again(c) THEN disputed \cup {c} ELSE disputed
  /\ UNCHANGED <<entries, cands, broken, edited>>

\* Confirming without a new entry.
ConfirmOnly(j, c) == BeginReview(j, "confirm", c, "record")

BeginConfirm(j, c) ==
  BeginReview(j, "confirm", c, IF target[c] = None THEN "create" ELSE "target")

BeginReject(j, c) == BeginReview(j, "reject", c, "record")

\* supersedeEntry looks for the entry; it may be gone.
ReadTarget(j) ==
  /\ job[j].pc = "target"
  /\ IF Exists(target[job[j].cand]) THEN Goto(j, "retire") ELSE End(j)
  /\ UNCHANGED <<entries, cands, history>>

\* It is marked SUPERSEDED, whatever it was; the update of a deleted row throws.
Retire(j) ==
  LET e == target[job[j].cand]
  IN  /\ job[j].pc = "retire"
      /\ \/ /\ Exists(e)
            /\ status' = [status EXCEPT ![e] = "SUPERSEDED"]
            /\ edited' = IF \E k \in Jobs : job[k].op = "edit" /\ job[k].entry = e
                         THEN edited \cup {e} ELSE edited
            /\ Goto(j, "create")
         \/ /\ ~Exists(e)
            /\ End(j)
            /\ UNCHANGED <<status, edited>>
      /\ UNCHANGED <<old, from, cands, broken, disputed>>

\* The new entry without its lineage.
PromoteUnlinked(j, e) ==
  LET c == job[j].cand
  IN  /\ job[j].pc = "create"
      /\ e \in Fresh(status)
      /\ status' = [status EXCEPT ![e] = "ACTIVE"]
      /\ from' = [from EXCEPT ![e] = c]
      /\ job' = [job EXCEPT ![j].pc = "record", ![j].entry = e]
      /\ UNCHANGED <<old, cands, history>>

\* The new entry points to the one it supersedes, which must still exist.
Promote(j, e) ==
  LET c == job[j].cand
  IN  /\ job[j].pc = "create"
      /\ e \in Fresh(status)
      /\ target[c] # None => Exists(target[c])
      /\ status' = [status EXCEPT ![e] = "ACTIVE"]
      /\ old' = [old EXCEPT ![e] = target[c]]
      /\ from' = [from EXCEPT ![e] = c]
      /\ job' = [job EXCEPT ![j].pc = "record", ![j].entry = e]
      /\ UNCHANGED <<cands, history>>

\* The verdict without the entry it led to.
RecordVerdictOnly(j) ==
  LET c == job[j].cand
  IN  /\ job[j].pc = "record" /\ job[j].op = "confirm"
      /\ verdict' = [verdict EXCEPT ![c] = "CONFIRMED"]
      /\ End(j)
      /\ UNCHANGED <<entries, target, promoted, history>>

\* The candidate's row, at the end of confirmCandidate.
RecordConfirmed(j) ==
  LET c == job[j].cand
  IN  /\ job[j].pc = "record" /\ job[j].op = "confirm"
      /\ verdict' = [verdict EXCEPT ![c] = "CONFIRMED"]
      /\ promoted' = [promoted EXCEPT ![c] = job[j].entry]
      /\ End(j)
      /\ UNCHANGED <<entries, target, history>>

\* rejectCandidate leaves the entry of an earlier confirmation alone.
RecordRejected(j) ==
  LET c == job[j].cand
  IN  /\ job[j].pc = "record" /\ job[j].op = "reject"
      /\ verdict' = [verdict EXCEPT ![c] = "REJECTED"]
      /\ End(j)
      /\ UNCHANGED <<entries, target, promoted, history>>

\* A statement throws, or the process ends: what was written before stays.
Fail(j) ==
  LET c == job[j].cand
  IN  /\ job[j] # Quiet
      /\ End(j)
      /\ broken' = IF job[j].pc = "create" THEN broken \cup ({target[c]} \ {None}) ELSE broken
      /\ disputed' = IF c # None THEN disputed \cup {c} ELSE disputed
      /\ UNCHANGED <<entries, cands, edited>>

-----------------------------------------------------------------------------
Init ==
  /\ status = [e \in Entries |-> "NONE"]
  /\ old = [e \in Entries |-> None]
  /\ from = [e \in Entries |-> None]
  /\ verdict = [c \in Candidates |-> "NONE"]
  /\ target = [c \in Candidates |-> None]
  /\ promoted = [c \in Candidates |-> None]
  /\ job = [j \in Jobs |-> Quiet]
  /\ broken = {} /\ edited = {} /\ disputed = {}

Review(j) ==
  \/ \E c \in Candidates : BeginConfirm(j, c) \/ BeginReject(j, c)
  \/ ReadTarget(j) \/ Retire(j) \/ \E e \in Entries : Promote(j, e)
  \/ RecordConfirmed(j) \/ RecordRejected(j) \/ Fail(j)

Edit(j) == WriteEdit(j) \/ \E e \in Entries : BeginEdit(j, e)

Next ==
  \/ \E e \in Entries : CreateEntry(e) \/ DeleteEntry(e)
  \/ \E j \in Jobs : Review(j) \/ Edit(j)
  \/ \E c \in Candidates, e \in Entries \cup {None} : Propose(c, e)

Spec == Init /\ [][Next]_vars

-----------------------------------------------------------------------------
(* Properties *)

TypeOK ==
  /\ status \in [Entries -> {"NONE", "DELETED"} \cup Statuses]
  /\ old \in [Entries -> Entries \cup {None}]
  /\ from \in [Entries -> Candidates \cup {None}]
  /\ verdict \in [Candidates -> {"NONE"} \cup Verdicts]
  /\ target \in [Candidates -> Entries \cup {None}]
  /\ promoted \in [Candidates -> Entries \cup {None}]
  /\ job \in [Jobs -> JobStates]
  /\ broken \subseteq Entries /\ edited \subseteq Entries
  /\ disputed \subseteq Candidates

\* The lineage has no gap: an entry marked SUPERSEDED has a successor that points to
\* it, is about to get one, or lost it to a failure between the two writes or to a
\* deletion of the successor.
SupersededIsReplaced ==
  \A e \in Entries : status[e] = "SUPERSEDED" =>
    \/ \E n \in Entries : Exists(n) /\ old[n] = e
    \/ \E j \in Jobs : job[j].pc = "create" /\ target[job[j].cand] = e
    \/ e \in broken

\* An entry that was replaced is no longer in force, unless an edit had read it
\* before and wrote the old status back.
ReplacedIsRetired ==
  \A n \in Entries : Exists(n) /\ old[n] # None /\ old[n] \notin edited =>
    status[old[n]] = "SUPERSEDED"

\* What reviews leave behind can be traced: the entry of a confirmation is the
\* promoted entry of its candidate, which is CONFIRMED, and a confirmed candidate
\* has its entry - unless it was reviewed more than once or a review failed.
PromotionIsRecorded ==
  /\ \A e \in Entries : Exists(e) /\ from[e] # None /\ from[e] \notin disputed =>
       \/ verdict[from[e]] = "CONFIRMED" /\ promoted[from[e]] = e
       \/ \E j \in Jobs : job[j].op = "confirm" /\ job[j].pc = "record" /\ job[j].entry = e
  /\ \A c \in Candidates : verdict[c] = "CONFIRMED" =>
       promoted[c] # None /\ from[promoted[c]] = c
=============================================================================
