--------------------------- MODULE SkillLifecycle ---------------------------
(***************************************************************************)
(* The skill entries of one workspace, src/modules/skills/                 *)
(* skill-service.ts: candidates, edits, the review transactions and the    *)
(* versions they leave.                                                    *)
(*                                                                         *)
(* As in DriverControl the statements of transactions interleave as READ   *)
(* COMMITTED lets them: a row a transaction wrote stays locked until it    *)
(* ends, and nobody sees what it wrote before it commits.  An edit is a    *)
(* read and a write outside a transaction.  The session events and the     *)
(* audit row, whose failure is swallowed, are left out.                    *)
(***************************************************************************)
EXTENDS Naturals

CONSTANTS Ids,         \* ids of skill entries
          Contents,    \* what title, rule, ... of an entry may be
          Txs,         \* slots for edits and reviews in flight
          MaxReviews,  \* bound: reviews recorded
          None         \* no entry, no content

ASSUME NoneAssumption == None \notin Ids

VARIABLES
  status,     \* SkillEntry.status; "NONE": no row
  content,    \* its editable fields
  old,        \* SkillEntry.supersedesId
  review,     \* the newest SkillReview of the entry: when and what; at = 0: none
  clock,      \* number of reviews recorded, which orders them
  tx,         \* the edits and reviews in flight
  confirmed   \* history: entries that have ever been CONFIRMED

rows == <<status, content, old, review, confirmed>>
vars == <<rows, clock, tx>>

Idle == [op |-> "none", pc |-> "idle", skill |-> None, new |-> None, at |-> 0]
NoReview == [at |-> 0, decision |-> "NONE"]
Decisions == {"CONFIRMED", "REJECTED"}
Reviews == {"confirm", "reject", "supersede"}

\* An edit or review between two statements.
TxStates ==
  {Idle}
    \cup [op : {"edit"}, pc : {"write"}, skill : Ids, new : {None}, at : {0}]
    \cup [op : Reviews, pc : {"update", "record"}, skill : Ids, new : {None}, at : {0}]
    \cup [op : {"confirm", "reject"}, pc : {"commit"}, skill : Ids, new : {None}, at : Nat]
    \cup [op : {"supersede"}, pc : {"commit"}, skill : Ids, new : Ids, at : Nat]

\* The row t has written and not yet committed.
Holds(t, s) == tx[t].pc \in {"record", "commit"} /\ tx[t].skill = s
Free(t, s) == \A u \in Txs \ {t} : ~Holds(u, s)

\* Ids that no row has, committed or not.
FreshIds == {s \in Ids : status[s] = "NONE" /\ \A t \in Txs : tx[t].new # s}

Goto(t, pc) == tx' = [tx EXCEPT ![t].pc = pc]
End(t) == tx' = [tx EXCEPT ![t] = Idle]

-----------------------------------------------------------------------------
(* Candidates and edits *)

\* A candidate with the status of knowledge candidates.
CreatePending(s, v) ==
  /\ s \in FreshIds
  /\ status' = [status EXCEPT ![s] = "PENDING"]
  /\ content' = [content EXCEPT ![s] = v]
  /\ UNCHANGED <<old, review, confirmed, clock, tx>>

\* createCandidate: a correction distilled in a session, or one typed in.
CreateCandidate(s, v) ==
  /\ s \in FreshIds
  /\ status' = [status EXCEPT ![s] = "TENTATIVE"]
  /\ content' = [content EXCEPT ![s] = v]
  /\ UNCHANGED <<old, review, confirmed, clock, tx>>

\* updateCandidate reads the row and its status ...
BeginEdit(t, s) ==
  /\ tx[t] = Idle
  /\ status[s] \notin {"NONE", "CONFIRMED"}
  /\ tx' = [tx EXCEPT ![t] = [Idle EXCEPT !.op = "edit", !.pc = "write", !.skill = s]]
  /\ UNCHANGED <<rows, clock>>

\* ... and writes the fields, whatever the status is by then.
WriteEdit(t, v) ==
  /\ tx[t].pc = "write"
  /\ Free(t, tx[t].skill)
  /\ content' = [content EXCEPT ![tx[t].skill] = v]
  /\ End(t)
  /\ UNCHANGED <<status, old, review, confirmed, clock>>

-----------------------------------------------------------------------------
(* confirmSkill, rejectSkill, supersedeSkill *)

\* The entry is read; its status is not looked at.
BeginReview(t, op, s) ==
  /\ tx[t] = Idle
  /\ status[s] # "NONE"
  /\ tx' = [tx EXCEPT ![t] = [Idle EXCEPT !.op = op, !.pc = "update", !.skill = s]]
  /\ UNCHANGED <<rows, clock>>

\* The status update without a transaction around it.
UpdateAtOnce(t) ==
  /\ tx[t].pc = "update"
  /\ Free(t, tx[t].skill)
  /\ Goto(t, "record")
  /\ status' = [status EXCEPT ![tx[t].skill] =
                  CASE tx[t].op = "confirm" -> "CONFIRMED"
                    [] tx[t].op = "reject" -> "REJECTED"
                    [] OTHER -> "SUPERSEDED"]
  /\ UNCHANGED <<content, old, review, confirmed, clock>>

\* The review first and the row last: nothing is locked while it is recorded.
UpdateWithoutLock(t) ==
  /\ tx[t].pc = "update"
  /\ Goto(t, "record")
  /\ UNCHANGED <<rows, clock>>

\* The update of the status: it waits until the row is free and keeps it.
Update(t) ==
  /\ tx[t].pc = "update"
  /\ Free(t, tx[t].skill)
  /\ Goto(t, "record")
  /\ UNCHANGED <<rows, clock>>

\* The inserts: the review and, to supersede, before it the new version.
Record(t) ==
  /\ tx[t].pc = "record"
  /\ clock < MaxReviews
  /\ clock' = clock + 1
  /\ \/ /\ tx[t].op \in {"confirm", "reject"}
        /\ tx' = [tx EXCEPT ![t].pc = "commit", ![t].at = clock']
     \/ /\ tx[t].op = "supersede"
        /\ \E n \in FreshIds :
             tx' = [tx EXCEPT ![t].pc = "commit", ![t].at = clock', ![t].new = n]
  /\ UNCHANGED rows

\* The commit of a confirmation or rejection; reviews are read newest first.
Decide(t, decision) ==
  LET s == tx[t].skill
  IN  /\ tx[t].pc = "commit"
      /\ status' = [status EXCEPT ![s] = decision]
      /\ review' = [review EXCEPT ![s] = IF @.at > tx[t].at THEN @
                                         ELSE [at |-> tx[t].at, decision |-> decision]]
      /\ confirmed' = IF decision = "CONFIRMED" THEN confirmed \cup {s} ELSE confirmed
      /\ End(t)
      /\ UNCHANGED <<content, old, clock>>

Confirm(t) == tx[t].op = "confirm" /\ Decide(t, "CONFIRMED")
Reject(t) == tx[t].op = "reject" /\ Decide(t, "REJECTED")

\* The commit of a supersession: the new version is CONFIRMED and points to the
\* one it replaces, whose row keeps its content.
Supersede(t, v) ==
  LET n == tx[t].new
  IN  /\ tx[t].op = "supersede" /\ tx[t].pc = "commit"
      /\ status' = [status EXCEPT ![tx[t].skill] = "SUPERSEDED", ![n] = "CONFIRMED"]
      /\ content' = [content EXCEPT ![n] = v]
      /\ old' = [old EXCEPT ![n] = tx[t].skill]
      /\ review' = [review EXCEPT ![n] = [at |-> tx[t].at, decision |-> "CONFIRMED"]]
      /\ confirmed' = confirmed \cup {n}
      /\ End(t)
      /\ UNCHANGED clock

\* A statement throws or the transaction expires: nothing of it stays.
Abort(t) ==
  /\ tx[t] # Idle
  /\ End(t)
  /\ UNCHANGED <<rows, clock>>

-----------------------------------------------------------------------------
Init ==
  /\ status = [s \in Ids |-> "NONE"]
  /\ content = [s \in Ids |-> None]
  /\ old = [s \in Ids |-> None]
  /\ review = [s \in Ids |-> NoReview]
  /\ clock = 0
  /\ tx = [t \in Txs |-> Idle]
  /\ confirmed = {}

Run(t) ==
  \/ \E s \in Ids : BeginEdit(t, s) \/ \E op \in Reviews : BeginReview(t, op, s)
  \/ \E v \in Contents : WriteEdit(t, v) \/ Supersede(t, v)
  \/ Update(t) \/ Record(t) \/ Confirm(t) \/ Reject(t) \/ Abort(t)

Next ==
  \/ \E s \in Ids, v \in Contents : CreateCandidate(s, v)
  \/ \E t \in Txs : Run(t)

Spec == Init /\ [][Next]_vars

-----------------------------------------------------------------------------
(* Properties *)

TypeOK ==
  /\ status \in [Ids -> {"NONE", "TENTATIVE", "SUPERSEDED"} \cup Decisions]
  /\ content \in [Ids -> Contents \cup {None}]
  /\ old \in [Ids -> Ids \cup {None}]
  /\ review \in [Ids -> [at : Nat, decision : {"NONE"} \cup Decisions]]
  /\ clock \in Nat
  /\ tx \in [Txs -> TxStates]
  /\ confirmed \subseteq Ids

\* A decided skill can be accounted for: whoever reads its newest review reads the
\* decision the skill is in, however reviews of it raced, failed or were repeated.
ReviewExplainsStatus ==
  \A s \in Ids : status[s] \in Decisions => review[s].decision = status[s]

\* History is kept: a superseded skill has a version that replaced it, and that
\* version was confirmed.
SupersededHasSuccessor ==
  \A s \in Ids : status[s] = "SUPERSEDED" =>
    \E n \in confirmed : n # s /\ old[n] = s /\ status[n] # "NONE"

\* "Confirmed entries are immutable versions for audit purposes": an entry that was
\* confirmed and not rejected, in force or superseded, keeps its content.
ConfirmedIsImmutable ==
  [][\A s \in confirmed : status[s] # "REJECTED" => content'[s] = content[s]]_vars
=============================================================================
