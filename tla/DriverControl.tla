--------------------------- MODULE DriverControl ---------------------------
(***************************************************************************)
(* The driving right of one live session: the rows LiveSession and         *)
(* SessionParticipant and the database transactions of                     *)
(* src/modules/sessions/session-service.ts that change them.               *)
(*                                                                         *)
(* A transaction is a sequence of statements.  The statements of different *)
(* transactions interleave as READ COMMITTED, PostgreSQL's default, lets   *)
(* them: a read sees what was committed when it runs, a written row stays  *)
(* locked until its transaction ends, nobody sees a write before that.     *)
(* With one element in Txs transactions run one after the other, as under  *)
(* SQLite.                                                                 *)
(***************************************************************************)
EXTENDS FiniteSets

CONSTANTS Users,    \* the members of the workspace
          NoUser,   \* "null" in currentDriverId
          Txs       \* slots for transactions open at the same time

ASSUME NoUserAssumption == NoUser \notin Users

VARIABLES
  driver,     \* LiveSession.currentDriverId; NoUser before the session exists
  running,    \* LiveSession.status = 'RUNNING'
  role,       \* SessionParticipant.role by user; "NONE": no row
  conn,       \* SessionParticipant.status = 'CONNECTED' by user
  requested,  \* users with a DRIVER_REQUESTED event in the session's history
  asked,      \* history variable: users whose last request is unanswered
  tx          \* the open transactions

rows == <<driver, running, role, conn, requested, asked>>
vars == <<rows, tx>>

Transfers == {"approve", "handoff"}
Idle == [op |-> "none", by |-> NoUser, to |-> NoUser, pc |-> "idle"]

TxStates ==
  {Idle}
    \cup [op : Transfers, by : Users, to : Users,
          pc : {"target", "current", "demote", "promote", "swap"}]
    \cup [op : {"disconnect"}, by : Users, to : {NoUser},
          pc : {"session", "part", "mark", "pause"}]

-----------------------------------------------------------------------------
(* Row locks *)

\* The participant rows a transaction has written and not yet committed.
Holds(t) ==
  CASE tx[t].pc = "promote" -> {tx[t].by}
    [] tx[t].pc = "swap"    -> {tx[t].by, tx[t].to}
    [] tx[t].pc = "pause"   -> {tx[t].by}
    [] OTHER                -> {}

\* Nobody but t keeps the participant row of u locked.
Free(t, u) == \A s \in Txs \ {t} : u \notin Holds(s)

Goto(t, pc) == tx' = [tx EXCEPT ![t].pc = pc]
End(t) == tx' = [tx EXCEPT ![t] = Idle]

\* A thrown error, a deadlock the database breaks, an expired transaction:
\* everything the transaction wrote is undone.
Rollback(t) == End(t) /\ UNCHANGED rows

-----------------------------------------------------------------------------
(* The operations of one statement *)

\* createSession: the row, its DRIVER participant and the first event.
CreateSession(u) ==
  /\ driver = NoUser
  /\ driver' = u
  /\ role' = [role EXCEPT ![u] = "DRIVER"]
  /\ conn' = [conn EXCEPT ![u] = TRUE]
  /\ UNCHANGED <<running, requested, asked, tx>>

\* A join that gives the workspace role instead of the session role.
JoinWithWorkspaceRole(u) ==
  /\ driver # NoUser
  /\ conn' = [conn EXCEPT ![u] = TRUE]
  /\ role' = [role EXCEPT ![u] = IF @ = "NONE" THEN "MEMBER" ELSE @]
  /\ UNCHANGED <<driver, running, requested, asked, tx>>

\* A join that hands the seat of a disconnected Driver to whoever comes in.
JoinTakesOver(u) ==
  /\ driver # NoUser
  /\ \A t \in Txs : u \notin Holds(t)
  /\ conn' = [conn EXCEPT ![u] = TRUE]
  /\ driver' = IF conn[driver] THEN driver ELSE u
  /\ role' = [role EXCEPT ![driver] = "OBSERVER", ![u] = IF driver' = u THEN "DRIVER" ELSE "OBSERVER"]
  /\ UNCHANGED <<running, requested, asked, tx>>

\* joinSession: a new participant is an OBSERVER, a returning one keeps its role.
JoinSession(u) ==
  /\ driver # NoUser
  /\ \A t \in Txs : u \notin Holds(t)
  /\ conn' = [conn EXCEPT ![u] = TRUE]
  /\ role' = [role EXCEPT ![u] = IF @ = "NONE" THEN "OBSERVER" ELSE @]
  /\ UNCHANGED <<driver, running, requested, asked, tx>>

\* requestDriver: appends DRIVER_REQUESTED, which nothing removes.
RequestDriver(u) ==
  /\ driver # NoUser
  /\ conn[u] /\ role[u] = "OBSERVER"
  /\ requested' = requested \cup {u}
  /\ asked' = asked \cup {u}
  /\ UNCHANGED <<driver, running, role, conn, tx>>

\* Every other write of LiveSession.status belongs to the session runner.
RunnerSetsStatus ==
  /\ driver # NoUser
  /\ running' = ~running
  /\ UNCHANGED <<driver, role, conn, requested, asked, tx>>

-----------------------------------------------------------------------------
(* approveDriverRequest and handoffDriver, statement by statement *)

\* Both begin with the session row: only its current driver goes on.
BeginTransfer(t, op, n) ==
  /\ tx[t] = Idle
  /\ driver # NoUser
  /\ tx' = [tx EXCEPT ![t] = [op |-> op, by |-> driver, to |-> n, pc |-> "target"]]
  /\ UNCHANGED rows

\* The receiver is a connected OBSERVER; to approve, the approver is connected
\* and the receiver has a request somewhere in the history.
TargetOK(t) ==
  /\ conn[tx[t].to] /\ role[tx[t].to] = "OBSERVER"
  /\ tx[t].op = "approve" => conn[tx[t].by] /\ tx[t].to \in requested

CheckTarget(t) ==
  /\ tx[t].pc = "target"
  /\ TargetOK(t)
  /\ Goto(t, "current")
  /\ UNCHANGED rows

\* transferDriver reads the giver's row again.
CheckCurrent(t) ==
  /\ tx[t].pc = "current"
  /\ conn[tx[t].by] /\ role[tx[t].by] = "DRIVER"
  /\ Goto(t, "demote")
  /\ UNCHANGED rows

\* A demotion on the global client instead of the transaction's: no lock is taken.
DemoteOutside(t) ==
  /\ tx[t].pc = "demote"
  /\ Goto(t, "promote")
  /\ UNCHANGED rows

\* The first write of transferDriver waits for the giver's row.
Demote(t) ==
  /\ tx[t].pc = "demote"
  /\ Free(t, tx[t].by)
  /\ Goto(t, "promote")
  /\ UNCHANGED rows

\* The second waits for the receiver's.
Promote(t) ==
  /\ tx[t].pc = "promote"
  /\ Free(t, tx[t].to)
  /\ Goto(t, "swap")
  /\ UNCHANGED rows

\* What the commit publishes: both roles, the driver and the event.
Commit(t) ==
  /\ driver' = tx[t].to
  /\ role' = [role EXCEPT ![tx[t].by] = "OBSERVER", ![tx[t].to] = "DRIVER"]
  /\ asked' = asked \ {tx[t].to}
  /\ End(t)
  /\ UNCHANGED <<running, conn, requested>>

\* A transfer that writes currentDriverId without comparing it first.
SwapBlindly(t) == tx[t].pc = "swap" /\ Commit(t)

\* updateMany ... where currentDriverId is still the giver: the compare and set
\* on the session row decides whether the transaction commits.
Swap(t) ==
  /\ tx[t].pc = "swap"
  /\ driver = tx[t].by
  /\ Commit(t)

\* Every throw above, and every transaction the database gives up on.
Abort(t) == tx[t] # Idle /\ Rollback(t)

-----------------------------------------------------------------------------
(* The socket's disconnect handler and pauseForDisconnect *)

\* findMany, outside any transaction: u drives this session and it is RUNNING.
SocketDisconnect(t) ==
  /\ tx[t] = Idle
  /\ driver # NoUser /\ running
  /\ tx' = [tx EXCEPT ![t] =
              [op |-> "disconnect", by |-> driver, to |-> NoUser, pc |-> "session"]]
  /\ UNCHANGED rows

ReadSession(t) ==
  /\ tx[t].pc = "session"
  /\ IF driver = tx[t].by THEN Goto(t, "part") ELSE End(t)
  /\ UNCHANGED rows

ReadParticipant(t) ==
  /\ tx[t].pc = "part"
  /\ IF role[tx[t].by] = "DRIVER" THEN Goto(t, "mark") ELSE End(t)
  /\ UNCHANGED rows

Mark(t) ==
  /\ tx[t].pc = "mark"
  /\ Free(t, tx[t].by)
  /\ Goto(t, "pause")
  /\ UNCHANGED rows

\* The participant is DISCONNECTED and the session PAUSED, whatever it was.
Pause(t) ==
  /\ tx[t].pc = "pause"
  /\ conn' = [conn EXCEPT ![tx[t].by] = FALSE]
  /\ running' = FALSE
  /\ End(t)
  /\ UNCHANGED <<driver, role, requested, asked>>

-----------------------------------------------------------------------------
Init ==
  /\ driver = NoUser
  /\ running = FALSE
  /\ role = [u \in Users |-> "NONE"]
  /\ conn = [u \in Users |-> FALSE]
  /\ requested = {}
  /\ asked = {}
  /\ tx = [t \in Txs |-> Idle]

Next ==
  \/ RunnerSetsStatus
  \/ \E u \in Users : CreateSession(u) \/ JoinSession(u) \/ RequestDriver(u)
  \/ \E t \in Txs :
       \/ \E op \in Transfers, n \in Users : BeginTransfer(t, op, n)
       \/ CheckTarget(t) \/ CheckCurrent(t) \/ Demote(t) \/ Promote(t) \/ Swap(t)
       \/ SocketDisconnect(t) \/ ReadSession(t) \/ ReadParticipant(t)
       \/ Mark(t) \/ Pause(t)
       \/ Abort(t)

Spec == Init /\ [][Next]_vars

-----------------------------------------------------------------------------
(* Properties *)

TypeOK ==
  /\ driver \in Users \cup {NoUser}
  /\ running \in BOOLEAN
  /\ role \in [Users -> {"NONE", "OBSERVER", "DRIVER"}]
  /\ conn \in [Users -> BOOLEAN]
  /\ requested \in SUBSET Users
  /\ asked \in SUBSET Users
  /\ tx \in [Txs -> TxStates]

\* At every commit exactly one participant has the role DRIVER, and it is the
\* user in currentDriverId: however many approvals, handoffs and disconnects
\* read the same driver before one of them committed, at most one goes through.
SingleDriver ==
  {u \in Users : role[u] = "DRIVER"} = {driver} \ {NoUser}

\* Once a transfer has written the row of the user who still drives, no other
\* transaction moves the driver: its compare and set is then bound to succeed.
HandoverIsExclusive ==
  [][\A t \in Txs :
       tx[t].pc \in {"promote", "swap"} /\ driver = tx[t].by /\ driver' # driver
         => tx'[t] = Idle]_vars

\* The driving right as a token: it moves only by a transfer its holder began
\* and that commits while he is still the holder.  In particular a disconnect,
\* a join or a runner's status write never promotes anybody.
Offered == [t \in Txs |-> IF tx[t].op \in Transfers THEN <<tx[t].by, tx[t].to>>
                                                    ELSE <<NoUser, NoUser>>]

Token == INSTANCE DriverToken WITH Offers <- Txs, holder <- driver, offer <- Offered
TokenSpec == Token!TokenSpec

\* An approval answers a request that has not been answered yet ("No pending
\* Driver request found").  The code keeps no such state and looks for any
\* DRIVER_REQUESTED event of the receiver in the session's whole history.
ApprovalAnswersPendingRequest ==
  [][\A t \in Txs :
       tx[t].op = "approve" /\ tx[t].pc = "swap" /\ tx'[t] = Idle /\ driver' # driver
         => tx[t].to \in asked]_vars
=============================================================================
