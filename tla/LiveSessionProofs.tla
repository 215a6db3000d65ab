------------------------- MODULE LiveSessionProofs --------------------------
(***************************************************************************)
(* A live session, for every set of users, pages, handlers and calls and   *)
(* every number of open transactions.                                      *)
(*                                                                         *)
(* DriverControl keeps its types, has a single driver at every commit,     *)
(* never lets two transactions move the driver at once, and implements     *)
(* DriverToken.                                                            *)
(*                                                                         *)
(* SessionPage keeps its types, and every page in the room shows the last  *)
(* event of the session or has a reason not to.  The two components share  *)
(* no variable: each theorem is about one of them.                         *)
(***************************************************************************)
EXTENDS DriverControl, SessionPage, SequenceTheorems, TLAPS

-----------------------------------------------------------------------------
(* The driving right *)

\* The row locks are exclusive: what makes a transfer that has written the
\* giver's row the only one that can still commit.
LocksExclusive ==
  \A s, t \in Txs : s # t => Holds(s) \cap Holds(t) = {}

IInv == TypeOK /\ SingleDriver /\ LocksExclusive

-----------------------------------------------------------------------------
\* A state of a transaction that has begun: which rows it holds and what its
\* fields are, by the kind of operation.
LEMMA TxFacts ==
  ASSUME TypeOK, NEW t \in Txs
  PROVE  /\ tx[t].op \in Transfers => tx[t].by \in Users /\ tx[t].to \in Users
         /\ tx[t].pc \in {"target", "current", "demote", "promote", "swap"}
              => tx[t].op \in Transfers
         /\ tx[t].pc \in {"session", "part", "mark", "pause"}
              => tx[t].op = "disconnect" /\ tx[t].by \in Users
         /\ tx[t].op \notin Transfers /\ tx[t].op # "disconnect" => tx[t] = Idle
         /\ tx[t] # Idle => tx[t].op \in Transfers \cup {"disconnect"}
  BY DEF TypeOK, TxStates, Idle, Transfers

\* Initially nobody drives and nothing is open.
LEMMA InitIInv == Init => IInv
<1> SUFFICES ASSUME Init
             PROVE  IInv
  OBVIOUS
<1>1. TypeOK
  BY DEF Init, TypeOK, TxStates
<1>2. SingleDriver
  BY NoUserAssumption DEF Init, SingleDriver
<1>3. \A t \in Txs : Holds(t) = {}
  BY DEF Init, Holds, Idle
<1>4. LocksExclusive
  BY <1>3 DEF LocksExclusive
<1>5. QED
  BY <1>1, <1>2, <1>4 DEF IInv

\* Every step keeps the types.
LEMMA TypeStep == TypeOK /\ [Next]_vars => TypeOK'
<1> SUFFICES ASSUME TypeOK, [Next]_vars
             PROVE  TypeOK'
  OBVIOUS
<1> USE DEF TypeOK, rows, vars
<1>1. CASE UNCHANGED vars
  BY <1>1
<1>2. CASE RunnerSetsStatus
  BY <1>2 DEF RunnerSetsStatus
<1>3. ASSUME NEW u \in Users, CreateSession(u) \/ JoinSession(u) \/ RequestDriver(u)
      PROVE  TypeOK'
  BY <1>3 DEF CreateSession, JoinSession, RequestDriver
<1>4. ASSUME NEW t \in Txs, NEW op \in Transfers, NEW n \in Users,
             BeginTransfer(t, op, n)
      PROVE  TypeOK'
  <2>1. driver \in Users
    BY <1>4 DEF BeginTransfer
  <2>2. [op |-> op, by |-> driver, to |-> n, pc |-> "target"] \in TxStates
    BY <2>1 DEF TxStates
  <2>3. QED
    BY <1>4, <2>2 DEF BeginTransfer
<1>5. ASSUME NEW t \in Txs,
             CheckTarget(t) \/ CheckCurrent(t) \/ Demote(t) \/ Promote(t)
      PROVE  TypeOK'
  <2>1. PICK pc \in {"current", "demote", "promote", "swap"} :
          Goto(t, pc) /\ UNCHANGED rows
    BY <1>5 DEF CheckTarget, CheckCurrent, Demote, Promote
  <2>2. tx[t].op \in Transfers /\ tx[t].by \in Users /\ tx[t].to \in Users
    BY <1>5, TxFacts DEF CheckTarget, CheckCurrent, Demote, Promote
  <2>3. [tx[t] EXCEPT !.pc = pc] \in TxStates
    BY <2>2 DEF TxStates, Idle, Transfers
  <2>4. QED
    BY <2>1, <2>3 DEF Goto
<1>6. ASSUME NEW t \in Txs, Swap(t)
      PROVE  TypeOK'
  BY <1>6, TxFacts DEF Swap, Commit, End, TxStates
<1>7. ASSUME NEW t \in Txs, SocketDisconnect(t)
      PROVE  TypeOK'
  <2>1. [op |-> "disconnect", by |-> driver, to |-> NoUser, pc |-> "session"]
          \in TxStates
    BY <1>7 DEF SocketDisconnect, TxStates
  <2>2. QED
    BY <1>7, <2>1 DEF SocketDisconnect
<1>8. ASSUME NEW t \in Txs, ReadSession(t) \/ ReadParticipant(t) \/ Mark(t)
      PROVE  TypeOK'
  <2>1. /\ \/ End(t)
           \/ \E pc \in {"part", "mark", "pause"} : Goto(t, pc)
        /\ UNCHANGED rows
    BY <1>8 DEF ReadSession, ReadParticipant, Mark
  <2>2. tx[t].op = "disconnect" /\ tx[t].by \in Users /\ tx[t].to = NoUser
    BY <1>8 DEF ReadSession, ReadParticipant, Mark, TxStates, Idle
  <2>3. \A pc \in {"part", "mark", "pause"} : [tx[t] EXCEPT !.pc = pc] \in TxStates
    BY <2>2 DEF TxStates, Idle
  <2>4. QED
    BY <2>1, <2>3 DEF Goto, End, TxStates
<1>9. ASSUME NEW t \in Txs, Pause(t) \/ Abort(t)
      PROVE  TypeOK'
  BY <1>9 DEF Pause, Abort, Rollback, End, TxStates
<1>10. QED
  BY <1>1, <1>2, <1>3, <1>4, <1>5, <1>6, <1>7, <1>8, <1>9 DEF Next

-----------------------------------------------------------------------------
\* Every step keeps the driver single.  Only three actions write roles.
LEMMA SingleDriverStep ==
  TypeOK /\ SingleDriver /\ [Next]_vars => SingleDriver'
<1> SUFFICES ASSUME TypeOK, SingleDriver, [Next]_vars
             PROVE  SingleDriver'
  OBVIOUS
<1> USE NoUserAssumption DEF TypeOK, SingleDriver, rows, vars
<1>1. CASE UNCHANGED <<driver, role>>
  BY <1>1
<1>2. ASSUME NEW u \in Users, CreateSession(u)
      PROVE  SingleDriver'
  BY <1>2 DEF CreateSession
<1>3. ASSUME NEW u \in Users, JoinSession(u)
      PROVE  SingleDriver'
  BY <1>3 DEF JoinSession
<1>4. ASSUME NEW t \in Txs, Swap(t)
      PROVE  SingleDriver'
  <2>1. tx[t].by \in Users /\ tx[t].to \in Users
    BY <1>4, TxFacts DEF Swap
  <2>2. driver = tx[t].by /\ driver' = tx[t].to
        /\ role' = [role EXCEPT ![tx[t].by] = "OBSERVER", ![tx[t].to] = "DRIVER"]
    BY <1>4 DEF Swap, Commit
  <2>3. \A u \in Users : role'[u] = "DRIVER" <=> u = tx[t].to
    BY <2>1, <2>2
  <2>4. QED
    BY <2>1, <2>2, <2>3
<1>5. QED
  BY <1>1, <1>2, <1>3, <1>4
     DEF Next, RunnerSetsStatus, RequestDriver, BeginTransfer, CheckTarget,
         CheckCurrent, Demote, Promote, SocketDisconnect, ReadSession,
         ReadParticipant, Mark, Pause, Abort, Rollback

-----------------------------------------------------------------------------
\* A step in which t takes at most rows nobody else holds, and the other
\* transactions stay put, keeps the locks exclusive.
LEMMA LockStep ==
  ASSUME LocksExclusive, NEW t \in Txs,
         \A s \in Txs \ {t} : Holds(s)' = Holds(s),
         \A s \in Txs \ {t} : Holds(t)' \cap Holds(s) = {}
  PROVE  LocksExclusive'
  BY DEF LocksExclusive

\* Every step keeps the row locks exclusive.
LEMMA LocksStep ==
  TypeOK /\ LocksExclusive /\ [Next]_vars => LocksExclusive'
<1> SUFFICES ASSUME TypeOK, LocksExclusive, [Next]_vars
             PROVE  LocksExclusive'
  OBVIOUS
<1> USE DEF TypeOK, rows, vars
<1>1. CASE UNCHANGED tx
  BY <1>1 DEF LocksExclusive, Holds
<1>2. ASSUME NEW t \in Txs, NEW x \in TxStates,
             tx' = [tx EXCEPT ![t] = x],
             x.pc \notin {"promote", "swap", "pause"}
      PROVE  LocksExclusive'
  <2>1. Holds(t)' = {}
    BY <1>2 DEF Holds
  <2>2. \A s \in Txs \ {t} : Holds(s)' = Holds(s)
    BY <1>2 DEF Holds
  <2>3. QED
    BY <2>1, <2>2, LockStep
<1>3. ASSUME NEW t \in Txs,
             Demote(t) \/ Promote(t) \/ Mark(t)
      PROVE  LocksExclusive'
  <2>1. \A s \in Txs \ {t} : tx'[s] = tx[s]
    BY <1>3 DEF Demote, Promote, Mark, Goto
  <2>2. \A s \in Txs \ {t} : Holds(s)' = Holds(s)
    BY <2>1 DEF Holds
  <2>3. CASE Demote(t) \/ Mark(t)
    <3>1. tx[t].op \in Transfers \cup {"disconnect"}
      BY <2>3, TxFacts DEF Demote, Mark
    <3>2. tx'[t].pc \in {"promote", "pause"} /\ tx'[t].by = tx[t].by
      BY <2>3, <3>1 DEF Demote, Mark, Goto, TxStates, Idle
    <3>3. Holds(t)' = {tx[t].by}
      BY <3>2 DEF Holds
    <3>4. Free(t, tx[t].by)
      BY <2>3 DEF Demote, Mark
    <3>5. QED
      BY <3>3, <3>4, <2>2, LockStep DEF Free
  <2>4. CASE Promote(t)
    <3>1. /\ tx[t].pc = "promote"
          /\ tx'[t].pc = "swap" /\ tx'[t].by = tx[t].by /\ tx'[t].to = tx[t].to
      BY <2>4 DEF Promote, Goto
    <3>2. Holds(t) = {tx[t].by} /\ Holds(t)' = {tx[t].by, tx[t].to}
      BY <3>1 DEF Holds
    <3>3. Free(t, tx[t].to)
      BY <2>4 DEF Promote
    <3>4. \A s \in Txs \ {t} : Holds(t)' \cap Holds(s) = {}
      BY <3>2, <3>3 DEF Free, LocksExclusive
    <3>5. QED
      BY <3>4, <2>2, LockStep
  <2>5. QED
    BY <1>3, <2>3, <2>4
<1>4. ASSUME NEW t \in Txs, NEW pc \in {"current", "demote", "part", "mark"},
             Goto(t, pc), tx[t] # Idle, TypeOK'
      PROVE  LocksExclusive'
  <2>1. tx' = [tx EXCEPT ![t] = [tx[t] EXCEPT !.pc = pc]]
    BY <1>4 DEF Goto
  <2>2. [tx[t] EXCEPT !.pc = pc] \in TxStates /\ [tx[t] EXCEPT !.pc = pc].pc = pc
    BY <1>4, <2>1 DEF TxStates, Idle
  <2>3. QED
    BY <1>2, <2>1, <2>2
<1>5. ASSUME NEW t \in Txs, End(t)
      PROVE  LocksExclusive'
  BY <1>5, <1>2 DEF End, Idle, TxStates
<1>6. ASSUME NEW t \in Txs, NEW op \in Transfers, NEW n \in Users,
             BeginTransfer(t, op, n)
      PROVE  LocksExclusive'
  <2>1. [op |-> op, by |-> driver, to |-> n, pc |-> "target"] \in TxStates
    BY <1>6 DEF BeginTransfer, TxStates
  <2>2. QED
    BY <1>6, <2>1, <1>2 DEF BeginTransfer
<1>7. ASSUME NEW t \in Txs, SocketDisconnect(t)
      PROVE  LocksExclusive'
  <2>1. [op |-> "disconnect", by |-> driver, to |-> NoUser, pc |-> "session"]
          \in TxStates
    BY <1>7 DEF SocketDisconnect, TxStates
  <2>2. QED
    BY <1>7, <2>1, <1>2 DEF SocketDisconnect
<1>8. ASSUME NEW t \in Txs,
             CheckTarget(t) \/ CheckCurrent(t) \/ ReadSession(t) \/ ReadParticipant(t)
      PROVE  LocksExclusive'
  <2>1. tx[t] # Idle
    BY <1>8 DEF CheckTarget, CheckCurrent, ReadSession, ReadParticipant, Idle
  <2>2. TypeOK'
    BY TypeStep
  <2>3. QED
    BY <1>8, <2>1, <2>2, <1>4, <1>5
       DEF CheckTarget, CheckCurrent, ReadSession, ReadParticipant
<1>9. QED
  BY <1>1, <1>3, <1>5, <1>6, <1>7, <1>8
     DEF Next, RunnerSetsStatus, CreateSession, JoinSession, RequestDriver,
         Swap, Commit, Pause, Abort, Rollback

-----------------------------------------------------------------------------
\* The inductive invariant of the component.
LEMMA Invariance == Spec => []IInv
<1>1. IInv /\ [Next]_vars => IInv'
  BY TypeStep, SingleDriverStep, LocksStep DEF IInv
<1>2. QED
  BY InitIInv, <1>1, PTL DEF Spec

\* The variables of driver control stay within their types.
THEOREM TypeCorrect == Spec => []TypeOK
<1>1. IInv => TypeOK
  BY DEF IInv
<1>2. QED
  BY <1>1, Invariance, PTL

\* Exactly one participant drives and it is currentDriverId, for any number of
\* transfers and disconnects that read the same driver at the same time.
THEOREM DriverIsSingle == Spec => []SingleDriver
<1>1. IInv => SingleDriver
  BY DEF IInv
<1>2. QED
  BY <1>1, Invariance, PTL

\* While a transfer holds the row of the user who drives, nobody else moves the
\* driver.
THEOREM HandoverExclusive == Spec => HandoverIsExclusive
<1>1. IInv /\ [Next]_vars =>
        [\A t \in Txs :
           tx[t].pc \in {"promote", "swap"} /\ driver = tx[t].by /\ driver' # driver
             => tx'[t] = Idle]_vars
  <2> SUFFICES ASSUME IInv, [Next]_vars, NEW t \in Txs,
                      tx[t].pc \in {"promote", "swap"}, driver = tx[t].by,
                      driver' # driver
               PROVE  tx'[t] = Idle
    OBVIOUS
  <2>1. tx[t].by \in Users
    BY TxFacts DEF IInv
  <2>2. PICK s \in Txs : Swap(s)
    BY <2>1, NoUserAssumption
       DEF Next, vars, rows, CreateSession, RunnerSetsStatus, JoinSession,
           RequestDriver, BeginTransfer, CheckTarget, CheckCurrent, Demote, Promote,
           SocketDisconnect, ReadSession, ReadParticipant, Mark, Pause, Abort, Rollback
  <2>3. driver \in Holds(t) /\ driver \in Holds(s)
    BY <2>2 DEF Swap, Holds
  <2>4. s = t
    BY <2>3 DEF IInv, LocksExclusive
  <2>5. QED
    BY <2>2, <2>4 DEF Swap, Commit, End, IInv, TypeOK
<1>2. QED
  BY <1>1, Invariance, PTL DEF Spec, HandoverIsExclusive

-----------------------------------------------------------------------------
\* A step of one transaction that keeps the kind of operation and both users, or
\* moves between operations that offer nothing, leaves every offer as it is.
LEMMA OffersKept ==
  ASSUME TypeOK, NEW t \in Txs, NEW x, tx' = [tx EXCEPT ![t] = x],
         \/ x.op = tx[t].op /\ x.by = tx[t].by /\ x.to = tx[t].to
         \/ x.op \notin Transfers /\ tx[t].op \notin Transfers
  PROVE  Offered' = Offered
<1>1. \A s \in Txs : Offered'[s] = Offered[s]
  BY DEF TypeOK, Offered
<1>2. QED
  BY <1>1 DEF Offered

\* Every step of driver control is a step of the token, or none.
LEMMA TokenStep ==
  TypeOK /\ [Next]_vars => [Token!TokenNext]_(Token!tokenVars)
<1> SUFFICES ASSUME TypeOK, [Next]_vars
             PROVE  [Token!TokenNext]_(Token!tokenVars)
  OBVIOUS
<1> USE DEF rows, vars
<1>1. CASE UNCHANGED <<driver, tx>>
  BY <1>1 DEF Token!tokenVars, Offered
<1>2. ASSUME NEW u \in Users, CreateSession(u)
      PROVE  Token!Take(u)
  BY <1>2 DEF CreateSession, Token!Take, Offered
<1>3. ASSUME NEW t \in Txs, NEW op \in Transfers, NEW n \in Users,
             BeginTransfer(t, op, n)
      PROVE  Token!Offer(t, n)
  <2>1. Offered[t] = Token!NoOffer
    BY <1>3 DEF BeginTransfer, Offered, Token!NoOffer, Idle, Transfers
  <2>2. Offered' = [Offered EXCEPT ![t] = <<driver, n>>]
    BY <1>3 DEF BeginTransfer, Offered, TypeOK
  <2>3. QED
    BY <1>3, <2>1, <2>2 DEF BeginTransfer, Token!Offer
<1>4. ASSUME NEW t \in Txs, NEW pc, Goto(t, pc), tx[t] # Idle, UNCHANGED rows
      PROVE  UNCHANGED Token!tokenVars
  <2>1. tx' = [tx EXCEPT ![t] = [tx[t] EXCEPT !.pc = pc]]
    BY <1>4 DEF Goto
  <2>2. /\ [tx[t] EXCEPT !.pc = pc].op = tx[t].op
        /\ [tx[t] EXCEPT !.pc = pc].by = tx[t].by
        /\ [tx[t] EXCEPT !.pc = pc].to = tx[t].to
    BY DEF TypeOK, TxStates, Idle
  <2>3. QED
    BY <1>4, <2>1, <2>2, OffersKept DEF Token!tokenVars
<1>5. ASSUME NEW t \in Txs, End(t), driver' = driver
      PROVE  Token!Withdraw(t) \/ UNCHANGED Token!tokenVars
  <2>1. CASE tx[t].op \in Transfers
    <3>1. tx[t].by \in Users
      BY <2>1, TxFacts
    <3>2. Offered[t] # Token!NoOffer
      BY <2>1, <3>1, NoUserAssumption DEF Offered, Token!NoOffer
    <3>3. Offered' = [Offered EXCEPT ![t] = Token!NoOffer]
      BY <1>5 DEF End, Offered, TypeOK, Idle, Transfers, Token!NoOffer
    <3>4. QED
      BY <1>5, <3>2, <3>3 DEF Token!Withdraw
  <2>2. CASE tx[t].op \notin Transfers
    <3>1. Idle.op \notin Transfers
      BY DEF Idle, Transfers
    <3>2. QED
      BY <1>5, <2>2, <3>1, OffersKept DEF End, Token!tokenVars
  <2>3. QED
    BY <2>1, <2>2
<1>6. ASSUME NEW t \in Txs, SocketDisconnect(t)
      PROVE  UNCHANGED Token!tokenVars
  <2>1. tx' = [tx EXCEPT ![t] = [op |-> "disconnect", by |-> driver,
                                 to |-> NoUser, pc |-> "session"]]
    BY <1>6 DEF SocketDisconnect
  <2>2. tx[t].op \notin Transfers
    BY <1>6 DEF SocketDisconnect, Idle, Transfers
  <2>3. Offered' = Offered
    BY <2>1, <2>2, OffersKept DEF Transfers
  <2>4. QED
    BY <1>6, <2>3 DEF SocketDisconnect, Token!tokenVars
<1>7. ASSUME NEW t \in Txs, Swap(t)
      PROVE  tx[t].to \in Users /\ Token!Accept(t, tx[t].to)
  <2>1. tx[t].op \in Transfers /\ tx[t].to \in Users
    BY <1>7, TxFacts DEF Swap
  <2>2. Offered[t] = <<driver, tx[t].to>>
    BY <1>7, <2>1 DEF Swap, Offered
  <2>3. Offered' = [Offered EXCEPT ![t] = Token!NoOffer]
    BY <1>7 DEF Swap, Commit, End, Offered, TypeOK, Idle, Transfers, Token!NoOffer
  <2>4. QED
    BY <1>7, <2>1, <2>2, <2>3 DEF Swap, Commit, Token!Accept
<1>8. ASSUME NEW t \in Txs,
             \/ CheckTarget(t) \/ CheckCurrent(t) \/ Demote(t) \/ Promote(t)
             \/ ReadSession(t) \/ ReadParticipant(t) \/ Mark(t)
      PROVE  \/ Token!Withdraw(t)
             \/ UNCHANGED Token!tokenVars
  <2>1. tx[t] # Idle
    BY <1>8 DEF CheckTarget, CheckCurrent, Demote, Promote, ReadSession,
                ReadParticipant, Mark, Idle
  <2>2. (End(t) \/ \E pc : Goto(t, pc)) /\ UNCHANGED rows
    BY <1>8 DEF CheckTarget, CheckCurrent, Demote, Promote, ReadSession,
                ReadParticipant, Mark
  <2>3. QED
    BY <2>1, <2>2, <1>4, <1>5
<1>9. ASSUME NEW t \in Txs, Pause(t) \/ Abort(t)
      PROVE  Token!Withdraw(t) \/ UNCHANGED Token!tokenVars
  BY <1>9, <1>5 DEF Pause, Abort, Rollback
<1>10. QED
  BY <1>1, <1>2, <1>3, <1>6, <1>7, <1>8, <1>9
     DEF Next, RunnerSetsStatus, JoinSession, RequestDriver, Token!TokenNext

\* Driver control implements the token: the driving right never moves except by
\* a transfer that its holder began and that commits while he still holds it.
THEOREM ImplementsToken == Spec => TokenSpec
<1>1. Init => Token!TokenInit
  BY DEF Init, Token!TokenInit, Token!NoOffer, Offered, Idle, Transfers
<1>2. QED
  BY <1>1, TokenStep, TypeCorrect, PTL DEF Spec, TokenSpec, Token!TokenSpec

-----------------------------------------------------------------------------
(* The timeline *)

\* The history lists every event once, whatever the clock makes of their order.
Numbered(s) ==
  /\ s \in Seq(Events) /\ Distinct(s)
  /\ \A i \in DOMAIN s : s[i] <= Len(s)

\* What a job has yet to send, or to read and send.
WillSay(j, e) ==
  \/ job[j].at = "read" /\ e \in job[j].mine
  \/ job[j].at = "emit" /\ job[j].says = e

Reached(p) == missed[p] \cup Elements(queue[p]) \cup Elements(view[p])

Announced(e) ==
  e \in unsaid \/ (\E j \in Jobs : WillSay(j, e)) \/ \A p \in Pages : e \in Reached(p)

PageIInv ==
  /\ PageTypeOK
  /\ Numbered(history)
  /\ \A j \in Jobs : /\ job[j].at = "emit" => job[j].says \in Events
                     /\ job[j].at = "read" => history /= <<>>
  /\ \A p \in Pages, c \in Calls : Distinct(call[p][c].body)
  /\ \A e \in Events : history /= <<>> /\ e = Last(history) => Announced(e)

LEMMA EventsAreNumbers == Events \subseteq Nat \ {0}
  BY PageAssumption DEF Events

LEMMA ElementsOfAppend ==
  ASSUME NEW S, NEW s \in Seq(S), NEW e \in S
  PROVE  Elements(Append(s, e)) = Elements(s) \cup {e}
<1>1. /\ DOMAIN s = 1 .. Len(s) /\ Len(s) \in Nat
      /\ DOMAIN Append(s, e) = 1 .. Len(s) + 1
      /\ Append(s, e)[Len(s) + 1] = e
      /\ \A i \in DOMAIN s : Append(s, e)[i] = s[i]
  OBVIOUS
<1>2. \A x \in Elements(s) : x \in Elements(Append(s, e))
  BY <1>1 DEF Elements
<1>3. e \in Elements(Append(s, e))
  BY <1>1 DEF Elements
<1>4. \A x \in Elements(Append(s, e)) : x = e \/ x \in Elements(s)
  <2> SUFFICES ASSUME NEW i \in 1 .. Len(s) + 1 PROVE Append(s, e)[i] = e \/ Append(s, e)[i] \in Elements(s)
    BY <1>1 DEF Elements
  <2>1. i = Len(s) + 1 \/ i \in 1 .. Len(s)
    BY <1>1
  <2> QED
    BY <1>1, <2>1 DEF Elements
<1> QED
  BY <1>2, <1>3, <1>4

LEMMA ElementsOfTail ==
  ASSUME NEW S, NEW s \in Seq(S), s # <<>>
  PROVE  /\ Head(s) \in S /\ Tail(s) \in Seq(S)
         /\ Elements(s) = {Head(s)} \cup Elements(Tail(s))
<1>1. /\ Head(s) \in S /\ Tail(s) \in Seq(S) /\ Len(s) \in Nat \ {0}
      /\ DOMAIN s = 1 .. Len(s) /\ DOMAIN Tail(s) = 1 .. Len(s) - 1
      /\ Head(s) = s[1] /\ \A i \in 1 .. Len(s) - 1 : Tail(s)[i] = s[i + 1]
  OBVIOUS
<1>2. \A x \in Elements(s) : x = Head(s) \/ x \in Elements(Tail(s))
  <2> SUFFICES ASSUME NEW i \in 1 .. Len(s) PROVE s[i] = s[1] \/ s[i] \in Elements(Tail(s))
    BY <1>1 DEF Elements
  <2>1. i = 1 \/ (i - 1 \in 1 .. Len(s) - 1 /\ i = (i - 1) + 1)
    BY <1>1
  <2> QED
    BY <1>1, <2>1 DEF Elements
<1>3. \A x \in Elements(Tail(s)) : x \in Elements(s)
  <2> SUFFICES ASSUME NEW i \in 1 .. Len(s) - 1 PROVE s[i + 1] \in Elements(s)
    BY <1>1 DEF Elements
  <2>1. i + 1 \in 1 .. Len(s)
    BY <1>1
  <2> QED
    BY <1>1, <2>1 DEF Elements
<1>4. Head(s) \in Elements(s)
  BY <1>1 DEF Elements
<1> QED
  BY <1>1, <1>2, <1>3, <1>4

LEMMA ElementsTyped ==
  ASSUME NEW S, NEW s \in Seq(S)
  PROVE  Elements(s) \subseteq S
  BY DEF Elements

\* An event is added to a timeline once.
LEMMA AddEventOnce ==
  ASSUME NEW s \in Seq(Events), Distinct(s), NEW e \in Events
  PROVE  /\ AddEvent(s, e) \in Seq(Events) /\ Distinct(AddEvent(s, e))
         /\ Elements(AddEvent(s, e)) = Elements(s) \cup {e}
<1>1. CASE e \in Elements(s)
  BY <1>1 DEF AddEvent
<1>2. CASE e \notin Elements(s)
  <2>1. AddEvent(s, e) = Append(s, e) /\ Append(s, e) \in Seq(Events)
    BY <1>2 DEF AddEvent
  <2>2. /\ DOMAIN s = 1 .. Len(s) /\ Len(s) \in Nat
        /\ DOMAIN Append(s, e) = 1 .. Len(s) + 1
        /\ Append(s, e)[Len(s) + 1] = e
        /\ \A i \in DOMAIN s : Append(s, e)[i] = s[i]
    OBVIOUS
  <2>3. \A i \in DOMAIN s : s[i] # e
    BY <1>2 DEF Elements
  <2>4. Distinct(Append(s, e))
    <3> SUFFICES ASSUME NEW i \in 1 .. Len(s) + 1, NEW k \in 1 .. Len(s) + 1,
                        Append(s, e)[i] = Append(s, e)[k]
                 PROVE  i = k
      BY <2>2 DEF Distinct
    <3>1. (i = Len(s) + 1 \/ i \in DOMAIN s) /\ (k = Len(s) + 1 \/ k \in DOMAIN s)
      BY <2>2
    <3> QED
      BY <2>2, <2>3, <3>1 DEF Distinct
  <2> QED
    BY <2>1, <2>4, ElementsOfAppend
<1> QED
  BY <1>1, <1>2

\* However a new event is listed, it or the last one before it is the last one.
LEMMA ListedIsNumbered ==
  ASSUME NEW s, Numbered(s), NEW e \in Events, e = Len(s) + 1, NEW t \in Listed(e, s)
  PROVE  /\ Numbered(t) /\ Len(t) = e /\ t /= <<>>
         /\ Last(t) = e \/ (s /= <<>> /\ Last(t) = Last(s))
<1>1. PICK n \in Nat : n = Len(s)
  BY DEF Numbered
<1>2. /\ s \in Seq(Events) /\ DOMAIN s = 1 .. n /\ Distinct(s)
      /\ \A i \in 1 .. n : s[i] \in Events /\ s[i] <= n
      /\ e = n + 1
  BY <1>1 DEF Numbered
<1>3. \A i \in 1 .. n : s[i] # n + 1 /\ s[i] <= n + 1
  <2> SUFFICES ASSUME NEW i \in 1 .. n PROVE s[i] # n + 1 /\ s[i] <= n + 1
    OBVIOUS
  <2>1. PICK k \in Nat : k = s[i]
    BY <1>2, EventsAreNumbers
  <2>2. k <= n
    BY <1>2, <2>1
  <2> QED
    BY <2>1, <2>2
<1>4. CASE t = Append(s, e)
  <2>1. /\ t \in Seq(Events) /\ Len(t) = n + 1 /\ DOMAIN t = 1 .. n + 1 /\ t[n + 1] = n + 1
        /\ \A i \in 1 .. n : t[i] = s[i]
    BY <1>1, <1>2, <1>4
  <2>2. \A i \in 1 .. n + 1 : i = n + 1 \/ i \in 1 .. n
    BY <1>1
  <2>3. Distinct(t) /\ \A i \in 1 .. n + 1 : t[i] <= n + 1
    BY <1>2, <1>3, <2>1, <2>2 DEF Distinct
  <2>4. t /= <<>> /\ Last(t) = n + 1
    BY <2>1 DEF Last
  <2>5. Numbered(t)
    BY <2>1, <2>3 DEF Numbered
  <2>6. Len(t) = e /\ Last(t) = e
    BY <1>2, <2>1, <2>4
  <2> QED
    BY <2>4, <2>5, <2>6
<1>5. CASE s /= <<>> /\ t = SubSeq(s, 1, Len(s) - 1) \o <<e, Last(s)>>
  <2>1. n \in Nat \ {0} /\ Last(s) \in Events /\ Last(s) = s[n]
    BY <1>1, <1>2, <1>5 DEF Last
  <2>2. PICK m \in Nat : n = m + 1
    BY <2>1
  <2>3. PICK f : f = SubSeq(s, 1, m)
    OBVIOUS
  <2>4. PICK g : g = <<n + 1, s[n]>>
    OBVIOUS
  <2>5. /\ f \in Seq(Events) /\ Len(f) = m
        /\ \A i \in 1 .. m : f[i] = s[i]
    BY <1>2, <2>2, <2>3, SubSeqProperties
  <2>6. g \in Seq(Events) /\ Len(g) = 2 /\ g[1] = n + 1 /\ g[2] = s[n]
    BY <1>2, <2>1, <2>4
  <2>7. t = f \o g
    BY <1>1, <1>2, <1>5, <2>1, <2>2, <2>3, <2>4
  <2>8. /\ t \in Seq(Events) /\ Len(t) = m + 2
        /\ \A i \in 1 .. m + 2 : t[i] = IF i <= m THEN f[i] ELSE g[i - m]
    <3>1. /\ f \o g \in Seq(Events) /\ Len(f \o g) = Len(f) + Len(g)
          /\ \A i \in 1 .. Len(f) + Len(g) :
               (f \o g)[i] = IF i <= Len(f) THEN f[i] ELSE g[i - Len(f)]
      BY <2>5, <2>6, ConcatProperties, Zenon
    <3>2. Len(f) + Len(g) = m + 2
      BY <2>5, <2>6
    <3> QED
      BY <2>5, <2>7, <3>1, <3>2
  <2>9. /\ DOMAIN t = 1 .. m + 2
        /\ \A i \in 1 .. m : t[i] = s[i]
        /\ t[m + 1] = m + 2 /\ t[m + 2] = s[m + 1]
    BY <2>2, <2>5, <2>6, <2>8
  <2>10. \A i \in 1 .. m + 2 : i = m + 2 \/ i = m + 1 \/ i \in 1 .. m
    OBVIOUS
  <2>11. \A i \in 1 .. m : i \in 1 .. m + 1 /\ i # m + 1
    OBVIOUS
  <2>12. m + 1 \in 1 .. m + 1
    OBVIOUS
  <2>13. \A i \in 1 .. m + 1 : s[i] # m + 2 /\ s[i] <= m + 2
    BY <1>3, <2>2
  <2>14. \A i, k \in 1 .. m + 1 : s[i] = s[k] => i = k
    BY <1>2, <2>2 DEF Distinct
  <2>15. \A i \in 1 .. m + 2 : t[i] <= m + 2
    BY <2>9, <2>10, <2>11, <2>12, <2>13
  <2>16. Distinct(t)
    <3> SUFFICES ASSUME NEW i \in 1 .. m + 2, NEW k \in 1 .. m + 2, t[i] = t[k] PROVE i = k
      BY <2>9 DEF Distinct
    <3> QED
      BY <2>9, <2>10, <2>11, <2>12, <2>13, <2>14
  <2>17. t /= <<>> /\ Last(t) = Last(s)
    BY <2>1, <2>2, <2>8, <2>9 DEF Last
  <2>18. Numbered(t)
    BY <2>8, <2>9, <2>15, <2>16 DEF Numbered
  <2> QED
    BY <1>2, <1>5, <2>2, <2>8, <2>17, <2>18
<1> QED
  BY <1>4, <1>5 DEF Listed

\* The history after an event was appended: whatever was announced of the last event
\* is still needed only if that is the last one.
LEMMA Appending ==
  ASSUME Numbered(history), NEW e, AppendEvent(e)
  PROVE  /\ e \in Events /\ history' \in Seq(Events) /\ Numbered(history)' /\ history' /= <<>>
         /\ Last(history') = e \/ (history /= <<>> /\ Last(history') = Last(history))
<1>1. e \in Events
  BY PageAssumption DEF AppendEvent, Events, Numbered
<1>2. Numbered(history')
  BY <1>1, ListedIsNumbered DEF AppendEvent
<1> QED
  BY <1>1, <1>2, ListedIsNumbered DEF AppendEvent, Numbered

\* What was announced of an event that is still the last one, or of a new one.
LEMMA AnnouncedKept ==
  ASSUME NEW e, Announced(e), unsaid \subseteq unsaid',
         \A j \in Jobs : WillSay(j, e) => WillSay(j, e)',
         \A p \in Pages : Reached(p) \subseteq Reached(p)'
  PROVE  Announced(e)'
BY DEF Announced

LEMMA PageInitIInv == PageInit => PageIInv
<1> SUFFICES ASSUME PageInit PROVE PageIInv
  OBVIOUS
<1>1. PageTypeOK
  BY PageAssumption
     DEF PageInit, PageTypeOK, NoJob, JobStates, NoCall, CallStates, Places, Distinct
<1>2. Numbered(history)
  BY DEF PageInit, Numbered, Distinct
<1> QED
  BY <1>1, <1>2 DEF PageInit, PageIInv, NoJob, NoCall, Distinct

-----------------------------------------------------------------------------
(* The server *)

\* A handler appends an event, or takes it on itself to speak of it.
LEMMA AppendKeeps ==
  ASSUME PageIInv, NEW j \in Jobs, NEW e, AppendEvent(e), NEW x \in JobStates, job[j] = NoJob,
         job' = [job EXCEPT ![j] = x],
         \/ x.at = "read" /\ e \in x.mine
         \/ x.at = "emit" /\ x.says = e,
         UNCHANGED <<unsaid, room, queue, loaded, view, call, missed>>
  PROVE  PageIInv'
<1>1. /\ e \in Events /\ history' \in Seq(Events) /\ Numbered(history)' /\ history' /= <<>>
      /\ Last(history') = e \/ (history /= <<>> /\ Last(history') = Last(history))
  BY Appending DEF PageIInv
<1>2. /\ job'[j] = x /\ \A i \in Jobs \ {j} : job'[i] = job[i]
      /\ job' \in [Jobs -> JobStates]
  BY DEF PageIInv, PageTypeOK
<1>3. PageTypeOK'
  BY <1>1, <1>2 DEF PageIInv, PageTypeOK
<1>4. \A i \in Jobs : /\ job'[i].at = "emit" => job'[i].says \in Events
                      /\ job'[i].at = "read" => history' /= <<>>
  BY <1>1, <1>2 DEF PageIInv
<1>5. ASSUME NEW l \in Events, l = Last(history')
      PROVE  Announced(l)'
  <2>1. CASE l = e
    BY <1>2, <2>1 DEF Announced, WillSay
  <2>2. CASE history /= <<>> /\ l = Last(history)
    <3>1. Announced(l)
      BY <2>2 DEF PageIInv
    <3>2. \A i \in Jobs : WillSay(i, l) => WillSay(i, l)'
      BY <1>2 DEF WillSay, NoJob
    <3>3. \A p \in Pages : Reached(p) \subseteq Reached(p)'
      BY DEF Reached
    <3> QED
      BY <3>1, <3>2, <3>3, AnnouncedKept
  <2> QED
    BY <1>1, <1>5, <2>1, <2>2
<1> QED
  BY <1>1, <1>3, <1>4, <1>5 DEF PageIInv

LEMMA HandlerAppendsKeeps ==
  ASSUME PageIInv, NEW j \in Jobs, HandlerAppends(j)
  PROVE  PageIInv'
<1>1. PICK e \in Events : /\ AppendEvent(e)
                          /\ job' = [job EXCEPT ![j] = [at |-> "read", mine |-> {e}, says |-> 0]]
  BY DEF HandlerAppends
<1>2. PICK x : x = [at |-> "read", mine |-> {e}, says |-> 0]
  OBVIOUS
<1>3. x \in JobStates /\ x.at = "read" /\ e \in x.mine
  BY <1>2, PageAssumption DEF JobStates
<1> QED
  BY <1>1, <1>2, <1>3, AppendKeeps DEF HandlerAppends

LEMMA RunnerAppendsKeeps ==
  ASSUME PageIInv, NEW j \in Jobs, RunnerAppends(j)
  PROVE  PageIInv'
<1>1. PICK e \in Events : /\ AppendEvent(e)
                          /\ job' = [job EXCEPT ![j] = [at |-> "emit", mine |-> {e}, says |-> e]]
  BY DEF RunnerAppends
<1>2. PICK x : x = [at |-> "emit", mine |-> {e}, says |-> e]
  OBVIOUS
<1>3. x \in JobStates /\ x.at = "emit" /\ x.says = e
  BY <1>2, PageAssumption DEF JobStates, Events
<1> QED
  BY <1>1, <1>2, <1>3, AppendKeeps DEF RunnerAppends

\* Both events of a disconnect are its own.
LEMMA DisconnectAppendsKeeps ==
  ASSUME PageIInv, NEW j \in Jobs, DisconnectAppends(j)
  PROVE  PageIInv'
<1>1. PICK n \in Nat : n = Len(history)
  BY DEF PageIInv, Numbered
<1>2. PICK s \in Listed(n + 1, history) : history' \in Listed(n + 2, s)
  BY <1>1 DEF DisconnectAppends
<1>3. n + 1 \in Events /\ n + 2 \in Events
  BY <1>1, PageAssumption DEF DisconnectAppends, Events
<1>4. /\ Numbered(s) /\ Len(s) = n + 1
      /\ Last(s) = n + 1 \/ (history /= <<>> /\ Last(s) = Last(history))
  BY <1>1, <1>2, <1>3, ListedIsNumbered DEF PageIInv
<1>5. /\ Numbered(history') /\ history' /= <<>>
      /\ Last(history') = n + 2 \/ Last(history') = Last(s)
  BY <1>2, <1>3, <1>4, ListedIsNumbered
<1>6. PICK x : x = [at |-> "read", mine |-> {n + 1, n + 2}, says |-> 0]
  OBVIOUS
<1>7. x \in JobStates /\ x.at = "read" /\ x.mine = {n + 1, n + 2}
  BY <1>3, <1>6, PageAssumption DEF JobStates
<1>8. /\ job[j] = NoJob /\ job' = [job EXCEPT ![j] = x]
      /\ UNCHANGED <<unsaid, room, queue, loaded, view, call, missed>>
  BY <1>1, <1>6 DEF DisconnectAppends
<1>9. /\ job'[j] = x /\ \A i \in Jobs \ {j} : job'[i] = job[i]
      /\ job' \in [Jobs -> JobStates]
  BY <1>7, <1>8 DEF PageIInv, PageTypeOK
<1>10. PageTypeOK'
  BY <1>5, <1>8, <1>9 DEF PageIInv, PageTypeOK, Numbered
<1>11. \A i \in Jobs : /\ job'[i].at = "emit" => job'[i].says \in Events
                       /\ job'[i].at = "read" => history' /= <<>>
  BY <1>5, <1>7, <1>9 DEF PageIInv
<1>12. ASSUME NEW l \in Events, l = Last(history')
       PROVE  Announced(l)'
  <2>1. CASE l \in {n + 1, n + 2}
    BY <1>7, <1>9, <2>1 DEF Announced, WillSay
  <2>2. CASE history /= <<>> /\ l = Last(history)
    <3>1. Announced(l)
      BY <2>2 DEF PageIInv
    <3>2. \A i \in Jobs : WillSay(i, l) => WillSay(i, l)'
      BY <1>8, <1>9 DEF WillSay, NoJob
    <3>3. \A p \in Pages : Reached(p) \subseteq Reached(p)'
      BY <1>8 DEF Reached
    <3> QED
      BY <1>8, <3>1, <3>2, <3>3, AnnouncedKept
  <2> QED
    BY <1>4, <1>5, <1>12, <2>1, <2>2
<1> QED
  BY <1>5, <1>8, <1>10, <1>11, <1>12 DEF PageIInv

\* A handler that appended nothing will say the last event there is.
LEMMA DisconnectTooLateKeeps ==
  ASSUME PageIInv, NEW j \in Jobs, DisconnectTooLate(j)
  PROVE  PageIInv'
<1>1. PICK x : x = [at |-> "read", mine |-> {}, says |-> 0]
  OBVIOUS
<1>2. x \in JobStates /\ x.at = "read"
  BY <1>1, PageAssumption DEF JobStates
<1>3. /\ job[j] = NoJob /\ job' = [job EXCEPT ![j] = x] /\ history /= <<>>
      /\ UNCHANGED <<history, unsaid, room, queue, loaded, view, call, missed>>
  BY <1>1 DEF DisconnectTooLate
<1>4. /\ job'[j] = x /\ \A i \in Jobs \ {j} : job'[i] = job[i]
      /\ job' \in [Jobs -> JobStates]
  BY <1>2, <1>3 DEF PageIInv, PageTypeOK
<1>5. PageTypeOK'
  BY <1>3, <1>4 DEF PageIInv, PageTypeOK
<1>6. ASSUME NEW l \in Events, Announced(l)
      PROVE  Announced(l)'
  <2>1. \A i \in Jobs : WillSay(i, l) => WillSay(i, l)'
    BY <1>3, <1>4 DEF WillSay, NoJob
  <2>2. \A p \in Pages : Reached(p) \subseteq Reached(p)'
    BY <1>3 DEF Reached
  <2> QED
    BY <1>3, <1>6, <2>1, <2>2, AnnouncedKept
<1> QED
  BY <1>2, <1>3, <1>4, <1>5, <1>6 DEF PageIInv

\* What it appended is the last event no more, or it is what goes out.
LEMMA RereadKeeps ==
  ASSUME PageIInv, NEW j \in Jobs, Reread(j)
  PROVE  PageIInv'
<1>1. Last(history) \in Events /\ history /= <<>>
  BY DEF PageIInv, PageTypeOK, Last, Reread
<1>2. PICK l \in Events : l = Last(history)
  BY <1>1
<1>3. PICK x : x = [job[j] EXCEPT !.at = "emit", !.says = l]
  OBVIOUS
<1>4. x \in JobStates /\ x.at = "emit" /\ x.says = l
  <2>1. job[j] \in JobStates /\ l \in 0 .. MaxEvents
    BY PageAssumption DEF PageIInv, PageTypeOK, Events
  <2> QED
    BY <1>3, <2>1 DEF JobStates
<1>5. job' = [job EXCEPT ![j] = x] /\ UNCHANGED <<history, unsaid, room, queue, loaded, view, call, missed>>
  BY <1>2, <1>3 DEF Reread, PageIInv, PageTypeOK
<1>6. /\ job'[j] = x /\ \A i \in Jobs \ {j} : job'[i] = job[i]
      /\ job' \in [Jobs -> JobStates]
  BY <1>4, <1>5 DEF PageIInv, PageTypeOK
<1>7. PageTypeOK'
  BY <1>5, <1>6 DEF PageIInv, PageTypeOK
<1>8. Announced(l)'
  BY <1>4, <1>6 DEF Announced, WillSay
<1> QED
  BY <1>2, <1>4, <1>5, <1>6, <1>7, <1>8 DEF PageIInv

LEMMA RereadRefusedKeeps ==
  ASSUME PageIInv, NEW j \in Jobs, RereadRefused(j)
  PROVE  PageIInv'
<1>1. NoJob \in JobStates /\ NoJob.at = "idle"
  BY PageAssumption DEF NoJob, JobStates
<1>2. /\ job[j].at = "read" /\ unsaid' = unsaid \cup job[j].mine
      /\ UNCHANGED <<history, room, queue, loaded, view, call, missed>>
  BY DEF RereadRefused
<1>3. /\ job'[j] = NoJob /\ \A i \in Jobs \ {j} : job'[i] = job[i]
      /\ job' \in [Jobs -> JobStates]
  BY <1>1 DEF PageIInv, PageTypeOK, RereadRefused
<1>4. unsaid' \subseteq Events
  BY <1>2 DEF PageIInv, PageTypeOK, JobStates
<1>5. PageTypeOK'
  BY <1>2, <1>3, <1>4 DEF PageIInv, PageTypeOK
<1>6. ASSUME NEW l \in Events, Announced(l)
      PROVE  Announced(l)'
  <2>1. CASE WillSay(j, l)
    BY <1>2, <2>1 DEF WillSay, Announced
  <2>2. CASE ~WillSay(j, l)
    <3>1. \A i \in Jobs : WillSay(i, l) => WillSay(i, l)'
      BY <1>3, <2>2 DEF WillSay
    <3>2. unsaid \subseteq unsaid' /\ \A p \in Pages : Reached(p) \subseteq Reached(p)'
      BY <1>2 DEF Reached
    <3> QED
      BY <1>6, <3>1, <3>2, AnnouncedKept
  <2> QED
    BY <2>1, <2>2
<1> QED
  BY <1>1, <1>2, <1>3, <1>5, <1>6 DEF PageIInv

\* A broadcast reaches the queues of the room; the others have missed it.
LEMMA BroadcastKeeps ==
  ASSUME PageIInv, NEW j \in Jobs, Broadcast(j)
  PROVE  PageIInv'
<1>1. NoJob \in JobStates /\ NoJob.at = "idle"
  BY PageAssumption DEF NoJob, JobStates
<1>2. PICK e \in Events : e = job[j].says
  BY DEF PageIInv, Broadcast
<1>3. /\ job[j].at = "emit" /\ job' = [job EXCEPT ![j] = NoJob]
      /\ queue' = [p \in Pages |-> IF room[p] = "in" THEN Append(queue[p], e) ELSE queue[p]]
      /\ missed' = [p \in Pages |-> IF room[p] = "in" THEN missed[p] ELSE missed[p] \cup {e}]
      /\ UNCHANGED <<history, unsaid, room, loaded, view, call>>
  BY <1>2 DEF Broadcast
<1>4. /\ job'[j] = NoJob /\ \A i \in Jobs \ {j} : job'[i] = job[i]
      /\ job' \in [Jobs -> JobStates]
  BY <1>1, <1>3 DEF PageIInv, PageTypeOK
<1>5. ASSUME NEW p \in Pages
      PROVE  /\ queue'[p] \in Seq(Events) /\ missed'[p] \in SUBSET Events
             /\ Reached(p) \subseteq Reached(p)' /\ e \in Reached(p)'
             /\ queue'[p] /= <<>> => room[p] = "in"
  <2>1. queue[p] \in Seq(Events) /\ missed[p] \in SUBSET Events
    BY DEF PageIInv, PageTypeOK
  <2>2. CASE room[p] = "in"
    <3>1. queue'[p] = Append(queue[p], e) /\ missed'[p] = missed[p]
      BY <1>3, <2>2
    <3>2. Elements(queue'[p]) = Elements(queue[p]) \cup {e}
      BY <2>1, <3>1, ElementsOfAppend
    <3> QED
      BY <1>3, <2>1, <2>2, <3>1, <3>2 DEF Reached
  <2>3. CASE room[p] # "in"
    <3>1. queue'[p] = queue[p] /\ missed'[p] = missed[p] \cup {e}
      BY <1>3, <2>3
    <3> QED
      BY <1>3, <2>1, <2>3, <3>1 DEF Reached, PageIInv, PageTypeOK
  <2> QED
    BY <2>2, <2>3
<1>6. queue' \in [Pages -> Seq(Events)] /\ missed' \in [Pages -> SUBSET Events]
  BY <1>3, <1>5
<1>7. PageTypeOK'
  BY <1>3, <1>4, <1>5, <1>6 DEF PageIInv, PageTypeOK
<1>8. ASSUME NEW l \in Events, Announced(l)
      PROVE  Announced(l)'
  <2>1. CASE l = e
    BY <1>5, <2>1 DEF Announced
  <2>2. CASE l # e
    <3>1. \A i \in Jobs : WillSay(i, l) => WillSay(i, l)'
      BY <1>2, <1>3, <1>4, <2>2 DEF WillSay
    <3> QED
      BY <1>3, <1>5, <1>8, <3>1, AnnouncedKept
  <2> QED
    BY <2>1, <2>2
<1> QED
  BY <1>1, <1>3, <1>4, <1>7, <1>8 DEF PageIInv

-----------------------------------------------------------------------------
(* The page *)

\* A page loses no event out of sight: what it no longer shows or awaits it has missed.
LEMMA PageStepKeeps ==
  ASSUME PageIInv, PageTypeOK', UNCHANGED <<history, unsaid, job>>,
         \A p \in Pages, c \in Calls : Distinct(call'[p][c].body),
         \A p \in Pages : Reached(p) \subseteq Reached(p)'
  PROVE  PageIInv'
<1>1. ASSUME NEW l \in Events, Announced(l)
      PROVE  Announced(l)'
  <2>1. \A i \in Jobs : WillSay(i, l) => WillSay(i, l)'
    BY DEF WillSay
  <2> QED
    BY <1>1, <2>1, AnnouncedKept
<1> QED
  BY <1>1 DEF PageIInv

\* An event whose writer broadcasts nothing is one of unsaid.
LEMMA UnsaidKeeps ==
  ASSUME PageIInv, PageTypeOK', NEW e, AppendEvent(e), unsaid' = unsaid \cup {e},
         UNCHANGED <<job, queue, view, missed>>,
         \A p \in Pages, c \in Calls : Distinct(call'[p][c].body)
  PROVE  PageIInv'
<1>1. /\ Numbered(history)' /\ history' /= <<>>
      /\ Last(history') = e \/ (history /= <<>> /\ Last(history') = Last(history))
  BY Appending DEF PageIInv
<1>2. ASSUME NEW l \in Events, l = Last(history')
      PROVE  Announced(l)'
  <2>1. CASE l = e
    BY <2>1 DEF Announced
  <2>2. CASE history /= <<>> /\ l = Last(history)
    <3>1. Announced(l)
      BY <2>2 DEF PageIInv
    <3>2. /\ \A i \in Jobs : WillSay(i, l) => WillSay(i, l)'
          /\ \A p \in Pages : Reached(p) \subseteq Reached(p)'
      BY DEF WillSay, Reached
    <3> QED
      BY <3>1, <3>2, AnnouncedKept
  <2> QED
    BY <1>1, <1>2, <2>1, <2>2
<1> QED
  BY <1>1, <1>2 DEF PageIInv

\* One call of one page.
LEMMA CallKept ==
  ASSUME PageIInv, NEW p \in Pages, NEW c \in Calls, NEW x \in CallStates, Distinct(x.body),
         call' = [call EXCEPT ![p][c] = x]
  PROVE  /\ call' \in [Pages -> [Calls -> CallStates]]
         /\ \A q \in Pages, d \in Calls : Distinct(call'[q][d].body)
BY DEF PageIInv, PageTypeOK

LEMMA CallMoves ==
  ASSUME PageIInv, NEW p \in Pages, NEW c \in Calls, NEW at \in {"post", "get"},
         call' = [call EXCEPT ![p][c].at = at]
  PROVE  /\ call' \in [Pages -> [Calls -> CallStates]]
         /\ \A q \in Pages, d \in Calls : Distinct(call'[q][d].body)
<1>1. PICK x : x = [call[p][c] EXCEPT !.at = at]
  OBVIOUS
<1>2. call[p][c] \in CallStates /\ Distinct(call[p][c].body)
  BY DEF PageIInv, PageTypeOK
<1>3. x \in CallStates /\ Distinct(x.body)
  BY <1>1, <1>2 DEF CallStates
<1>4. call' = [call EXCEPT ![p][c] = x]
  BY <1>1
<1> QED
  BY <1>3, <1>4, CallKept

LEMMA CallEnds ==
  ASSUME PageIInv, NEW p \in Pages, NEW c \in Calls, call' = [call EXCEPT ![p][c] = NoCall]
  PROVE  /\ call' \in [Pages -> [Calls -> CallStates]]
         /\ \A q \in Pages, d \in Calls : Distinct(call'[q][d].body)
<1>1. NoCall \in CallStates /\ Distinct(NoCall.body)
  BY DEF NoCall, CallStates, Distinct
<1> QED
  BY <1>1, CallKept

LEMMA OpenKeeps ==
  ASSUME PageIInv, NEW p \in Pages, Open(p)
  PROVE  PageIInv'
<1>1. PICK c \in Calls : call' = [call EXCEPT ![p][c].at = "get"]
  BY DEF Open
<1>2. /\ call' \in [Pages -> [Calls -> CallStates]]
      /\ \A q \in Pages, d \in Calls : Distinct(call'[q][d].body)
  BY <1>1, CallMoves
<1>3. PageTypeOK'
  BY <1>2 DEF Open, PageIInv, PageTypeOK, server, Places
<1>4. \A q \in Pages : Reached(q) \subseteq Reached(q)'
  BY DEF Open, Reached
<1> QED
  BY <1>2, <1>3, <1>4, PageStepKeeps DEF Open, server

LEMMA JoinKeeps ==
  ASSUME PageIInv, NEW p \in Pages, Join(p)
  PROVE  PageIInv'
<1>1. /\ room[p] = "joining" /\ room' = [room EXCEPT ![p] = "joined"]
      /\ UNCHANGED <<job, queue, loaded, view, call, missed>>
  BY DEF Join
<1>2. \A q \in Pages, d \in Calls : Distinct(call'[q][d].body)
  BY <1>1 DEF PageIInv
<1>3. \A q \in Pages : Reached(q) \subseteq Reached(q)'
  BY <1>1 DEF Reached
<1>4. CASE UNCHANGED <<history, unsaid>>
  <2>1. PageTypeOK'
    BY <1>1, <1>4 DEF PageIInv, PageTypeOK, Places
  <2> QED
    BY <1>1, <1>2, <1>3, <1>4, <2>1, PageStepKeeps
<1>5. ASSUME NEW e \in Events, AppendEvent(e), unsaid' = unsaid \cup {e}
      PROVE  PageIInv'
  <2>1. history' \in Seq(Events)
    BY <1>5, Appending DEF PageIInv
  <2>2. PageTypeOK'
    BY <1>1, <1>5, <2>1 DEF PageIInv, PageTypeOK, Places
  <2> QED
    BY <1>1, <1>2, <1>5, <2>2, UnsaidKeeps
<1> QED
  BY <1>4, <1>5 DEF Join

LEMMA EnterRoomKeeps ==
  ASSUME PageIInv, NEW p \in Pages, EnterRoom(p)
  PROVE  PageIInv'
<1>1. PageTypeOK'
  BY DEF EnterRoom, PageIInv, PageTypeOK, server, Places
<1>2. \A q \in Pages, d \in Calls : Distinct(call'[q][d].body)
  BY DEF EnterRoom, PageIInv
<1>3. \A q \in Pages : Reached(q) \subseteq Reached(q)'
  BY DEF EnterRoom, Reached
<1> QED
  BY <1>1, <1>2, <1>3, PageStepKeeps DEF EnterRoom, server

LEMMA DropKeeps ==
  ASSUME PageIInv, NEW p \in Pages, Drop(p)
  PROVE  PageIInv'
<1>1. /\ room' = [room EXCEPT ![p] = "dropped"]
      /\ queue' = [queue EXCEPT ![p] = <<>>]
      /\ missed' = [missed EXCEPT ![p] = @ \cup Elements(queue[p])]
      /\ UNCHANGED <<history, unsaid, job, loaded, view, call>>
  BY DEF Drop, server
<1>2. Elements(queue[p]) \subseteq Events
  BY ElementsTyped DEF PageIInv, PageTypeOK
<1>3. PageTypeOK'
  BY <1>1, <1>2 DEF PageIInv, PageTypeOK, Places
<1>4. \A q \in Pages, d \in Calls : Distinct(call'[q][d].body)
  BY <1>1 DEF PageIInv
<1>5. \A q \in Pages : Reached(q) \subseteq Reached(q)'
  BY <1>1 DEF Reached, PageIInv, PageTypeOK
<1> QED
  BY <1>1, <1>3, <1>4, <1>5, PageStepKeeps

LEMMA CloseKeeps ==
  ASSUME PageIInv, NEW p \in Pages, Close(p)
  PROVE  PageIInv'
<1>1. /\ room' = [room EXCEPT ![p] = "closed"]
      /\ queue' = [queue EXCEPT ![p] = <<>>]
      /\ loaded' = [loaded EXCEPT ![p] = FALSE]
      /\ view' = [view EXCEPT ![p] = <<>>]
      /\ call' = [call EXCEPT ![p] = [c \in Calls |-> NoCall]]
      /\ missed' = [missed EXCEPT ![p] = @ \cup Elements(queue[p]) \cup Elements(view[p])]
      /\ UNCHANGED <<history, unsaid, job>>
  BY DEF Close, server
<1>2. Elements(queue[p]) \cup Elements(view[p]) \subseteq Events
  BY ElementsTyped DEF PageIInv, PageTypeOK
<1>3. NoCall \in CallStates /\ Distinct(NoCall.body) /\ Distinct(<<>>)
  BY DEF NoCall, CallStates, Distinct
<1>4. PageTypeOK'
  <2>1. call' \in [Pages -> [Calls -> CallStates]]
    BY <1>1, <1>3 DEF PageIInv, PageTypeOK
  <2>2. missed' \in [Pages -> SUBSET Events]
    BY <1>1, <1>2 DEF PageIInv, PageTypeOK
  <2> QED
    BY <1>1, <1>3, <2>1, <2>2 DEF PageIInv, PageTypeOK, Places
<1>5. \A q \in Pages, d \in Calls : Distinct(call'[q][d].body)
  BY <1>1, <1>3 DEF PageIInv, PageTypeOK
<1>6. \A q \in Pages : Reached(q) \subseteq Reached(q)'
  BY <1>1 DEF Reached, PageIInv, PageTypeOK
<1> QED
  BY <1>1, <1>4, <1>5, <1>6, PageStepKeeps

LEMMA DeliverKeeps ==
  ASSUME PageIInv, NEW p \in Pages, Deliver(p)
  PROVE  PageIInv'
<1>1. PICK h : h = Head(queue[p])
  OBVIOUS
<1>2. /\ queue[p] \in Seq(Events) /\ queue[p] /= <<>>
      /\ view[p] \in Seq(Events) /\ Distinct(view[p]) /\ missed[p] \in SUBSET Events
  BY DEF Deliver, PageIInv, PageTypeOK
<1>3. /\ h \in Events /\ Tail(queue[p]) \in Seq(Events)
      /\ Elements(queue[p]) = {h} \cup Elements(Tail(queue[p]))
  BY <1>1, <1>2, ElementsOfTail
<1>4. /\ AddEvent(view[p], h) \in Seq(Events) /\ Distinct(AddEvent(view[p], h))
      /\ Elements(AddEvent(view[p], h)) = Elements(view[p]) \cup {h}
  BY <1>2, <1>3, AddEventOnce
<1>5. /\ queue' = [queue EXCEPT ![p] = Tail(queue[p])]
      /\ UNCHANGED <<history, unsaid, job, room, loaded, call>>
  BY DEF Deliver, server
<1>6. \/ /\ loaded[p]
         /\ view' = [view EXCEPT ![p] = AddEvent(view[p], h)]
         /\ missed' = [missed EXCEPT ![p] = missed[p] \ {h}]
      \/ /\ ~loaded[p] /\ view' = view
         /\ missed' = [missed EXCEPT ![p] = missed[p] \cup {h}]
  BY <1>1 DEF Deliver
<1>7. /\ queue' \in [Pages -> Seq(Events)] /\ queue'[p] = Tail(queue[p])
      /\ \A q \in Pages \ {p} : queue'[q] = queue[q]
  BY <1>3, <1>5 DEF PageIInv, PageTypeOK
<1>8. /\ view' \in [Pages -> Seq(Events)] /\ missed' \in [Pages -> SUBSET Events]
      /\ \A q \in Pages \ {p} : view'[q] = view[q] /\ missed'[q] = missed[q]
  BY <1>3, <1>4, <1>6 DEF PageIInv, PageTypeOK
<1>9. /\ Distinct(view'[p]) /\ (~loaded[p] => view'[p] = <<>>)
      /\ missed[p] \cup {h} \cup Elements(view[p]) \subseteq missed'[p] \cup Elements(view'[p])
  <2>1. CASE loaded[p]
    BY <1>4, <1>6, <2>1 DEF PageIInv, PageTypeOK
  <2>2. CASE ~loaded[p]
    BY <1>6, <2>2 DEF PageIInv, PageTypeOK
  <2> QED
    BY <2>1, <2>2
<1>10. PageTypeOK'
  <2>1. room[p] = "in"
    BY <1>2 DEF PageIInv, PageTypeOK
  <2> QED
    BY <1>5, <1>7, <1>8, <1>9, <2>1 DEF PageIInv, PageTypeOK
<1>11. \A q \in Pages, d \in Calls : Distinct(call'[q][d].body)
  BY <1>5 DEF PageIInv
<1>12. \A q \in Pages : Reached(q) \subseteq Reached(q)'
  BY <1>3, <1>7, <1>8, <1>9 DEF Reached
<1> QED
  BY <1>5, <1>10, <1>11, <1>12, PageStepKeeps

LEMMA ClickKeeps ==
  ASSUME PageIInv, NEW p \in Pages, NEW c \in Calls, Click(p, c)
  PROVE  PageIInv'
<1>1. /\ call' \in [Pages -> [Calls -> CallStates]]
      /\ \A q \in Pages, d \in Calls : Distinct(call'[q][d].body)
  BY CallMoves DEF Click
<1>2. UNCHANGED <<history, unsaid, job, room, queue, loaded, view, missed>>
  BY DEF Click, server
<1>3. PageTypeOK' /\ \A q \in Pages : Reached(q) \subseteq Reached(q)'
  BY <1>1, <1>2 DEF PageIInv, PageTypeOK, Reached
<1> QED
  BY <1>1, <1>2, <1>3, PageStepKeeps

LEMMA PostDoneKeeps ==
  ASSUME PageIInv, NEW p \in Pages, NEW c \in Calls, PostDone(p, c)
  PROVE  PageIInv'
<1>1. /\ call' \in [Pages -> [Calls -> CallStates]]
      /\ \A q \in Pages, d \in Calls : Distinct(call'[q][d].body)
  BY CallMoves DEF PostDone
<1>2. UNCHANGED <<job, room, queue, loaded, view, missed>>
  BY DEF PostDone
<1>3. \A q \in Pages : Reached(q) \subseteq Reached(q)'
  BY <1>2 DEF Reached
<1>4. CASE UNCHANGED <<history, unsaid>>
  <2>1. PageTypeOK'
    BY <1>1, <1>2, <1>4 DEF PageIInv, PageTypeOK
  <2> QED
    BY <1>1, <1>2, <1>3, <1>4, <2>1, PageStepKeeps
<1>5. ASSUME NEW e \in Events, AppendEvent(e), unsaid' = unsaid \cup {e}
      PROVE  PageIInv'
  <2>1. history' \in Seq(Events)
    BY <1>5, Appending DEF PageIInv
  <2>2. PageTypeOK'
    BY <1>1, <1>2, <1>5, <2>1 DEF PageIInv, PageTypeOK
  <2> QED
    BY <1>1, <1>2, <1>5, <2>2, UnsaidKeeps
<1> QED
  BY <1>4, <1>5 DEF PostDone

LEMMA CallFailsKeeps ==
  ASSUME PageIInv, NEW p \in Pages, NEW c \in Calls, CallFails(p, c)
  PROVE  PageIInv'
<1>1. /\ call' \in [Pages -> [Calls -> CallStates]]
      /\ \A q \in Pages, d \in Calls : Distinct(call'[q][d].body)
  BY CallEnds DEF CallFails
<1>2. UNCHANGED <<history, unsaid, job, room, queue, loaded, view, missed>>
  BY DEF CallFails, server
<1>3. PageTypeOK' /\ \A q \in Pages : Reached(q) \subseteq Reached(q)'
  BY <1>1, <1>2 DEF PageIInv, PageTypeOK, Reached
<1> QED
  BY <1>1, <1>2, <1>3, PageStepKeeps

LEMMA ServeGetKeeps ==
  ASSUME PageIInv, NEW p \in Pages, NEW c \in Calls, ServeGet(p, c)
  PROVE  PageIInv'
<1>1. PICK x : x = [at |-> "answered", body |-> history]
  OBVIOUS
<1>2. x \in CallStates /\ Distinct(x.body)
  BY <1>1 DEF CallStates, PageIInv, Numbered
<1>3. call' = [call EXCEPT ![p][c] = x]
  BY <1>1 DEF ServeGet
<1>4. /\ call' \in [Pages -> [Calls -> CallStates]]
      /\ \A q \in Pages, d \in Calls : Distinct(call'[q][d].body)
  BY <1>2, <1>3, CallKept
<1>5. UNCHANGED <<history, unsaid, job, room, queue, loaded, view, missed>>
  BY DEF ServeGet, server
<1>6. PageTypeOK' /\ \A q \in Pages : Reached(q) \subseteq Reached(q)'
  BY <1>4, <1>5 DEF PageIInv, PageTypeOK, Reached
<1> QED
  BY <1>4, <1>5, <1>6, PageStepKeeps

\* What a response does not show any more has been missed.
LEMMA ApplyKeeps ==
  ASSUME PageIInv, NEW p \in Pages, NEW c \in Calls, Apply(p, c)
  PROVE  PageIInv'
<1>1. PICK b : b = call[p][c].body
  OBVIOUS
<1>2. b \in Seq(Events) /\ Distinct(b)
  BY <1>1 DEF PageIInv, PageTypeOK, CallStates
<1>3. /\ call' \in [Pages -> [Calls -> CallStates]]
      /\ \A q \in Pages, d \in Calls : Distinct(call'[q][d].body)
  BY CallEnds DEF Apply
<1>4. /\ loaded' = [loaded EXCEPT ![p] = TRUE]
      /\ view' = [view EXCEPT ![p] = b]
      /\ missed' = [missed EXCEPT ![p] = (missed[p] \cup Elements(view[p])) \ Elements(b)]
      /\ UNCHANGED <<history, unsaid, job, room, queue>>
  BY <1>1 DEF Apply, server
<1>5. Elements(view[p]) \subseteq Events /\ missed[p] \subseteq Events
  BY ElementsTyped DEF PageIInv, PageTypeOK
<1>6. /\ view' \in [Pages -> Seq(Events)] /\ missed' \in [Pages -> SUBSET Events]
      /\ view'[p] = b /\ missed'[p] = (missed[p] \cup Elements(view[p])) \ Elements(b)
      /\ \A q \in Pages \ {p} : view'[q] = view[q] /\ missed'[q] = missed[q]
  BY <1>2, <1>4, <1>5 DEF PageIInv, PageTypeOK
<1>7. /\ loaded' \in [Pages -> BOOLEAN] /\ loaded'[p]
      /\ \A q \in Pages \ {p} : loaded'[q] = loaded[q]
  BY <1>4 DEF PageIInv, PageTypeOK
<1>8. PageTypeOK'
  BY <1>2, <1>3, <1>4, <1>6, <1>7 DEF PageIInv, PageTypeOK
<1>9. \A q \in Pages : Reached(q) \subseteq Reached(q)'
  BY <1>4, <1>6 DEF Reached
<1> QED
  BY <1>3, <1>4, <1>8, <1>9, PageStepKeeps

-----------------------------------------------------------------------------
LEMMA PageInvariance == PageSpec => []PageIInv
<1>1. PageIInv /\ [PageNext]_pageVars => PageIInv'
  <2> SUFFICES ASSUME PageIInv, [PageNext]_pageVars PROVE PageIInv'
    OBVIOUS
  <2>1. CASE UNCHANGED pageVars
    <3>1. PageTypeOK' /\ \A q \in Pages : Reached(q) \subseteq Reached(q)'
      BY <2>1 DEF PageIInv, PageTypeOK, Reached, pageVars
    <3>2. \A q \in Pages, d \in Calls : Distinct(call'[q][d].body)
      BY <2>1 DEF PageIInv, pageVars
    <3> QED
      BY <2>1, <3>1, <3>2, PageStepKeeps DEF pageVars
  <2>2. ASSUME NEW j \in Jobs,
               \/ HandlerAppends(j) \/ DisconnectAppends(j) \/ DisconnectTooLate(j)
               \/ RunnerAppends(j) \/ Reread(j) \/ RereadRefused(j) \/ Broadcast(j)
        PROVE  PageIInv'
    BY <2>2, HandlerAppendsKeeps, DisconnectAppendsKeeps, DisconnectTooLateKeeps,
       RunnerAppendsKeeps, RereadKeeps, RereadRefusedKeeps, BroadcastKeeps
  <2>3. ASSUME NEW p \in Pages,
               Open(p) \/ Join(p) \/ EnterRoom(p) \/ Drop(p) \/ Close(p) \/ Deliver(p)
        PROVE  PageIInv'
    BY <2>3, OpenKeeps, JoinKeeps, EnterRoomKeeps, DropKeeps, CloseKeeps, DeliverKeeps
  <2>4. ASSUME NEW p \in Pages, NEW c \in Calls,
               Click(p, c) \/ PostDone(p, c) \/ CallFails(p, c) \/ ServeGet(p, c) \/ Apply(p, c)
        PROVE  PageIInv'
    BY <2>4, ClickKeeps, PostDoneKeeps, CallFailsKeeps, ServeGetKeeps, ApplyKeeps
  <2> QED
    BY <2>1, <2>2, <2>3, <2>4 DEF PageNext
<1> QED
  BY <1>1, PageInitIInv, PTL DEF PageSpec

\* Timelines show an event once, whatever calls and broadcasts bring it twice, for
\* every number of pages, handlers, calls and events.
THEOREM PageTypeCorrect == PageSpec => []PageTypeOK
<1>1. PageIInv => PageTypeOK
  BY DEF PageIInv
<1> QED
  BY <1>1, PageInvariance, PTL

\* When no broadcast is under way a page in the room shows the last event or will,
\* or it is one of those nobody sent there, wherever the page was when it went out.
THEOREM PagesShowTheLastEvent == PageSpec => []LastEventIsShown
<1>1. PageIInv => LastEventIsShown
  <2> SUFFICES ASSUME PageIInv, history /= <<>>, \A j \in Jobs : job[j] = NoJob,
                      NEW p \in Pages
               PROVE  Last(history) \in unsaid \cup Reached(p)
    BY DEF LastEventIsShown, Reached
  <2>1. PICK l \in Events : l = Last(history)
    BY DEF PageIInv, PageTypeOK, Last
  <2>2. Announced(l) /\ \A j \in Jobs : ~WillSay(j, l)
    BY <2>1 DEF PageIInv, WillSay, NoJob
  <2> QED
    BY <2>1, <2>2 DEF Announced
<1> QED
  BY <1>1, PageInvariance, PTL
=============================================================================
