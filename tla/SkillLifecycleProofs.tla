------------------------ MODULE SkillLifecycleProofs ------------------------
(***************************************************************************)
(* For any number of entries, contents and concurrent edits and reviews:   *)
(* the newest review of a decided skill is its decision, and what was      *)
(* superseded has a confirmed successor.                                   *)
(***************************************************************************)
EXTENDS SkillLifecycle, TLAPS

\* No row is locked twice.
Locks ==
  \A t, u \in Txs, s \in Ids : Holds(t, s) /\ Holds(u, s) => t = u

\* Time: what a transaction recorded is newer than what is committed of its row.
Order ==
  /\ \A s \in Ids : review[s].at <= clock
  /\ \A t \in Txs : tx[t].at <= clock
  /\ \A t \in Txs : tx[t].pc = "commit" /\ tx[t].op \in {"confirm", "reject"}
       => review[tx[t].skill].at < tx[t].at

\* The row a transaction works on exists, the one it will insert does not, and no
\* other transaction inserts it.
Reserved ==
  \A t \in Txs :
    /\ tx[t] # Idle => status[tx[t].skill] # "NONE"
    /\ tx[t].new # None => /\ status[tx[t].new] = "NONE"
                           /\ \A u \in Txs : tx[u].new = tx[t].new => u = t

IInv == /\ TypeOK /\ Locks /\ Order /\ Reserved
        /\ ReviewExplainsStatus /\ SupersededHasSuccessor

-----------------------------------------------------------------------------
\* A transaction's record tells what it works on.
LEMMA TxFacts ==
  ASSUME TypeOK, NEW t \in Txs
  PROVE  /\ tx[t] # Idle => tx[t].skill \in Ids
         /\ tx[t].pc = "idle" => tx[t] = Idle
         /\ tx[t].new \in Ids \cup {None}
         /\ tx[t].op = "supersede" /\ tx[t].pc = "commit" => tx[t].new \in Ids
         /\ tx[t].pc = "commit" => tx[t].at \in Nat
         /\ tx[t].pc \in {"write", "update", "record"} => tx[t].new = None
<1>1. tx[t] \in TxStates
  BY DEF TypeOK
<1>2. QED
  BY <1>1 DEF TxStates, Idle

LEMMA InitIInv == Init => IInv
<1> SUFFICES ASSUME Init
             PROVE  IInv
  OBVIOUS
<1>1. TypeOK
  BY DEF Init, TypeOK, NoReview, TxStates
<1>2. Locks /\ Order /\ Reserved
  BY DEF Init, Locks, Order, Reserved, Holds, Idle, NoReview
<1>3. ReviewExplainsStatus /\ SupersededHasSuccessor
  BY DEF Init, ReviewExplainsStatus, SupersededHasSuccessor, Decisions
<1>4. QED
  BY <1>1, <1>2, <1>3 DEF IInv

\* Steps that only move one transaction from statement to statement.
LEMMA BeginStep ==
  ASSUME IInv, NEW t \in Txs, NEW s \in Ids, NEW op \in {"edit"} \cup Reviews,
         tx[t] = Idle, status[s] # "NONE", UNCHANGED <<rows, clock>>,
         NEW pc, pc = IF op = "edit" THEN "write" ELSE "update",
         tx' = [tx EXCEPT ![t] = [Idle EXCEPT !.op = op, !.pc = pc, !.skill = s]]
  PROVE  IInv'
<1> DEFINE x == [op |-> op, pc |-> pc, skill |-> s, new |-> None, at |-> 0]
<1>1. tx'[t] = x /\ \A u \in Txs \ {t} : tx'[u] = tx[u]
  BY DEF IInv, TypeOK, Idle
<1>2. x \in TxStates
  BY DEF TxStates, Reviews
<1>3. TypeOK'
  BY <1>1, <1>2 DEF IInv, TypeOK, rows
<1>4. Locks'
  BY <1>1 DEF IInv, Locks, Holds
<1>5. Order'
  BY <1>1 DEF IInv, Order, rows
<1>6. Reserved'
  BY <1>1 DEF IInv, Reserved, rows
<1>7. ReviewExplainsStatus' /\ SupersededHasSuccessor'
  BY DEF IInv, ReviewExplainsStatus, SupersededHasSuccessor, rows
<1>8. QED
  BY <1>3, <1>4, <1>5, <1>6, <1>7 DEF IInv

\* Steps that end one transaction and leave status, links and reviews alone.
LEMMA EndStep ==
  ASSUME IInv, NEW t \in Txs, End(t), UNCHANGED <<status, old, review, confirmed, clock>>,
         content' \in [Ids -> Contents \cup {None}]
  PROVE  IInv'
<1>1. tx'[t] = Idle /\ \A u \in Txs \ {t} : tx'[u] = tx[u]
  BY DEF IInv, TypeOK, End
<1>2. TypeOK'
  BY <1>1 DEF IInv, TypeOK, TxStates, End
<1>3. Locks' /\ Order' /\ Reserved'
  <2>1. 0 <= clock
    BY DEF IInv, TypeOK
  <2>2. QED
    BY <1>1, <2>1, NoneAssumption DEF IInv, Locks, Order, Reserved, Holds, Idle
<1>4. ReviewExplainsStatus' /\ SupersededHasSuccessor'
  BY DEF IInv, ReviewExplainsStatus, SupersededHasSuccessor
<1>5. QED
  BY <1>2, <1>3, <1>4 DEF IInv

-----------------------------------------------------------------------------
\* The status update takes the lock: nobody else has it.
LEMMA UpdateStep ==
  ASSUME IInv, NEW t \in Txs, Update(t)
  PROVE  IInv'
<1>1. tx[t] \in [op : Reviews, pc : {"update", "record"}, skill : Ids, new : {None}, at : {0}]
  BY DEF IInv, TypeOK, Update, TxStates, Idle
<1>2. /\ tx'[t] = [tx[t] EXCEPT !.pc = "record"]
      /\ \A u \in Txs \ {t} : tx'[u] = tx[u]
  BY DEF IInv, TypeOK, Update, Goto
<1>3. /\ tx'[t] \in [op : Reviews, pc : {"update", "record"}, skill : Ids, new : {None}, at : {0}]
      /\ tx'[t].pc = "record" /\ tx'[t].skill = tx[t].skill /\ tx'[t].new = None
  BY <1>1, <1>2
<1>4. TypeOK'
  BY <1>2, <1>3 DEF IInv, TypeOK, Update, Goto, TxStates, rows
<1>5. Locks'
  BY <1>2, <1>3 DEF IInv, Locks, Holds, Update, Free
<1>6. Order'
  BY <1>2, <1>3 DEF IInv, Order, Update, rows
<1>7. Reserved'
  BY <1>1, <1>2, <1>3, NoneAssumption DEF IInv, Reserved, Update, rows, Idle
<1>8. ReviewExplainsStatus' /\ SupersededHasSuccessor'
  BY DEF IInv, ReviewExplainsStatus, SupersededHasSuccessor, Update, rows
<1>9. QED
  BY <1>4, <1>5, <1>6, <1>7, <1>8 DEF IInv

\* What is recorded is newer than everything recorded before.
LEMMA RecordStep ==
  ASSUME IInv, NEW t \in Txs, Record(t)
  PROVE  IInv'
<1>1. tx[t] \in [op : Reviews, pc : {"update", "record"}, skill : Ids, new : {None}, at : {0}]
  BY DEF IInv, TypeOK, Record, TxStates, Idle
<1>2. clock \in Nat /\ clock' = clock + 1
  BY DEF IInv, TypeOK, Record
<1>3. PICK n \in FreshIds \cup {None} :
        /\ n = None <=> tx[t].op # "supersede"
        /\ tx'[t] = [op |-> tx[t].op, pc |-> "commit", skill |-> tx[t].skill,
                     new |-> n, at |-> clock']
        /\ \A u \in Txs \ {t} : tx'[u] = tx[u]
  <2>1. CASE tx[t].op \in {"confirm", "reject"}
    <3>1. tx' = [tx EXCEPT ![t].pc = "commit", ![t].at = clock']
      BY <2>1 DEF Record
    <3>2. tx'[t] = [op |-> tx[t].op, pc |-> "commit", skill |-> tx[t].skill,
                    new |-> None, at |-> clock']
      BY <1>1, <3>1 DEF IInv, TypeOK
    <3>3. QED
      BY <2>1, <3>1, <3>2 DEF IInv, TypeOK
  <2>2. CASE tx[t].op = "supersede"
    <3>1. PICK n \in FreshIds :
            tx' = [tx EXCEPT ![t].pc = "commit", ![t].at = clock', ![t].new = n]
      BY <2>2 DEF Record
    <3>2. tx'[t] = [op |-> tx[t].op, pc |-> "commit", skill |-> tx[t].skill,
                    new |-> n, at |-> clock']
      BY <1>1, <3>1 DEF IInv, TypeOK
    <3>3. n # None
      BY NoneAssumption DEF FreshIds
    <3>4. QED
      BY <2>2, <3>1, <3>2, <3>3 DEF IInv, TypeOK
  <2>3. QED
    BY <1>1, <2>1, <2>2 DEF Reviews
<1>4. TypeOK'
  <2>1. tx'[t] \in TxStates
    BY <1>1, <1>2, <1>3 DEF TxStates, FreshIds, Reviews
  <2>2. tx' \in [Txs -> TxStates]
    BY <1>3, <2>1 DEF IInv, TypeOK, Record
  <2>3. QED
    BY <1>2, <2>2 DEF IInv, TypeOK, Record, rows
<1>5. Locks'
  BY <1>1, <1>3 DEF IInv, Locks, Holds, Record
<1>6. Order'
  <2>1. \A s \in Ids : review'[s].at <= clock' /\ review'[s].at < clock'
    BY <1>2 DEF IInv, TypeOK, Order, Record, rows
  <2>2. \A u \in Txs \ {t} : tx'[u].pc = "commit" /\ tx'[u].op \in {"confirm", "reject"}
          => review'[tx'[u].skill].at < tx'[u].at
    BY <1>3 DEF IInv, Order, Record, rows
  <2>3. review'[tx'[t].skill].at < tx'[t].at
    BY <1>1, <1>3, <2>1
  <2>4. \A u \in Txs : tx'[u].at <= clock'
    <3>1. \A u \in Txs \ {t} : tx[u].at \in Nat /\ tx[u].at <= clock
      BY DEF IInv, TypeOK, TxStates, Idle, Order
    <3>2. QED
      BY <1>2, <1>3, <3>1
  <2>5. QED
    BY <2>1, <2>2, <2>3, <2>4 DEF Order
<1>7. Reserved'
  <2>1. status' = status
    BY DEF Record, rows
  <2>2. tx[t] # Idle /\ tx'[t].skill = tx[t].skill /\ tx'[t].new = n
    BY <1>1, <1>3 DEF Idle, Reviews
  <2>3. n # None => status[n] = "NONE" /\ \A u \in Txs : tx[u].new # n
    BY <1>3 DEF FreshIds
  <2>4. QED
    BY <1>3, <2>1, <2>2, <2>3 DEF IInv, Reserved
<1>8. ReviewExplainsStatus' /\ SupersededHasSuccessor'
  BY DEF IInv, ReviewExplainsStatus, SupersededHasSuccessor, Record, rows
<1>9. QED
  BY <1>4, <1>5, <1>6, <1>7, <1>8 DEF IInv

\* A decision overwrites no newer review of its row, because it holds the lock.
LEMMA DecideStep ==
  ASSUME IInv, NEW t \in Txs, NEW d \in Decisions, Decide(t, d),
         tx[t].op \in {"confirm", "reject"}
  PROVE  IInv'
<1> DEFINE s == tx[t].skill
<1>1. s \in Ids /\ tx[t].at \in Nat /\ tx[t].pc = "commit" /\ Holds(t, s)
  BY TxFacts DEF IInv, Decide, Holds, Idle
<1>2. tx'[t] = Idle /\ \A u \in Txs \ {t} : tx'[u] = tx[u]
  BY DEF IInv, TypeOK, Decide, End
<1>3. review[s].at < tx[t].at /\ review[s].at \in Nat
  BY <1>1 DEF IInv, Order, TypeOK
<1>4. /\ review'[s] = [at |-> tx[t].at, decision |-> d]
      /\ \A r \in Ids \ {s} : review'[r] = review[r]
      /\ status'[s] = d /\ \A r \in Ids \ {s} : status'[r] = status[r]
  BY <1>1, <1>3 DEF IInv, TypeOK, Decide
<1>5. TypeOK'
  BY <1>1, <1>2, <1>4 DEF IInv, TypeOK, Decide, End, TxStates
<1>6. Locks'
  BY <1>2 DEF IInv, Locks, Holds, Idle
<1>7. Order'
  <2>1. tx[t].at <= clock
    BY DEF IInv, Order
  <2>2. \A u \in Txs \ {t} : tx[u].pc = "commit" => tx[u].skill # s
    BY <1>1 DEF IInv, Locks, Holds
  <2>3. clock' = clock /\ 0 <= clock
    BY DEF IInv, TypeOK, Decide
  <2>4. \A r \in Ids : review'[r].at <= clock'
    BY <1>4, <2>1, <2>3 DEF IInv, Order
  <2>5. \A u \in Txs : tx'[u].at <= clock'
    BY <1>2, <2>3 DEF IInv, Order, Idle
  <2>6. ASSUME NEW u \in Txs, tx'[u].pc = "commit", tx'[u].op \in {"confirm", "reject"}
        PROVE  review'[tx'[u].skill].at < tx'[u].at
    <3>1. u # t /\ tx'[u] = tx[u] /\ tx[u].skill \in Ids
      BY <1>2, <2>6, TxFacts DEF IInv, Idle
    <3>2. QED
      BY <1>4, <2>2, <2>6, <3>1 DEF IInv, Order
  <2>7. QED
    BY <2>4, <2>5, <2>6 DEF Order
<1>8. Reserved'
  <2>1. status[s] # "NONE" /\ d # "NONE"
    BY <1>1 DEF IInv, Reserved, Idle, Decisions
  <2>2. QED
    BY <1>1, <1>2, <1>4, <2>1, TxFacts, NoneAssumption DEF IInv, Reserved, Idle
<1>9. ReviewExplainsStatus'
  BY <1>4 DEF IInv, ReviewExplainsStatus
<1>10. SupersededHasSuccessor'
  <2>1. d \notin {"NONE", "SUPERSEDED"} /\ old' = old /\ confirmed \subseteq confirmed'
    BY DEF Decide, Decisions
  <2>2. QED
    BY <1>1, <1>4, <2>1 DEF IInv, TypeOK, SupersededHasSuccessor
<1>11. QED
  BY <1>5, <1>6, <1>7, <1>8, <1>9, <1>10 DEF IInv

\* The new version is one nobody refers to yet, so no link or review is lost.
LEMMA SupersedeStep ==
  ASSUME IInv, NEW t \in Txs, NEW v \in Contents, Supersede(t, v)
  PROVE  IInv'
<1> DEFINE s == tx[t].skill
           n == tx[t].new
<1>1. s \in Ids /\ n \in Ids /\ n # None /\ tx[t].at \in Nat /\ tx[t] # Idle
  BY TxFacts, NoneAssumption DEF IInv, Supersede, Idle
<1>2. tx'[t] = Idle /\ \A u \in Txs \ {t} : tx'[u] = tx[u]
  BY DEF IInv, TypeOK, Supersede, End
<1>3. status[n] = "NONE" /\ status[s] # "NONE" /\ n # s
  BY <1>1 DEF IInv, Reserved
<1>4. /\ review'[n] = [at |-> tx[t].at, decision |-> "CONFIRMED"]
      /\ \A r \in Ids \ {n} : review'[r] = review[r] /\ old'[r] = old[r]
      /\ status'[n] = "CONFIRMED" /\ status'[s] = "SUPERSEDED" /\ old'[n] = s
      /\ \A r \in Ids \ {s, n} : status'[r] = status[r]
      /\ confirmed' = confirmed \cup {n} /\ clock' = clock
  BY <1>1, <1>3 DEF IInv, TypeOK, Supersede
<1>5. TypeOK'
  BY <1>1, <1>2, <1>4 DEF IInv, TypeOK, Supersede, End, TxStates, Decisions
<1>6. Locks'
  BY <1>2 DEF IInv, Locks, Holds, Idle
<1>7. Order'
  <2>1. 0 <= clock /\ tx[t].at <= clock
    BY DEF IInv, TypeOK, Order
  <2>2. \A r \in Ids : review'[r].at <= clock'
    BY <1>4, <2>1 DEF IInv, Order
  <2>3. \A u \in Txs : tx'[u].at <= clock'
    BY <1>2, <1>4, <2>1 DEF IInv, Order, Idle
  <2>4. ASSUME NEW u \in Txs, tx'[u].pc = "commit", tx'[u].op \in {"confirm", "reject"}
        PROVE  review'[tx'[u].skill].at < tx'[u].at
    <3>1. u # t /\ tx'[u] = tx[u] /\ tx[u].skill \in Ids /\ tx[u] # Idle
      BY <1>2, <2>4, TxFacts DEF IInv, Idle
    <3>2. tx[u].skill # n
      BY <1>3, <3>1 DEF IInv, Reserved
    <3>3. QED
      BY <1>4, <2>4, <3>1, <3>2 DEF IInv, Order
  <2>5. QED
    BY <2>2, <2>3, <2>4 DEF Order
<1>8. Reserved'
  <2>1. ASSUME NEW u \in Txs \ {t}, tx[u] # Idle
        PROVE  tx[u].skill \in Ids /\ status'[tx[u].skill] # "NONE"
    BY <1>4, <2>1, TxFacts DEF IInv, Reserved
  <2>2. ASSUME NEW u \in Txs \ {t}, tx[u].new # None
        PROVE  tx[u].new \in Ids \ {s, n} /\ status'[tx[u].new] = "NONE"
    BY <1>1, <1>3, <1>4, <2>2, TxFacts DEF IInv, Reserved
  <2>3. QED
    BY <1>2, <2>1, <2>2 DEF IInv, Reserved, Idle
<1>9. ReviewExplainsStatus'
  BY <1>3, <1>4 DEF IInv, ReviewExplainsStatus, Decisions
<1>10. SupersededHasSuccessor'
  <2>1. \E r \in confirmed' : r # s /\ old'[r] = s /\ status'[r] # "NONE"
    BY <1>3, <1>4
  <2>2. ASSUME NEW r \in Ids \ {s}, status'[r] = "SUPERSEDED"
        PROVE  \E m \in confirmed' : m # r /\ old'[m] = r /\ status'[m] # "NONE"
    <3>1. PICK m \in confirmed : m # r /\ old[m] = r /\ status[m] # "NONE"
      BY <1>4, <2>2 DEF IInv, SupersededHasSuccessor
    <3>2. m \in Ids \ {n}
      BY <1>3, <3>1 DEF IInv, TypeOK
    <3>3. QED
      BY <1>4, <3>1, <3>2
  <2>3. QED
    BY <2>1, <2>2 DEF SupersededHasSuccessor
<1>11. QED
  BY <1>5, <1>6, <1>7, <1>8, <1>9, <1>10 DEF IInv

LEMMA CreateStep ==
  ASSUME IInv, NEW s \in Ids, NEW v \in Contents, CreateCandidate(s, v)
  PROVE  IInv'
<1>1. status[s] = "NONE" /\ \A t \in Txs : tx[t].new # s
  BY DEF CreateCandidate, FreshIds
<1>2. status'[s] = "TENTATIVE" /\ \A r \in Ids \ {s} : status'[r] = status[r]
  BY DEF IInv, TypeOK, CreateCandidate
<1>3. UNCHANGED <<old, review, confirmed, clock, tx>>
  BY DEF CreateCandidate
<1>4. TypeOK'
  BY <1>3 DEF IInv, TypeOK, CreateCandidate
<1>5. Locks' /\ Order'
  BY <1>3 DEF IInv, Locks, Order, Holds
<1>6. Reserved'
  BY <1>1, <1>2, <1>3, TxFacts DEF IInv, Reserved
<1>7. ReviewExplainsStatus'
  BY <1>2, <1>3 DEF IInv, ReviewExplainsStatus, Decisions
<1>8. SupersededHasSuccessor'
  <2>1. confirmed \subseteq Ids
    BY DEF IInv, TypeOK
  <2>2. QED
    BY <1>2, <1>3, <2>1 DEF IInv, SupersededHasSuccessor
<1>9. QED
  BY <1>4, <1>5, <1>6, <1>7, <1>8 DEF IInv

LEMMA Inductive == IInv /\ [Next]_vars => IInv'
<1> SUFFICES ASSUME IInv, [Next]_vars
             PROVE  IInv'
  OBVIOUS
<1>1. ASSUME NEW s \in Ids, NEW v \in Contents, CreateCandidate(s, v)
      PROVE  IInv'
  BY <1>1, CreateStep
<1>2. ASSUME NEW t \in Txs, NEW s \in Ids, BeginEdit(t, s)
      PROVE  IInv'
  BY <1>2, BeginStep DEF BeginEdit
<1>3. ASSUME NEW t \in Txs, NEW s \in Ids, NEW op \in Reviews, BeginReview(t, op, s)
      PROVE  IInv'
  BY <1>3, BeginStep DEF BeginReview, Reviews
<1>4. ASSUME NEW t \in Txs, NEW v \in Contents, WriteEdit(t, v)
      PROVE  IInv'
  <2>1. content' \in [Ids -> Contents \cup {None}]
    BY <1>4 DEF IInv, TypeOK, WriteEdit
  <2>2. QED
    BY <1>4, <2>1, EndStep DEF WriteEdit
<1>5. ASSUME NEW t \in Txs, NEW v \in Contents, Supersede(t, v)
      PROVE  IInv'
  BY <1>5, SupersedeStep
<1>6. ASSUME NEW t \in Txs, Update(t) \/ Record(t)
      PROVE  IInv'
  BY <1>6, UpdateStep, RecordStep
<1>7. ASSUME NEW t \in Txs, Confirm(t) \/ Reject(t)
      PROVE  IInv'
  BY <1>7, DecideStep DEF Confirm, Reject, Decisions
<1>8. ASSUME NEW t \in Txs, Abort(t)
      PROVE  IInv'
  BY <1>8, EndStep DEF Abort, rows, IInv, TypeOK
<1>9. CASE UNCHANGED vars
  BY <1>9 DEF vars, rows, IInv, TypeOK, Locks, Order, Reserved, Holds, ReviewExplainsStatus,
              SupersededHasSuccessor
<1>10. QED
  BY <1>1, <1>2, <1>3, <1>4, <1>5, <1>6, <1>7, <1>8, <1>9 DEF Next, Run

\* Every state has its type.
THEOREM SkillTypeCorrect == Spec => []TypeOK
<1>1. IInv => TypeOK
  BY DEF IInv
<1>2. QED
  BY <1>1, InitIInv, Inductive, PTL DEF Spec

\* The newest review of a confirmed or rejected skill is that decision, however
\* many reviewers race: the review is recorded while its row is locked.
THEOREM ReviewsExplain == Spec => []ReviewExplainsStatus
<1>1. IInv => ReviewExplainsStatus
  BY DEF IInv
<1>2. QED
  BY <1>1, InitIInv, Inductive, PTL DEF Spec

\* A superseded skill always has a confirmed version that replaced it.
THEOREM HistoryIsKept == Spec => []SupersededHasSuccessor
<1>1. IInv => SupersededHasSuccessor
  BY DEF IInv
<1>2. QED
  BY <1>1, InitIInv, Inductive, PTL DEF Spec
=============================================================================
