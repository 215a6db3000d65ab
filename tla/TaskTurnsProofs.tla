-------------------------- MODULE TaskTurnsProofs --------------------------
(***************************************************************************)
(* For any number of threads, tasks and clears: how many turns of a thread *)
(* overlap, what the row of a task says of its run, and that the log of a  *)
(* thread has its turns in the order they were asked for.                  *)
(***************************************************************************)
EXTENDS TaskTurns, FiniteSetTheorems, SequenceTheorems, WellFoundedInduction, TLAPS

Pcs == UnderWay \cup {"none", "created", "queued", "done", "refused", "lost"}

\* The queues q hold waiting turns (by the program counters p) of their own thread
\* (by o), each once.
Waiting(q, p, o) ==
  \A th \in Threads : \A i \in 1..Len(q[th]) :
    /\ p[q[th][i]] = "queued"
    /\ o[q[th][i]] = th
    /\ \A j \in 1..Len(q[th]) : q[th][i] = q[th][j] => i = j

\* A task has a thread only once it was enqueued.
Unassigned == \A t \in Tasks : pc[t] \in {"none", "created"} => on[t] = None

\* What the program counter of a run says of the row and of the result.
RowOf(t) ==
  /\ pc[t] \in {"none", "created", "queued", "begin", "refused"} => status[t] # "RUNNING"
  /\ pc[t] = "return" => result[t] \in Outcomes
  /\ pc[t] = "done" => result[t] \in Outcomes \cup {"THROWN"}
  /\ pc[t] \in {"return", "done"} /\ result[t] \in Outcomes =>
       status[t] \in {result[t], "CANCELLED"}

\* A thread that is free may begin one more turn.
Room(th) == IF th \in running THEN 0 ELSE 1
Bounded == \A th \in Threads : Cardinality(InFlight(th)) + Room(th) <= 1 + clears

IInv == TypeOK /\ Waiting(queue, pc, on) /\ Unassigned /\ (\A t \in Tasks : RowOf(t)) /\ Bounded

-----------------------------------------------------------------------------
(* Lemmas on sets of turns and on the queue *)

LEMMA InFlightFinite ==
  ASSUME NEW th
  PROVE  /\ IsFiniteSet(InFlight(th)) /\ Cardinality(InFlight(th)) \in Nat
<1>1. InFlight(th) \in SUBSET Tasks
  BY DEF InFlight
<1>2. IsFiniteSet(InFlight(th))
  BY <1>1, TasksAssumption, FS_Subset
<1>3. QED
  BY <1>2, FS_CardinalityType

\* A set that gains at most one element.
LEMMA AtMostOneMore ==
  ASSUME NEW A, IsFiniteSet(A), NEW h, NEW B \in SUBSET (A \cup {h})
  PROVE  Cardinality(B) <= Cardinality(A) + 1
<1>1. /\ IsFiniteSet(A \cup {h})
      /\ Cardinality(A \cup {h}) <= Cardinality(A) + 1
      /\ Cardinality(A) \in Nat
  BY FS_AddElement, FS_CardinalityType
<1>2. IsFiniteSet(B) /\ Cardinality(B) <= Cardinality(A \cup {h})
  BY <1>1, FS_Subset
<1>3. Cardinality(B) \in Nat /\ Cardinality(A \cup {h}) \in Nat
  BY <1>1, <1>2, FS_CardinalityType
<1>4. QED
  BY <1>1, <1>2, <1>3

\* processNext as a relation of the queues, threads and turns before and after it.
Served(th, q, r, p, q2, r2, p2) ==
  LET go == th \notin r /\ q[th] # <<>>
  IN  /\ q2 = IF go THEN [q EXCEPT ![th] = Tail(@)] ELSE q
      /\ r2 = IF go THEN r \cup {th} ELSE r
      /\ p2 = IF go THEN [p EXCEPT ![Head(q[th])] = "begin"] ELSE p

\* No turn begins, or one that waited for the thread, which was free.
NoneOrNext(th, r, p, o, r2, p2) ==
  \/ p2 = p /\ r2 = r
  \/ \E h \in Tasks : /\ th \notin r /\ r2 = r \cup {th}
                      /\ p[h] = "queued" /\ o[h] = th
                      /\ p2[h] = "begin" /\ \A u \in Tasks \ {h} : p2[u] = p[u]

\* It changes nothing, or begins the turn that waits longest on a free thread.
LEMMA Serves ==
  ASSUME NEW th \in Threads, NEW q \in [Threads -> Seq(Tasks)], NEW r \in SUBSET Threads,
         NEW p \in [Tasks -> Pcs], NEW o, Waiting(q, p, o),
         NEW q2, NEW r2, NEW p2, Served(th, q, r, p, q2, r2, p2)
  PROVE  /\ q2 \in [Threads -> Seq(Tasks)] /\ r2 \in SUBSET Threads /\ p2 \in [Tasks -> Pcs]
         /\ Waiting(q2, p2, o)
         /\ NoneOrNext(th, r, p, o, r2, p2)
<1>1. CASE th \in r \/ q[th] = <<>>
  BY <1>1 DEF Served, NoneOrNext
<1>2. CASE th \notin r /\ q[th] # <<>>
  <2> DEFINE h == Head(q[th])
  <2>1. /\ q2 = [q EXCEPT ![th] = Tail(@)]
        /\ r2 = r \cup {th}
        /\ p2 = [p EXCEPT ![h] = "begin"]
    BY <1>2 DEF Served
  <2>2. /\ Len(q[th]) \in Nat /\ Len(q[th]) >= 1 /\ h = q[th][1] /\ h \in Tasks
        /\ Tail(q[th]) \in Seq(Tasks)
        /\ Len(Tail(q[th])) = Len(q[th]) - 1
        /\ \A i \in 1..Len(Tail(q[th])) : Tail(q[th])[i] = q[th][i + 1]
    BY <1>2
  <2>3. p[h] = "queued" /\ o[h] = th
    BY <2>2 DEF Waiting
  <2>4. Waiting(q2, p2, o)
    <3> SUFFICES ASSUME NEW u \in Threads, NEW i \in 1..Len(q2[u])
                 PROVE  /\ p2[q2[u][i]] = "queued"
                        /\ o[q2[u][i]] = u
                        /\ \A j \in 1..Len(q2[u]) : q2[u][i] = q2[u][j] => i = j
      BY DEF Waiting
    <3>1. CASE u = th
      <4>1. q2[u] = Tail(q[th])
        BY <2>1, <3>1
      <4>2. i \in Nat /\ i >= 1 /\ i + 1 \in 1..Len(q[th]) /\ q2[u][i] = q[th][i + 1]
        BY <2>2, <4>1
      <4>3. q[th][i + 1] # h /\ q[th][i + 1] \in Tasks
        BY <2>2, <4>2 DEF Waiting
      <4>4. \A j \in 1..Len(q2[u]) : q2[u][i] = q2[u][j] => i = j
        BY <2>2, <4>1, <4>2 DEF Waiting
      <4>5. QED
        BY <2>1, <3>1, <4>2, <4>3, <4>4 DEF Waiting
    <3>2. CASE u # th
      <4>1. q2[u] = q[u]
        BY <2>1, <3>2
      <4>2. o[q[u][i]] = u /\ p[q[u][i]] = "queued" /\ q[u][i] \in Tasks
        BY <4>1 DEF Waiting
      <4>3. q[u][i] # h
        BY <2>3, <3>2, <4>2
      <4>4. QED
        BY <2>1, <4>1, <4>2, <4>3 DEF Waiting
    <3>3. QED
      BY <3>1, <3>2
  <2>5. QED
    BY <1>2, <2>1, <2>2, <2>3, <2>4 DEF Pcs, UnderWay, NoneOrNext
<1>3. QED
  BY <1>1, <1>2

\* The bound where no turn begins and no thread becomes free.
LEMMA NoMoreTurns ==
  ASSUME IInv, NEW th \in Threads, th \in running => th \in running', clears' = clears,
         InFlight(th)' \in SUBSET InFlight(th)
  PROVE  Cardinality(InFlight(th)') + Room(th)' <= 1 + clears'
<1>1. Cardinality(InFlight(th)') <= Cardinality(InFlight(th)) /\ Cardinality(InFlight(th)') \in Nat
  BY InFlightFinite, FS_Subset, FS_CardinalityType
<1>2. QED
  BY <1>1, InFlightFinite DEF IInv, TypeOK, Bounded, Room

-----------------------------------------------------------------------------
LEMMA InitIInv == Init => IInv
<1> SUFFICES ASSUME Init
             PROVE  IInv
  OBVIOUS
<1>1. TypeOK
  BY DEF Init, TypeOK, UnderWay, Outcomes
<1>2. Waiting(queue, pc, on) /\ Unassigned /\ \A t \in Tasks : RowOf(t)
  BY DEF Init, Waiting, Unassigned, RowOf, Outcomes
<1>3. Bounded
  <2> SUFFICES ASSUME NEW th \in Threads
               PROVE  Cardinality(InFlight(th)) + Room(th) <= 1 + clears
    BY DEF Bounded
  <2>1. InFlight(th) = {}
    BY DEF Init, InFlight, UnderWay
  <2>2. QED
    BY <2>1, FS_EmptySet DEF Init, Room
<1>4. QED
  BY <1>1, <1>2, <1>3 DEF IInv

\* Steps of a run or a route that leave queues and threads alone: the counter of
\* one task moves, but not into flight unless the task has no thread.
LEMMA LocalStep ==
  ASSUME IInv, NEW t \in Tasks, NEW n \in Pcs, n \notin {"none", "created", "queued"},
         pc[t] # "queued", pc' = [pc EXCEPT ![t] = n], UNCHANGED <<on, turns>>,
         n \in UnderWay => pc[t] \in UnderWay \/ on[t] = None,
         status' \in [Tasks -> {"NONE", "PENDING", "RUNNING", "CANCELLED"} \cup Outcomes],
         result' \in [Tasks -> {"NONE", "THROWN"} \cup Outcomes],
         \A u \in Tasks \ {t} : status'[u] = status[u] /\ result'[u] = result[u],
         RowOf(t)'
  PROVE  IInv'
<1>1. TypeOK'
  BY DEF IInv, TypeOK, turns, Pcs
<1>2. Waiting(queue, pc, on)'
  BY DEF IInv, TypeOK, Waiting, turns
<1>3. Unassigned'
  BY DEF IInv, TypeOK, Unassigned, turns
<1>4. (\A u \in Tasks : RowOf(u))'
  BY DEF IInv, TypeOK, RowOf
<1>5. Bounded'
  <2> SUFFICES ASSUME NEW th \in Threads
               PROVE  Cardinality(InFlight(th)') + Room(th)' <= 1 + clears'
    BY DEF Bounded, Room
  <2>1. InFlight(th)' \in SUBSET InFlight(th)
    BY NoneAssumption DEF InFlight, IInv, TypeOK, turns
  <2>2. QED
    BY <2>1, NoMoreTurns DEF turns
<1>6. QED
  BY <1>1, <1>2, <1>3, <1>4, <1>5 DEF IInv

\* A run ends and its thread, if it has one, serves the next turn.
LEMMA EndStep ==
  ASSUME IInv, NEW t \in Tasks, NEW r \in Outcomes \cup {"THROWN"}, pc[t] \in UnderWay,
         r \in Outcomes => status[t] \in {r, "CANCELLED"}, End(t, r)
  PROVE  IInv'
<1> DEFINE p == [pc EXCEPT ![t] = "done"]
           th == on[t]
           free == running \ {th}
<1>1. CASE on[t] = None
  <2>1. pc' = p /\ UNCHANGED <<on, turns, status>> /\ result' = [result EXCEPT ![t] = r]
    BY <1>1 DEF End, turns
  <2>2. RowOf(t)'
    BY <2>1 DEF RowOf, IInv, TypeOK
  <2>3. QED
    BY <2>1, <2>2, LocalStep DEF IInv, TypeOK, Pcs, UnderWay, Outcomes
<1>2. CASE on[t] # None
  <2>1. /\ result' = [result EXCEPT ![t] = r]
        /\ UNCHANGED <<status, on, asked, clears>>
        /\ history' \in [Threads -> Seq(Tasks)]
        /\ Served(th, queue, free, p, queue', running', pc')
        /\ th \in Threads
    <3>1. /\ result' = [result EXCEPT ![t] = r]
          /\ UNCHANGED <<status, on, asked, clears>>
          /\ Served(th, queue, free, p, queue', running', pc')
          /\ history' = history \/ history' = [history EXCEPT ![th] = Append(@, t)]
      BY <1>2 DEF End, ProcessNext, Served
    <3>2. th \in Threads /\ history \in [Threads -> Seq(Tasks)]
      BY <1>2 DEF IInv, TypeOK
    <3>3. Append(history[th], t) \in Seq(Tasks)
      BY <3>2
    <3>4. QED
      BY <3>1, <3>2, <3>3
  <2>2. Waiting(queue, p, on) /\ p \in [Tasks -> Pcs]
    BY DEF IInv, TypeOK, Waiting, Pcs, UnderWay
  <2>3. queue \in [Threads -> Seq(Tasks)] /\ free \in SUBSET Threads
    BY DEF IInv, TypeOK
  <2>4. /\ queue' \in [Threads -> Seq(Tasks)] /\ running' \in SUBSET Threads
        /\ pc' \in [Tasks -> Pcs]
        /\ Waiting(queue', pc', on)
        /\ \/ pc' = p /\ running' = free
           \/ \E h \in Tasks : /\ th \notin free /\ running' = free \cup {th}
                               /\ p[h] = "queued" /\ on[h] = th
                               /\ pc'[h] = "begin" /\ \A u \in Tasks \ {h} : pc'[u] = p[u]
    <3> HIDE DEF p, th, free
    <3>1. /\ queue' \in [Threads -> Seq(Tasks)] /\ running' \in SUBSET Threads
          /\ pc' \in [Tasks -> Pcs]
          /\ Waiting(queue', pc', on)
          /\ NoneOrNext(th, free, p, on, running', pc')
      BY <2>1, <2>2, <2>3, Serves
    <3>2. QED
      BY <3>1 DEF NoneOrNext
  <2>5. TypeOK'
    BY <2>1, <2>4 DEF IInv, TypeOK, Pcs
  <2>6. Waiting(queue, pc, on)'
    BY <2>1, <2>4 DEF Waiting
  <2>7. Unassigned'
    BY <2>1, <2>4 DEF IInv, TypeOK, Unassigned
  <2>8. (\A u \in Tasks : RowOf(u))'
    <3> SUFFICES ASSUME NEW u \in Tasks
                 PROVE  RowOf(u)'
      OBVIOUS
    <3>1. RowOf(u) /\ p[t] = "done" /\ t \in Tasks
      BY DEF IInv, TypeOK
    <3>2. CASE u = t
      <4>1. pc'[t] = "done" /\ result'[t] = r
        BY <2>1, <2>4, <3>1 DEF IInv, TypeOK
      <4>2. QED
        BY <2>1, <3>2, <4>1 DEF RowOf, Outcomes
    <3>3. CASE u # t
      <4>1. \/ pc'[u] = pc[u]
            \/ pc[u] = "queued" /\ pc'[u] = "begin"
        BY <2>4, <3>3 DEF IInv, TypeOK
      <4>2. result'[u] = result[u] /\ status' = status
        BY <2>1, <3>3 DEF IInv, TypeOK
      <4>3. QED
        BY <3>1, <4>1, <4>2 DEF RowOf
    <3>4. QED
      BY <3>2, <3>3
  <2>9. Bounded'
    <3> SUFFICES ASSUME NEW u \in Threads
                 PROVE  Cardinality(InFlight(u)') + Room(u)' <= 1 + clears'
      BY DEF Bounded, Room
    <3>1. CASE u # th
      <4>1. InFlight(u)' \in SUBSET InFlight(u)
        BY <2>1, <2>4, <3>1 DEF InFlight, IInv, TypeOK, UnderWay
      <4>2. QED
        BY <2>1, <2>4, <3>1, <4>1, NoMoreTurns
    <3>2. CASE u = th
      <4> DEFINE A == InFlight(u) \ {t}
      <4>1. t \in InFlight(u)
        BY <3>2 DEF InFlight
      <4>2. IsFiniteSet(A) /\ Cardinality(A) = Cardinality(InFlight(u)) - 1
        BY <4>1, InFlightFinite, FS_RemoveElement
      <4>3. Cardinality(InFlight(u)) \in Nat /\ clears \in Nat
        BY InFlightFinite DEF IInv, TypeOK
      <4>4. CASE pc' = p /\ running' = running \ {th}
        <5>1. InFlight(u)' = A
          BY <2>1, <4>4 DEF InFlight, IInv, TypeOK, UnderWay
        <5>2. QED
          BY <2>1, <3>2, <4>2, <4>3, <4>4, <5>1 DEF Room, Bounded, IInv
      <4>5. ASSUME NEW h \in Tasks, running' = running \cup {th},
                   \A v \in Tasks \ {h} : pc'[v] = p[v]
            PROVE  Cardinality(InFlight(u)') + Room(u)' <= 1 + clears'
        <5>1. InFlight(u)' \in SUBSET (A \cup {h})
          BY <2>1, <4>5 DEF InFlight, IInv, TypeOK, UnderWay
        <5>2. Cardinality(InFlight(u)') <= Cardinality(A) + 1
          BY <4>2, <5>1, AtMostOneMore
        <5>3. Room(u)' = 0
          BY <3>2, <4>5 DEF Room
        <5>4. Cardinality(InFlight(u)') \in Nat
          BY <4>2, <5>1, FS_AddElement, FS_Subset, FS_CardinalityType
        <5>5. QED
          BY <2>1, <3>2, <4>2, <4>3, <5>2, <5>3, <5>4 DEF Room, Bounded, IInv
      <4>6. QED
        BY <2>4, <4>4, <4>5
    <3>3. QED
      BY <3>1, <3>2
  <2>10. QED
    BY <2>5, <2>6, <2>7, <2>8, <2>9 DEF IInv
<1>3. QED
  BY <1>1, <1>2

\* An enqueued turn waits behind the others.
LEMMA WaitingAfterEnqueue ==
  ASSUME IInv, NEW t \in Tasks, NEW th \in Threads, EnqueueTurn(t, th)
  PROVE  Waiting([queue EXCEPT ![th] = Append(@, t)], [pc EXCEPT ![t] = "queued"], on')
<1> DEFINE p == [pc EXCEPT ![t] = "queued"]
           q == [queue EXCEPT ![th] = Append(@, t)]
<1>a. pc[t] = "created" /\ on' = [on EXCEPT ![t] = th]
  BY DEF EnqueueTurn
<1> SUFFICES ASSUME NEW u \in Threads, NEW i \in 1..Len(q[u])
             PROVE  /\ p[q[u][i]] = "queued"
                    /\ on'[q[u][i]] = u
                    /\ \A j \in 1..Len(q[u]) : q[u][i] = q[u][j] => i = j
  BY DEF Waiting
<1>1. \A w \in Threads : \A k \in 1..Len(queue[w]) :
        queue[w][k] \in Tasks \ {t} /\ on[queue[w][k]] = w /\ pc[queue[w][k]] = "queued"
  BY <1>a DEF IInv, TypeOK, Waiting
<1>2. CASE u = th
  <2>1. /\ Len(queue[th]) \in Nat /\ Len(q[u]) = Len(queue[th]) + 1
        /\ q[u][Len(queue[th]) + 1] = t
        /\ \A k \in 1..Len(queue[th]) : q[u][k] = queue[th][k]
    BY <1>2 DEF IInv, TypeOK
  <2>2. \A j \in 1..Len(q[u]) : q[u][i] = q[u][j] => i = j
    BY <1>1, <2>1 DEF IInv, Waiting
  <2>3. CASE i = Len(queue[th]) + 1
    BY <1>a, <1>2, <2>1, <2>2, <2>3 DEF IInv, TypeOK
  <2>4. CASE i \in 1..Len(queue[th])
    <3>1. q[u][i] = queue[th][i] /\ q[u][i] \in Tasks \ {t}
      BY <1>1, <2>1, <2>4
    <3>2. pc[q[u][i]] = "queued" /\ on[q[u][i]] = th
      BY <1>1, <2>4, <3>1
    <3>3. p[q[u][i]] = "queued" /\ on'[q[u][i]] = th
      BY <1>a, <3>1, <3>2 DEF IInv, TypeOK
    <3>4. QED
      BY <1>2, <2>2, <3>3
  <2>5. QED
    BY <2>1, <2>3, <2>4
<1>3. CASE u # th
  <2>1. q[u] = queue[u]
    BY <1>3 DEF IInv, TypeOK
  <2>2. QED
    BY <1>a, <1>1, <2>1 DEF IInv, TypeOK, Waiting
<1>4. QED
  BY <1>2, <1>3

LEMMA EnqueueStep ==
  ASSUME IInv, NEW t \in Tasks, NEW th \in Threads, EnqueueTurn(t, th)
  PROVE  IInv'
<1> DEFINE p == [pc EXCEPT ![t] = "queued"]
           q == [queue EXCEPT ![th] = Append(@, t)]
<1>1. /\ pc[t] = "created" /\ on' = [on EXCEPT ![t] = th]
      /\ asked' \in [Threads -> Seq(Tasks)]
      /\ UNCHANGED <<status, result, history, clears>>
  BY DEF EnqueueTurn, IInv, TypeOK
<1>2. Served(th, q, running, p, queue', running', pc')
  BY DEF EnqueueTurn, ProcessNext, Served
<1>3. q \in [Threads -> Seq(Tasks)] /\ p \in [Tasks -> Pcs] /\ running \in SUBSET Threads
  BY DEF IInv, TypeOK, Pcs
<1>4. Waiting(q, p, on')
  BY WaitingAfterEnqueue
<1>5. /\ queue' \in [Threads -> Seq(Tasks)] /\ running' \in SUBSET Threads
      /\ pc' \in [Tasks -> Pcs]
      /\ Waiting(queue', pc', on')
      /\ \/ pc' = p /\ running' = running
         \/ \E h \in Tasks : /\ th \notin running /\ running' = running \cup {th}
                             /\ p[h] = "queued" /\ on'[h] = th
                             /\ pc'[h] = "begin" /\ \A u \in Tasks \ {h} : pc'[u] = p[u]
  <2> HIDE DEF p, q
  <2>1. /\ queue' \in [Threads -> Seq(Tasks)] /\ running' \in SUBSET Threads
        /\ pc' \in [Tasks -> Pcs]
        /\ Waiting(queue', pc', on')
        /\ NoneOrNext(th, running, p, on', running', pc')
    BY <1>2, <1>3, <1>4, Serves
  <2>2. QED
    BY <2>1 DEF NoneOrNext
<1>6. TypeOK'
  BY <1>1, <1>5 DEF IInv, TypeOK, Pcs
<1>7. Waiting(queue, pc, on)'
  BY <1>5 DEF Waiting
<1>8. Unassigned'
  BY <1>1, <1>5 DEF IInv, TypeOK, Unassigned
<1>9. (\A u \in Tasks : RowOf(u))'
  BY <1>1, <1>5 DEF IInv, TypeOK, RowOf, Outcomes
<1>10. Bounded'
  <2> SUFFICES ASSUME NEW u \in Threads
               PROVE  Cardinality(InFlight(u)') + Room(u)' <= 1 + clears'
    BY DEF Bounded, Room
  <2>1. CASE pc' = p /\ running' = running
    <3>1. InFlight(u)' \in SUBSET InFlight(u)
      BY <1>1, <2>1 DEF InFlight, IInv, TypeOK, UnderWay
    <3>2. QED
      BY <1>1, <2>1, <3>1, NoMoreTurns
  <2>2. ASSUME NEW h \in Tasks, th \notin running, running' = running \cup {th},
               on'[h] = th, \A v \in Tasks \ {h} : pc'[v] = p[v]
        PROVE  Cardinality(InFlight(u)') + Room(u)' <= 1 + clears'
    <3>1. CASE u # th
      <4>1. InFlight(u)' \in SUBSET InFlight(u)
        BY <1>1, <2>2, <3>1 DEF InFlight, IInv, TypeOK, UnderWay
      <4>2. QED
        BY <1>1, <2>2, <4>1, NoMoreTurns
    <3>2. CASE u = th
      <4>1. InFlight(u)' \in SUBSET (InFlight(u) \cup {h})
        BY <1>1, <2>2 DEF InFlight, IInv, TypeOK, UnderWay
      <4>2. Cardinality(InFlight(u)') <= Cardinality(InFlight(u)) + 1
        BY <4>1, InFlightFinite, AtMostOneMore
      <4>3. Cardinality(InFlight(u)') \in Nat /\ Cardinality(InFlight(u)) \in Nat
        BY <4>1, InFlightFinite, FS_AddElement, FS_Subset, FS_CardinalityType
      <4>4. Room(u) = 1 /\ Room(u)' = 0
        BY <2>2, <3>2 DEF Room
      <4>5. QED
        BY <1>1, <4>2, <4>3, <4>4 DEF IInv, TypeOK, Bounded
    <3>3. QED
      BY <3>1, <3>2
  <2>3. QED
    BY <1>5, <2>1, <2>2
<1>11. QED
  BY <1>6, <1>7, <1>8, <1>9, <1>10 DEF IInv

LEMMA ClearStep == IInv /\ Clear => IInv'
<1> SUFFICES ASSUME IInv, Clear
             PROVE  IInv'
  OBVIOUS
<1>1. TypeOK' /\ Waiting(queue, pc, on)' /\ Unassigned'
  BY DEF IInv, TypeOK, Clear, Waiting, Unassigned
<1>2. (\A t \in Tasks : RowOf(t))'
  BY DEF IInv, TypeOK, Clear, RowOf
<1>3. ASSUME NEW th \in Threads
      PROVE  Cardinality(InFlight(th)') + Room(th)' <= 1 + clears'
  <2>1. InFlight(th)' = InFlight(th)
    BY DEF Clear, InFlight, UnderWay, IInv, TypeOK
  <2>2. Cardinality(InFlight(th)) + Room(th) <= 1 + clears /\ Room(th) \in 0..1
    BY <1>3 DEF IInv, Bounded, Room
  <2>3. QED
    BY <2>1, <2>2, InFlightFinite DEF Clear, IInv, TypeOK, Room
<1>4. QED
  BY <1>1, <1>2, <1>3 DEF IInv, Bounded, Room

LEMMA RestartStep == IInv /\ Restart => IInv'
<1> SUFFICES ASSUME IInv, Restart
             PROVE  IInv'
  OBVIOUS
<1>1. TypeOK' /\ Waiting(queue, pc, on)' /\ Unassigned'
  BY DEF IInv, TypeOK, Restart, Waiting, Unassigned
<1>2. (\A t \in Tasks : RowOf(t))'
  BY DEF IInv, TypeOK, Restart, RowOf, Outcomes
<1>3. ASSUME NEW th \in Threads
      PROVE  Cardinality(InFlight(th)') + Room(th)' <= 1 + clears'
  <2>1. InFlight(th)' = {}
    BY DEF Restart, InFlight, UnderWay
  <2>2. QED
    BY <2>1, FS_EmptySet DEF Restart, Room
<1>4. QED
  BY <1>1, <1>2, <1>3 DEF IInv, Bounded, Room

\* A cancellation writes the row and nothing else.
LEMMA CancelStep ==
  ASSUME IInv, NEW t \in Tasks, CancelTask(t)
  PROVE  IInv'
<1>1. TypeOK' /\ Waiting(queue, pc, on)' /\ Unassigned'
  BY DEF IInv, TypeOK, CancelTask, Waiting, Unassigned, turns
<1>2. (\A u \in Tasks : RowOf(u))'
  BY DEF IInv, TypeOK, CancelTask, RowOf
<1>3. Bounded'
  BY DEF IInv, CancelTask, Bounded, InFlight, Room, turns
<1>4. QED
  BY <1>1, <1>2, <1>3 DEF IInv

LEMMA CreateStep ==
  ASSUME IInv, NEW t \in Tasks, CreateTask(t)
  PROVE  IInv'
<1>1. TypeOK' /\ Waiting(queue, pc, on)' /\ Unassigned'
  BY DEF IInv, TypeOK, CreateTask, Waiting, Unassigned, turns
<1>2. (\A u \in Tasks : RowOf(u))'
  BY DEF IInv, TypeOK, CreateTask, RowOf
<1>3. ASSUME NEW th \in Threads
      PROVE  Cardinality(InFlight(th)') + Room(th)' <= 1 + clears'
  <2>1. InFlight(th)' \in SUBSET InFlight(th)
    BY DEF CreateTask, InFlight, UnderWay, IInv, TypeOK, turns
  <2>2. QED
    BY <2>1, NoMoreTurns DEF CreateTask, turns
<1>4. QED
  BY <1>1, <1>2, <1>3 DEF IInv, Bounded, Room

LEMMA RunStep ==
  ASSUME IInv, NEW t \in Tasks, Run(t)
  PROVE  IInv'
<1> USE DEF Pcs, UnderWay, Outcomes
<1>1. CASE Begin(t)
  <2>1. CASE End(t, "THROWN")
    BY <1>1, <2>1, EndStep DEF Begin
  <2>2. CASE ~End(t, "THROWN")
    <3>1. /\ pc[t] = "begin" /\ status' = [status EXCEPT ![t] = "RUNNING"]
          /\ pc' = [pc EXCEPT ![t] = "work"] /\ UNCHANGED <<on, result, turns>>
      BY <1>1, <2>2 DEF Begin
    <3>2. RowOf(t)'
      BY <3>1 DEF RowOf, IInv, TypeOK
    <3>3. QED
      BY <3>1, <3>2, LocalStep DEF IInv, TypeOK
  <2>3. QED
    BY <2>1, <2>2
<1>2. CASE Work(t)
  <2>1. PICK n \in {"complete", "fail"} : pc' = [pc EXCEPT ![t] = n]
    BY <1>2 DEF Work
  <2>2. pc[t] = "work" /\ UNCHANGED <<status, on, result, turns>>
    BY <1>2 DEF Work
  <2>3. RowOf(t)'
    BY <2>1, <2>2 DEF RowOf, IInv, TypeOK
  <2>4. QED
    BY <2>1, <2>2, <2>3, LocalStep DEF IInv, TypeOK
<1>3. CASE Complete(t)
  <2>1. PICK n \in {"return", "fail"} : pc' = [pc EXCEPT ![t] = n]
    BY <1>3 DEF Complete
  <2>2. pc[t] = "complete" /\ UNCHANGED <<on, turns>>
    BY <1>3 DEF Complete
  <2>3. RowOf(t)'
    BY <1>3 DEF Complete, RowOf, IInv, TypeOK
  <2>4. /\ status' \in [Tasks -> {"NONE", "PENDING", "RUNNING", "CANCELLED"} \cup Outcomes]
        /\ result' \in [Tasks -> {"NONE", "THROWN"} \cup Outcomes]
        /\ \A u \in Tasks \ {t} : status'[u] = status[u] /\ result'[u] = result[u]
    BY <1>3 DEF Complete, IInv, TypeOK
  <2>5. QED
    BY <2>1, <2>2, <2>3, <2>4, LocalStep
<1>4. CASE Fail(t)
  <2>1. CASE End(t, "THROWN")
    BY <1>4, <2>1, EndStep DEF Fail
  <2>2. CASE ~End(t, "THROWN")
    <3>1. /\ pc[t] = "fail" /\ status' = [status EXCEPT ![t] = "FAILED"]
          /\ result' = [result EXCEPT ![t] = "FAILED"]
          /\ pc' = [pc EXCEPT ![t] = "return"] /\ UNCHANGED <<on, turns>>
      BY <1>4, <2>2 DEF Fail
    <3>2. RowOf(t)'
      BY <3>1 DEF RowOf, IInv, TypeOK
    <3>3. QED
      BY <3>1, <3>2, LocalStep DEF IInv, TypeOK
  <2>3. QED
    BY <2>1, <2>2
<1>5. CASE Return(t)
  <2>1. /\ pc[t] = "return" /\ End(t, result[t]) /\ result[t] \in Outcomes
        /\ status[t] \in {result[t], "CANCELLED"}
    BY <1>5 DEF Return, IInv, RowOf
  <2>2. QED
    BY <2>1, EndStep
<1>6. QED
  BY <1>1, <1>2, <1>3, <1>4, <1>5 DEF Run

\* The create route: a task refused or run without a queue has no thread.
LEMMA RouteStep ==
  ASSUME IInv, NEW t \in Tasks, RefuseTask(t) \/ RunTask(t)
  PROVE  IInv'
<1>1. pc[t] = "created" /\ on[t] = None
  BY DEF RefuseTask, RunTask, IInv, Unassigned
<1>2. PICK n \in {"refused", "begin"} : pc' = [pc EXCEPT ![t] = n]
  BY DEF RefuseTask, RunTask
<1>3. RowOf(t)'
  BY <1>1 DEF RefuseTask, RunTask, RowOf, IInv, TypeOK
<1>4. /\ status' \in [Tasks -> {"NONE", "PENDING", "RUNNING", "CANCELLED"} \cup Outcomes]
      /\ result' \in [Tasks -> {"NONE", "THROWN"} \cup Outcomes]
      /\ \A u \in Tasks \ {t} : status'[u] = status[u] /\ result'[u] = result[u]
      /\ UNCHANGED <<on, turns>>
  BY DEF RefuseTask, RunTask, IInv, TypeOK, Outcomes
<1>5. QED
  BY <1>1, <1>2, <1>3, <1>4, LocalStep DEF Pcs, UnderWay

LEMMA Inductive == IInv /\ [Next]_vars => IInv'
<1> SUFFICES ASSUME IInv, [Next]_vars
             PROVE  IInv'
  OBVIOUS
<1>1. ASSUME NEW t \in Tasks, Run(t) \/ CreateTask(t) \/ CancelTask(t)
      PROVE  IInv'
  BY <1>1, RunStep, CreateStep, CancelStep
<1>2. ASSUME NEW t \in Tasks, RefuseTask(t) \/ RunTask(t)
      PROVE  IInv'
  BY <1>2, RouteStep
<1>3. ASSUME NEW t \in Tasks, NEW th \in Threads, EnqueueTurn(t, th)
      PROVE  IInv'
  BY <1>3, EnqueueStep
<1>4. CASE Clear \/ Restart
  BY <1>4, ClearStep, RestartStep
<1>5. CASE UNCHANGED vars
  BY <1>5 DEF vars, turns, IInv, TypeOK, Waiting, Unassigned, RowOf, Bounded, InFlight, Room
<1>6. QED
  BY <1>1, <1>2, <1>3, <1>4, <1>5 DEF Next

-----------------------------------------------------------------------------
\* Every state has its type.
THEOREM TurnsTypeCorrect == Spec => []TypeOK
<1>1. IInv => TypeOK
  BY DEF IInv
<1>2. QED
  BY <1>1, InitIInv, Inductive, PTL DEF Spec

\* At most one turn of a thread is under way, and one more for each clear(), for any
\* number of threads and turns and however the runs end.
THEOREM TurnsOverlapBound == Spec => []OverlapIsBounded
<1>1. IInv => OverlapIsBounded
  <2> SUFFICES ASSUME IInv, NEW th \in Threads
               PROVE  Cardinality(InFlight(th)) <= 1 + clears
    BY DEF OverlapIsBounded
  <2>1. Cardinality(InFlight(th)) + Room(th) <= 1 + clears /\ Room(th) \in {0, 1}
    BY DEF IInv, Bounded, Room
  <2>2. Cardinality(InFlight(th)) \in Nat /\ clears \in Nat
    BY InFlightFinite DEF IInv, TypeOK
  <2>3. QED
    BY <2>1, <2>2
<1>2. QED
  BY <1>1, InitIInv, Inductive, PTL DEF Spec

\* A caller is told what the row says, unless the task was cancelled.
THEOREM RowsMatch == Spec => []RowMatchesResult
<1>1. IInv => RowMatchesResult
  BY DEF IInv, RowOf, RowMatchesResult
<1>2. QED
  BY <1>1, InitIInv, Inductive, PTL DEF Spec

\* A row stays RUNNING without a run only after a restart or a failure that could
\* not be written.
THEOREM RunsAreRunning == Spec => []RunningHasRun
<1>1. IInv => RunningHasRun
  BY DEF IInv, TypeOK, RowOf, RunningHasRun, UnderWay, Outcomes
<1>2. QED
  BY <1>1, InitIInv, Inductive, PTL DEF Spec

-----------------------------------------------------------------------------
(* Induction over the natural numbers, from the well-foundedness of < *)

LEMMA LeastNat ==
  ASSUME NEW T \in SUBSET Nat, T # {}
  PROVE  \E x \in T : \A y \in T : x <= y
<1>1. PICK x \in T : \A y \in T : ~(<<y, x>> \in OpToRel(<, Nat))
  BY NatLessThanWellFounded, WFMin
<1>2. \A y \in T : <<y, x>> \in OpToRel(<, Nat) <=> y < x
  BY Zenon DEF OpToRel
<1>3. \A y \in T : ~(y < x)
  BY <1>1, <1>2, Zenon
<1>4. QED
  BY <1>3

LEMMA Induction ==
  ASSUME NEW P \in SUBSET Nat, 0 \in P, \A n \in P : n + 1 \in P
  PROVE  P = Nat
<1> SUFFICES ASSUME Nat \ P # {} PROVE FALSE
  OBVIOUS
<1>1. PICK x \in Nat \ P : \A y \in Nat \ P : x <= y
  BY LeastNat
<1>2. x - 1 \in P /\ x # 0
  BY <1>1
<1>3. QED
  BY <1>1, <1>2

-----------------------------------------------------------------------------
(* What is kept of a sequence of turns *)

\* One step of Kept, and its values up to the n-th turn.
KeepTurn(s, T, i, k) == IF s[i] \in T THEN Append(k, s[i]) ELSE k

IsKept(f, s, T, n) ==
  f = [i \in 0 .. n |-> IF i = 0 THEN <<>> ELSE KeepTurn(s, T, i, f[i - 1])]

IsKeptAt(f, s, T, n) ==
  f[0] = <<>> /\ \A i \in 1 .. n : f[i] = KeepTurn(s, T, i, f[i - 1])

LEMMA KeptExists ==
  ASSUME NEW s, NEW T
  PROVE  \A n \in Nat : \E f : IsKept(f, s, T, n)
<1> DEFINE P == {n \in Nat : \E f : IsKept(f, s, T, n)}
<1>1. 0 \in P
  <2>1. IsKept([i \in 0 .. 0 |-> <<>>], s, T, 0)
    BY DEF IsKept
  <2>2. QED
    BY <2>1
<1>2. ASSUME NEW n \in P
      PROVE  n + 1 \in P
  <2>1. PICK f : IsKept(f, s, T, n)
    OBVIOUS
  <2> DEFINE g == [i \in 0 .. n + 1 |-> IF i = n + 1 THEN KeepTurn(s, T, n + 1, f[n]) ELSE f[i]]
  <2>2. \A i \in 0 .. n : g[i] = f[i]
    OBVIOUS
  <2>3. ASSUME NEW i \in 0 .. n + 1
        PROVE  g[i] = IF i = 0 THEN <<>> ELSE KeepTurn(s, T, i, g[i - 1])
    <3>1. CASE i = n + 1
      BY <2>2, <3>1
    <3>2. CASE i \in 0 .. n
      <4>1. i = 0 \/ i - 1 \in 0 .. n
        BY <3>2
      <4>2. QED
        BY <2>1, <2>2, <3>2, <4>1 DEF IsKept
    <3>3. QED
      BY <3>1, <3>2
  <2>4. IsKept(g, s, T, n + 1)
    BY <2>3 DEF IsKept
  <2>5. QED
    BY <2>4
<1>3. P = Nat
  BY <1>1, <1>2, Induction
<1>4. QED
  BY <1>3

LEMMA KeptUnfolds ==
  ASSUME NEW s, NEW T, Len(s) \in Nat
  PROVE  \E f : IsKeptAt(f, s, T, Len(s)) /\ Kept(s, T) = f[Len(s)]
<1> DEFINE f == CHOOSE f : IsKept(f, s, T, Len(s))
<1>1. IsKept(f, s, T, Len(s))
  BY KeptExists
<1>2. Kept(s, T) = f[Len(s)]
  BY DEF Kept, IsKept, KeepTurn
<1> HIDE DEF f
<1>3. f[0] = <<>>
  BY <1>1 DEF IsKept
<1>4. ASSUME NEW i \in 1 .. Len(s)
      PROVE  f[i] = KeepTurn(s, T, i, f[i - 1])
  BY <1>1 DEF IsKept
<1>5. IsKeptAt(f, s, T, Len(s))
  BY <1>3, <1>4 DEF IsKeptAt
<1>6. QED
  BY <1>2, <1>5

LEMMA KeptOfEmpty == \A T : Kept(<<>>, T) = <<>>
<1>1. SUFFICES ASSUME NEW T
               PROVE  Kept(<<>>, T) = <<>>
  OBVIOUS
<1>2. PICK f : IsKeptAt(f, <<>>, T, 0) /\ Kept(<<>>, T) = f[0]
  BY KeptUnfolds
<1>3. QED
  BY <1>2 DEF IsKeptAt

\* Two values of Kept agree as long as the turns and what is kept of them do.
LEMMA KeptAgree ==
  ASSUME NEW n \in Nat, NEW f, NEW g, NEW s, NEW e, NEW T, NEW U,
         IsKeptAt(f, s, T, n), IsKeptAt(g, e, U, n),
         \A i \in 1 .. n : e[i] = s[i] /\ (s[i] \in T <=> s[i] \in U)
  PROVE  f[n] = g[n]
<1> DEFINE P == {i \in Nat : i <= n => f[i] = g[i]}
<1>1. 0 \in P
  BY DEF IsKeptAt
<1>2. ASSUME NEW i \in P
      PROVE  i + 1 \in P
  <2>1. CASE i + 1 <= n
    <3>1. f[i] = g[i] /\ i + 1 \in 1 .. n /\ (i + 1) - 1 = i
      BY <2>1
    <3>2. e[i + 1] = s[i + 1] /\ (s[i + 1] \in T <=> s[i + 1] \in U)
      BY <3>1
    <3>3. QED
      BY <3>1, <3>2 DEF IsKeptAt, KeepTurn
  <2>2. CASE ~(i + 1 <= n)
    BY <2>2
  <2>3. QED
    BY <2>1, <2>2
<1>3. P = Nat
  BY <1>1, <1>2, Induction
<1>4. n \in P
  BY <1>3
<1>5. QED
  BY <1>4

LEMMA KeptOfSame ==
  ASSUME NEW S, NEW s \in Seq(S), NEW T, NEW U, \A i \in 1 .. Len(s) : s[i] \in T <=> s[i] \in U
  PROVE  Kept(s, T) = Kept(s, U)
<1>1. Len(s) \in Nat
  OBVIOUS
<1>2. PICK f : IsKeptAt(f, s, T, Len(s)) /\ Kept(s, T) = f[Len(s)]
  BY <1>1, KeptUnfolds
<1>3. PICK g : IsKeptAt(g, s, U, Len(s)) /\ Kept(s, U) = g[Len(s)]
  BY <1>1, KeptUnfolds
<1>4. f[Len(s)] = g[Len(s)]
  BY <1>1, <1>2, <1>3, KeptAgree, Zenon
<1>5. QED
  BY <1>2, <1>3, <1>4

LEMMA KeptOfAppend ==
  ASSUME NEW S, NEW s \in Seq(S), NEW x \in S, NEW T
  PROVE  Kept(Append(s, x), T) = IF x \in T THEN Append(Kept(s, T), x) ELSE Kept(s, T)
<1> DEFINE n == Len(s)
           e == Append(s, x)
<1>1. n \in Nat /\ Len(e) = n + 1 /\ e[n + 1] = x /\ \A i \in 1 .. n : e[i] = s[i]
  OBVIOUS
<1> HIDE DEF e
<1>2. PICK f : IsKeptAt(f, s, T, n) /\ Kept(s, T) = f[n]
  BY <1>1, KeptUnfolds
<1>3. PICK g : IsKeptAt(g, e, T, n + 1) /\ Kept(e, T) = g[n + 1]
  BY <1>1, KeptUnfolds
<1>4. IsKeptAt(g, e, T, n)
  BY <1>1, <1>3 DEF IsKeptAt
<1>5. f[n] = g[n]
  BY <1>1, <1>2, <1>4, KeptAgree
<1>6. g[n + 1] = KeepTurn(e, T, n + 1, f[n])
  <2>1. n + 1 \in 1 .. n + 1 /\ (n + 1) - 1 = n
    BY <1>1
  <2>2. QED
    BY <1>3, <1>5, <2>1 DEF IsKeptAt
<1>7. QED
  BY <1>1, <1>2, <1>3, <1>6 DEF KeepTurn, e

LEMMA KeptOfConcat ==
  ASSUME NEW S, NEW s \in Seq(S), NEW q \in Seq(S), NEW T, \A i \in 1 .. Len(q) : q[i] \notin T
  PROVE  Kept(s \o q, T) = Kept(s, T)
<1>0. Len(q) \in Nat
  OBVIOUS
<1> DEFINE P == {n \in Nat : n <= Len(q) => Kept(s \o SubSeq(q, 1, n), T) = Kept(s, T)}
<1>1. 0 \in P
  <2>1. SubSeq(q, 1, 0) = <<>>
    BY SubSeqEmpty
  <2>2. s \o SubSeq(q, 1, 0) = s
    BY <2>1, ConcatEmptySeq
  <2>3. QED
    BY <2>2
<1>2. ASSUME NEW n \in P
      PROVE  n + 1 \in P
  <2>1. SUFFICES ASSUME n + 1 <= Len(q)
                 PROVE  Kept(s \o SubSeq(q, 1, n + 1), T) = Kept(s, T)
    OBVIOUS
  <2>2. /\ n \in Nat /\ n + 1 \in 1 .. Len(q) /\ 1 \in 1 .. Len(q)
        /\ Kept(s \o SubSeq(q, 1, n), T) = Kept(s, T)
    BY <1>0, <2>1
  <2>3. PICK k \in Seq(S), x \in S : k = SubSeq(q, 1, n) /\ x = q[n + 1]
    <3>1. q[n + 1] \in S
      BY <2>2
    <3>2. SubSeq(q, 1, n) \in Seq(S)
      <4>1. \A i \in 1 .. n : q[i] \in S
        BY <1>0, <2>1
      <4>2. n \in Int /\ 1 \in Int
        BY <2>2
      <4>3. QED
        BY <4>1, <4>2, SubSeqProperties
    <3>3. QED
      BY <3>1, <3>2
  <2>4. SubSeq(q, 1, n + 1) = Append(k, x)
    BY <1>0, <2>1, <2>2, <2>3
  <2>5. s \o Append(k, x) = Append(s \o k, x) /\ s \o k \in Seq(S)
    OBVIOUS
  <2>6. x \notin T
    BY <2>2, <2>3
  <2>7. Kept(Append(s \o k, x), T) = Kept(s \o k, T)
    BY <2>5, <2>6, KeptOfAppend
  <2>8. QED
    BY <2>2, <2>3, <2>4, <2>5, <2>7
<1>3. P = Nat
  BY <1>1, <1>2, Induction
<1>4. Kept(s \o SubSeq(q, 1, Len(q)), T) = Kept(s, T)
  <2>1. Len(q) \in P
    BY <1>0, <1>3
  <2>2. QED
    BY <1>0, <2>1
<1>5. SubSeq(q, 1, Len(q)) = q
  BY SubSeqFull
<1>6. QED
  BY <1>4, <1>5

-----------------------------------------------------------------------------
(* The log of a thread *)

\* The turns asked of thread th are those that began, b, and those that wait, q, in
\* this order; only the last that began may still run, and the log has the others.
Logged(th, a, q, h, r, p, o, res) ==
  \E b \in Seq(Tasks) :
    /\ a = b \o q
    /\ h = Kept(b, {t \in Tasks : p[t] = "done" /\ res[t] \in Outcomes})
    /\ \A i \in 1 .. Len(b) :
         /\ o[b[i]] = th
         /\ p[b[i]] = "done" \/ (i = Len(b) /\ th \in r /\ p[b[i]] \in UnderWay)
    /\ \A t \in Tasks : o[t] = th /\ p[t] \in UnderWay => \E i \in 1 .. Len(b) : t = b[i]

Log(th) == Logged(th, asked[th], queue[th], history[th], running, pc, on, result)

\* The waiting turn that comes next begins.
LEMMA NextIsLogged ==
  ASSUME NEW th \in Threads, NEW a, NEW q \in Seq(Tasks), NEW h, NEW r,
         NEW p \in [Tasks -> Pcs], NEW o, NEW res, Logged(th, a, q, h, r, p, o, res),
         th \notin r, q # <<>>, p[Head(q)] = "queued", o[Head(q)] = th
  PROVE  Logged(th, a, Tail(q), h, r \cup {th}, [p EXCEPT ![Head(q)] = "begin"], o, res)
<1> DEFINE x == Head(q)
           p2 == [p EXCEPT ![x] = "begin"]
           Done(pp) == {t \in Tasks : pp[t] = "done" /\ res[t] \in Outcomes}
<1>1. PICK b \in Seq(Tasks) :
        /\ a = b \o q
        /\ h = Kept(b, Done(p))
        /\ \A i \in 1 .. Len(b) : o[b[i]] = th /\ p[b[i]] = "done"
        /\ \A t \in Tasks : o[t] = th /\ p[t] \in UnderWay => \E i \in 1 .. Len(b) : t = b[i]
  BY DEF Logged
<1>2. x \in Tasks /\ Tail(q) \in Seq(Tasks) /\ q = << x >> \o Tail(q)
  OBVIOUS
<1>3. p2 \in [Tasks -> Pcs] /\ p2[x] = "begin" /\ \A t \in Tasks \ {x} : p2[t] = p[t]
  BY <1>2 DEF Pcs, UnderWay
<1>4. Done(p2) = Done(p) /\ x \notin Done(p)
  BY <1>2, <1>3
<1> HIDE DEF x, p2, Done
<1> DEFINE c == Append(b, x)
<1>5. /\ c \in Seq(Tasks) /\ Len(c) = Len(b) + 1 /\ c[Len(b) + 1] = x /\ Len(b) \in Nat
      /\ \A i \in 1 .. Len(b) : c[i] = b[i] /\ b[i] \in Tasks
  BY <1>2
<1>6. a = c \o Tail(q)
  <2>1. (b \o << x >>) \o Tail(q) = b \o (<< x >> \o Tail(q))
    BY <1>2, ConcatAssociative
  <2>2. c = b \o << x >>
    BY <1>2, AppendIsConcat
  <2>3. QED
    BY <1>1, <1>2, <2>1, <2>2
<1>7. Kept(c, Done(p)) = Kept(b, Done(p))
  BY <1>2, <1>4, KeptOfAppend
<1> HIDE DEF c
<1>8. ASSUME NEW i \in 1 .. Len(c)
      PROVE  /\ o[c[i]] = th
             /\ p2[c[i]] = "done" \/ (i = Len(c) /\ th \in r \cup {th} /\ p2[c[i]] \in UnderWay)
  <2>1. CASE i \in 1 .. Len(b)
    <3>1. c[i] \in Tasks /\ p[c[i]] = "done" /\ o[c[i]] = th
      BY <1>1, <1>5, <2>1
    <3>2. c[i] # x
      BY <3>1 DEF x
    <3>3. QED
      BY <1>3, <3>1, <3>2
  <2>2. CASE i = Len(b) + 1
    BY <1>3, <1>5, <2>2 DEF UnderWay, x
  <2>3. QED
    BY <1>5, <2>1, <2>2
<1>9. ASSUME NEW t \in Tasks, o[t] = th, p2[t] \in UnderWay
      PROVE  \E i \in 1 .. Len(c) : t = c[i]
  <2>1. CASE t = x
    BY <1>5, <2>1
  <2>2. CASE t # x
    <3>1. PICK i \in 1 .. Len(b) : t = b[i]
      BY <1>1, <1>3, <1>9, <2>2
    <3>2. QED
      BY <1>5, <3>1
  <2>3. QED
    BY <2>1, <2>2
<1>10. h = Kept(c, Done(p2))
  BY <1>1, <1>4, <1>7
<1>11. Logged(th, a, Tail(q), h, r \cup {th}, p2, o, res)
  BY <1>5, <1>6, <1>8, <1>9, <1>10 DEF Logged, Done
<1>12. QED
  BY <1>11 DEF p2, x

\* The run of a turn of the thread is over, and logged unless it threw.
LEMMA EndIsLogged ==
  ASSUME NEW th \in Threads, NEW a, NEW q, NEW h, NEW r,
         NEW p \in [Tasks -> Pcs], NEW o, NEW res \in [Tasks -> {"NONE", "THROWN"} \cup Outcomes],
         Logged(th, a, q, h, r, p, o, res),
         NEW t \in Tasks, o[t] = th, p[t] \in UnderWay, NEW e \in Outcomes \cup {"THROWN"}
  PROVE  Logged(th, a, q, IF e \in Outcomes THEN Append(h, t) ELSE h, r \ {th},
                [p EXCEPT ![t] = "done"], o, [res EXCEPT ![t] = e])
<1> DEFINE p2 == [p EXCEPT ![t] = "done"]
           res2 == [res EXCEPT ![t] = e]
           h2 == IF e \in Outcomes THEN Append(h, t) ELSE h
           Done(pp, rr) == {u \in Tasks : pp[u] = "done" /\ rr[u] \in Outcomes}
<1>1. PICK b \in Seq(Tasks) :
        /\ a = b \o q
        /\ h = Kept(b, Done(p, res))
        /\ \A i \in 1 .. Len(b) :
             /\ o[b[i]] = th
             /\ p[b[i]] = "done" \/ (i = Len(b) /\ th \in r /\ p[b[i]] \in UnderWay)
        /\ \A u \in Tasks : o[u] = th /\ p[u] \in UnderWay => \E i \in 1 .. Len(b) : u = b[i]
  BY DEF Logged
<1>2. /\ p2[t] = "done" /\ res2[t] = e
      /\ \A u \in Tasks \ {t} : p2[u] = p[u] /\ res2[u] = res[u]
  OBVIOUS
<1>3. p[t] # "done"
  BY DEF UnderWay
<1> HIDE DEF p2, res2
<1>4. Len(b) \in Nat /\ b # <<>> /\ t = b[Len(b)]
  <2>1. PICK i \in 1 .. Len(b) : t = b[i]
    BY <1>1
  <2>2. i = Len(b)
    BY <1>1, <1>3, <2>1
  <2>3. QED
    BY <2>1, <2>2
<1>5. PICK f \in Seq(Tasks) : b = Append(f, t)
  <2>1. PICK f \in Seq(Tasks), u \in Tasks : b = Append(f, u)
    BY <1>4, SequenceEmptyOrAppend
  <2>2. QED
    BY <1>4, <2>1
<1>6. /\ Len(f) \in Nat /\ Len(b) = Len(f) + 1
      /\ \A i \in 1 .. Len(f) : b[i] = f[i] /\ f[i] \in Tasks /\ i # Len(b) /\ i \in 1 .. Len(b)
  BY <1>5
<1>7. \A i \in 1 .. Len(f) : p[f[i]] = "done" /\ f[i] \in Tasks \ {t}
  BY <1>1, <1>3, <1>6
<1>8. Kept(f, Done(p2, res2)) = Kept(f, Done(p, res))
  <2>1. \A i \in 1 .. Len(f) : f[i] \in Done(p2, res2) <=> f[i] \in Done(p, res)
    BY <1>2, <1>7
  <2> HIDE DEF Done
  <2>2. QED
    BY <2>1, KeptOfSame
<1>9. t \notin Done(p, res) /\ (t \in Done(p2, res2) <=> e \in Outcomes)
  BY <1>2, <1>3
<1>10. h2 = Kept(b, Done(p2, res2))
  <2> HIDE DEF Done
  <2>1. Kept(b, Done(p, res)) = Kept(f, Done(p, res))
    BY <1>5, <1>9, KeptOfAppend
  <2>2. Kept(b, Done(p2, res2)) = IF t \in Done(p2, res2) THEN Append(Kept(f, Done(p2, res2)), t)
                                 ELSE Kept(f, Done(p2, res2))
    BY <1>5, KeptOfAppend
  <2>3. QED
    BY <1>1, <1>8, <1>9, <2>1, <2>2
<1>11. ASSUME NEW i \in 1 .. Len(b)
       PROVE  o[b[i]] = th /\ p2[b[i]] = "done"
  <2>1. CASE i \in 1 .. Len(f)
    BY <1>1, <1>2, <1>6, <1>7, <2>1
  <2>2. CASE i = Len(b)
    BY <1>1, <1>2, <1>4, <2>2
  <2>3. QED
    BY <1>6, <2>1, <2>2
<1>12. ASSUME NEW u \in Tasks, o[u] = th, p2[u] \in UnderWay
       PROVE  \E i \in 1 .. Len(b) : u = b[i]
  BY <1>1, <1>2, <1>12 DEF UnderWay
<1>13. Logged(th, a, q, h2, r \ {th}, p2, o, res2)
  BY <1>1, <1>10, <1>11, <1>12 DEF Logged, Done
<1>14. QED
  BY <1>13 DEF p2, res2

\* A turn is enqueued.
LEMMA EnqueueIsLogged ==
  ASSUME NEW th \in Threads, NEW a, NEW q \in Seq(Tasks), NEW h, NEW r,
         NEW p \in [Tasks -> Pcs], NEW o \in [Tasks -> Threads \cup {None}], NEW res,
         Logged(th, a, q, h, r, p, o, res), NEW t \in Tasks, p[t] = "created"
  PROVE  Logged(th, Append(a, t), Append(q, t), h, r, [p EXCEPT ![t] = "queued"],
                [o EXCEPT ![t] = th], res)
<1> DEFINE p2 == [p EXCEPT ![t] = "queued"]
           o2 == [o EXCEPT ![t] = th]
           Done(pp) == {u \in Tasks : pp[u] = "done" /\ res[u] \in Outcomes}
<1>1. PICK b \in Seq(Tasks) :
        /\ a = b \o q
        /\ h = Kept(b, Done(p))
        /\ \A i \in 1 .. Len(b) :
             /\ o[b[i]] = th
             /\ p[b[i]] = "done" \/ (i = Len(b) /\ th \in r /\ p[b[i]] \in UnderWay)
        /\ \A u \in Tasks : o[u] = th /\ p[u] \in UnderWay => \E i \in 1 .. Len(b) : u = b[i]
  BY DEF Logged
<1>2. /\ p2[t] = "queued" /\ o2[t] = th
      /\ \A u \in Tasks \ {t} : p2[u] = p[u] /\ o2[u] = o[u]
  OBVIOUS
<1>3. Done(p2) = Done(p)
  BY <1>2
<1> HIDE DEF p2, o2
<1>4. Append(a, t) = b \o Append(q, t)
  <2>1. Append(b \o q, t) = b \o Append(q, t)
    OBVIOUS
  <2>2. QED
    BY <1>1, <2>1
<1>5. ASSUME NEW i \in 1 .. Len(b)
      PROVE  /\ o2[b[i]] = th
             /\ p2[b[i]] = "done" \/ (i = Len(b) /\ th \in r /\ p2[b[i]] \in UnderWay)
  <2>1. PICK u \in Tasks : u = b[i]
    OBVIOUS
  <2>2. o[u] = th /\ (p[u] = "done" \/ (i = Len(b) /\ th \in r /\ p[u] \in UnderWay))
    BY <1>1, <2>1
  <2>3. u # t
    BY <2>2 DEF UnderWay
  <2>4. QED
    BY <1>2, <2>1, <2>2, <2>3
<1>6. ASSUME NEW u \in Tasks, o2[u] = th, p2[u] \in UnderWay
      PROVE  \E i \in 1 .. Len(b) : u = b[i]
  BY <1>1, <1>2, <1>6 DEF UnderWay
<1>7. h = Kept(b, Done(p2))
  BY <1>1, <1>3
<1>8. Logged(th, Append(a, t), Append(q, t), h, r, p2, o2, res)
  BY <1>4, <1>5, <1>6, <1>7 DEF Logged, Done
<1>9. QED
  BY <1>8 DEF p2, o2

\* A step that leaves the sequences of a thread and the turns that began there alone,
\* but for how far a run is.
LEMMA StaysLogged ==
  ASSUME NEW th \in Threads, NEW a, NEW q, NEW h, NEW r, NEW r2,
         NEW p \in [Tasks -> Pcs], NEW p2 \in [Tasks -> Pcs], NEW o, NEW o2, NEW res, NEW res2,
         Logged(th, a, q, h, r, p, o, res),
         th \in r => th \in r2,
         \A t \in Tasks : o[t] = th /\ p[t] \in UnderWay \cup {"done"} =>
           /\ o2[t] = th
           /\ p[t] = "done" => p2[t] = "done" /\ res2[t] = res[t]
           /\ p[t] \in UnderWay => p2[t] \in UnderWay,
         \A t \in Tasks : o2[t] = th /\ p2[t] \in UnderWay => o[t] = th /\ p[t] \in UnderWay
  PROVE  Logged(th, a, q, h, r2, p2, o2, res2)
<1> DEFINE Done(pp, rr) == {u \in Tasks : pp[u] = "done" /\ rr[u] \in Outcomes}
<1>1. PICK b \in Seq(Tasks) :
        /\ a = b \o q
        /\ h = Kept(b, Done(p, res))
        /\ \A i \in 1 .. Len(b) :
             /\ o[b[i]] = th
             /\ p[b[i]] = "done" \/ (i = Len(b) /\ th \in r /\ p[b[i]] \in UnderWay)
        /\ \A u \in Tasks : o[u] = th /\ p[u] \in UnderWay => \E i \in 1 .. Len(b) : u = b[i]
  BY DEF Logged
<1>2. ASSUME NEW i \in 1 .. Len(b)
      PROVE  /\ o2[b[i]] = th
             /\ p2[b[i]] = "done" \/ (i = Len(b) /\ th \in r2 /\ p2[b[i]] \in UnderWay)
             /\ b[i] \in Done(p, res) <=> b[i] \in Done(p2, res2)
  <2>1. PICK u \in Tasks : u = b[i]
    OBVIOUS
  <2>2. o[u] = th /\ (p[u] = "done" \/ (i = Len(b) /\ th \in r /\ p[u] \in UnderWay))
    BY <1>1, <2>1
  <2>3. CASE p[u] = "done"
    BY <2>1, <2>2, <2>3
  <2>4. CASE p[u] \in UnderWay
    <3>1. o2[u] = th /\ p2[u] \in UnderWay
      BY <2>2, <2>4
    <3>2. p[u] # "done" /\ p2[u] # "done"
      BY <2>4, <3>1 DEF UnderWay
    <3>3. QED
      BY <2>1, <2>2, <3>1, <3>2
  <2>5. QED
    BY <2>2, <2>3, <2>4
<1>3. h = Kept(b, Done(p2, res2))
  <2> HIDE DEF Done
  <2>1. QED
    BY <1>1, <1>2, KeptOfSame
<1>4. ASSUME NEW u \in Tasks, o2[u] = th, p2[u] \in UnderWay
      PROVE  \E i \in 1 .. Len(b) : u = b[i]
  BY <1>1, <1>4
<1>5. QED
  BY <1>1, <1>2, <1>3, <1>4 DEF Logged, Done

\* processNext serves the thread, or does nothing ...
LEMMA ServeIsLogged ==
  ASSUME NEW th \in Threads, NEW q \in [Threads -> Seq(Tasks)], NEW r \in SUBSET Threads,
         NEW p \in [Tasks -> Pcs], NEW o, NEW res, NEW a, NEW h, Waiting(q, p, o),
         NEW q2, NEW r2, NEW p2, Served(th, q, r, p, q2, r2, p2),
         Logged(th, a, q[th], h, r, p, o, res)
  PROVE  Logged(th, a, q2[th], h, r2, p2, o, res)
<1>1. CASE th \in r \/ q[th] = <<>>
  BY <1>1 DEF Served
<1>2. CASE th \notin r /\ q[th] # <<>>
  <2>1. q2[th] = Tail(q[th]) /\ r2 = r \cup {th} /\ p2 = [p EXCEPT ![Head(q[th])] = "begin"]
    BY <1>2 DEF Served
  <2>2. PICK s \in Seq(Tasks) : s = q[th]
    OBVIOUS
  <2>3. 1 \in 1 .. Len(s) /\ Head(s) = s[1]
    BY <1>2, <2>2
  <2>4. p[Head(s)] = "queued" /\ o[Head(s)] = th
    BY <2>2, <2>3 DEF Waiting
  <2>5. Logged(th, a, Tail(s), h, r \cup {th}, [p EXCEPT ![Head(s)] = "begin"], o, res)
    BY <1>2, <2>2, <2>4, NextIsLogged
  <2>6. QED
    BY <2>1, <2>2, <2>5
<1>3. QED
  BY <1>1, <1>2

\* ... and leaves the others alone.
LEMMA OthersStayLogged ==
  ASSUME NEW th \in Threads, NEW q \in [Threads -> Seq(Tasks)], NEW r \in SUBSET Threads,
         NEW p \in [Tasks -> Pcs], NEW o, NEW res, NEW a, NEW h, Waiting(q, p, o),
         NEW q2, NEW r2, NEW p2, Served(th, q, r, p, q2, r2, p2),
         NEW u \in Threads, u # th, Logged(u, a, q[u], h, r, p, o, res)
  PROVE  Logged(u, a, q2[u], h, r2, p2, o, res)
<1>1. /\ p2 \in [Tasks -> Pcs] /\ NoneOrNext(th, r, p, o, r2, p2)
  BY Serves
<1>2. q2[u] = q[u] /\ (u \in r => u \in r2)
  BY DEF Served
<1>3. \A t \in Tasks : o[t] = u => p2[t] = p[t]
  BY <1>1 DEF NoneOrNext
<1>4. QED
  BY <1>1, <1>2, <1>3, StaysLogged

\* A step of one task that neither ends a run nor begins one of a thread.
LEMMA LocalLogs ==
  ASSUME IInv, NEW t \in Tasks, UNCHANGED <<on, turns>>,
         pc' \in [Tasks -> Pcs], \A u \in Tasks \ {t} : pc'[u] = pc[u] /\ result'[u] = result[u],
         \/ pc[t] \in UnderWay /\ pc'[t] \in UnderWay
         \/ on[t] = None
         \/ pc'[t] = pc[t] /\ result'[t] = result[t],
         NEW th \in Threads, Log(th)
  PROVE  Log(th)'
<1>1. UNCHANGED <<on, asked, queue, history, running>>
  BY DEF turns
<1>2. pc \in [Tasks -> Pcs] /\ on[t] = None => on[t] # th
  BY NoneAssumption DEF IInv, TypeOK, Pcs
<1>3. pc \in [Tasks -> Pcs]
  BY DEF IInv, TypeOK, Pcs
<1>4. \A u \in Tasks : on[u] = th /\ pc[u] \in UnderWay \cup {"done"} =>
        /\ pc[u] = "done" => pc'[u] = "done" /\ result'[u] = result[u]
        /\ pc[u] \in UnderWay => pc'[u] \in UnderWay
  BY <1>2, <1>3 DEF UnderWay
<1>5. \A u \in Tasks : on[u] = th /\ pc'[u] \in UnderWay => pc[u] \in UnderWay
  BY <1>2, <1>3
<1>6. Logged(th, asked[th], queue[th], history[th], running, pc', on, result')
  BY <1>3, <1>4, <1>5, StaysLogged DEF Log
<1>7. QED
  BY <1>1, <1>6 DEF Log

LEMMA EndLogs ==
  ASSUME IInv, NEW t \in Tasks, NEW r \in Outcomes \cup {"THROWN"}, pc[t] \in UnderWay, End(t, r),
         \A th \in Threads : Log(th), NEW u \in Threads
  PROVE  Log(u)'
<1>0. /\ pc \in [Tasks -> Pcs] /\ result \in [Tasks -> {"NONE", "THROWN"} \cup Outcomes]
      /\ on[t] \in Threads \cup {None} /\ history \in [Threads -> Seq(Tasks)]
  BY DEF IInv, TypeOK, Pcs
<1>1. CASE on[t] = None
  <2>1. /\ pc' = [pc EXCEPT ![t] = "done"] /\ UNCHANGED <<on, turns>>
        /\ result' = [result EXCEPT ![t] = r]
    BY <1>1 DEF End, turns
  <2>2. /\ pc' \in [Tasks -> Pcs]
        /\ \A v \in Tasks \ {t} : pc'[v] = pc[v] /\ result'[v] = result[v]
    BY <1>0, <2>1 DEF Pcs
  <2>3. QED
    BY <1>1, <2>1, <2>2, LocalLogs
<1>2. CASE on[t] \in Threads
  <2>0. PICK th \in Threads : th = on[t]
    BY <1>2
  <2> DEFINE p == [pc EXCEPT ![t] = "done"]
             free == running \ {th}
  <2>1. /\ result' = [result EXCEPT ![t] = r] /\ UNCHANGED <<on, asked>>
        /\ Served(th, queue, free, p, queue', running', pc')
        /\ history' = IF r \in Outcomes THEN [history EXCEPT ![th] = Append(@, t)] ELSE history
    BY <1>2, <2>0, NoneAssumption DEF End, ProcessNext, Served
  <2>2. /\ Waiting(queue, p, on) /\ p \in [Tasks -> Pcs]
        /\ queue \in [Threads -> Seq(Tasks)] /\ free \in SUBSET Threads
    BY DEF IInv, TypeOK, Waiting, Pcs, UnderWay
  <2>3. CASE u = th
    <3>1. history'[u] = IF r \in Outcomes THEN Append(history[u], t) ELSE history[u]
      BY <1>0, <2>1, <2>3
    <3>2. Logged(u, asked[u], queue[u], history'[u], free, p, on, result')
      BY <1>0, <2>0, <2>1, <2>3, <3>1, EndIsLogged DEF Log
    <3> HIDE DEF p, free
    <3>3. Logged(th, asked[th], queue'[th], history'[th], running', pc', on, result')
      <4>1. Logged(th, asked[th], queue[th], history'[th], free, p, on, result')
        BY <2>3, <3>2
      <4>2. QED
        <5>1. PICK a, h : a = asked[th] /\ h = history'[th]
          OBVIOUS
        <5>2. Logged(th, a, queue[th], h, free, p, on, result')
          BY <4>1, <5>1
        <5>3. Logged(th, a, queue'[th], h, running', pc', on, result')
          BY <2>1, <2>2, <5>2, ServeIsLogged
        <5>4. QED
          BY <5>1, <5>3
    <3>4. QED
      BY <2>1, <2>3, <3>3 DEF Log
  <2>4. CASE u # th
    <3>1. history'[u] = history[u]
      BY <1>0, <2>1, <2>4
    <3>2. \A v \in Tasks \ {t} : p[v] = pc[v] /\ result'[v] = result[v]
      BY <1>0, <2>1
    <3>3. \A v \in Tasks : on[v] = u => v # t
      BY <2>0, <2>4
    <3>4. u \in running => u \in free
      BY <2>4
    <3>5. Logged(u, asked[u], queue[u], history[u], running, pc, on, result)
      BY DEF Log
    <3> HIDE DEF p, free
    <3>6. Logged(u, asked[u], queue[u], history[u], free, p, on, result')
      <4>1. /\ \A v \in Tasks : on[v] = u /\ pc[v] \in UnderWay \cup {"done"} =>
                 /\ on[v] = u
                 /\ pc[v] = "done" => p[v] = "done" /\ result'[v] = result[v]
                 /\ pc[v] \in UnderWay => p[v] \in UnderWay
            /\ \A v \in Tasks : on[v] = u /\ p[v] \in UnderWay => on[v] = u /\ pc[v] \in UnderWay
        BY <3>2, <3>3
      <4>2. pc \in [Tasks -> Pcs] /\ p \in [Tasks -> Pcs]
        BY <1>0, <2>2
      <4>3. QED
        BY <3>4, <3>5, <4>1, <4>2, StaysLogged
    <3>7. Logged(u, asked[u], queue'[u], history[u], running', pc', on, result')
      BY <2>1, <2>2, <2>4, <3>6, OthersStayLogged, Zenon
    <3>8. QED
      BY <2>1, <3>1, <3>7 DEF Log
  <2>5. QED
    BY <2>3, <2>4
<1>3. QED
  BY <1>0, <1>1, <1>2

LEMMA EnqueueLogs ==
  ASSUME IInv, NEW t \in Tasks, NEW th \in Threads, EnqueueTurn(t, th),
         \A v \in Threads : Log(v), NEW u \in Threads
  PROVE  Log(u)'
<1> DEFINE p == [pc EXCEPT ![t] = "queued"]
           q == [queue EXCEPT ![th] = Append(@, t)]
<1>0. /\ pc \in [Tasks -> Pcs] /\ on \in [Tasks -> Threads \cup {None}] /\ pc[t] = "created"
      /\ queue \in [Threads -> Seq(Tasks)] /\ asked \in [Threads -> Seq(Tasks)]
      /\ running \in SUBSET Threads /\ on[t] = None
  BY DEF IInv, TypeOK, Pcs, EnqueueTurn, Unassigned
<1>1. /\ on' = [on EXCEPT ![t] = th] /\ asked' = [asked EXCEPT ![th] = Append(@, t)]
      /\ UNCHANGED <<result, history>>
      /\ Served(th, q, running, p, queue', running', pc')
  BY DEF EnqueueTurn, ProcessNext, Served
<1>2. p \in [Tasks -> Pcs] /\ q \in [Threads -> Seq(Tasks)]
  BY <1>0 DEF Pcs
<1>3. Waiting(q, p, on')
  BY WaitingAfterEnqueue
<1>4. CASE u = th
  <2>1. q[th] = Append(queue[th], t) /\ asked'[th] = Append(asked[th], t)
    BY <1>0, <1>1
  <2>2. Logged(th, asked[th], queue[th], history[th], running, pc, on, result)
    BY DEF Log
  <2>3. queue[th] \in Seq(Tasks)
    BY <1>0
  <2>4. Logged(th, Append(asked[th], t), Append(queue[th], t), history[th], running, p,
               [on EXCEPT ![t] = th], result)
    BY <1>0, <2>2, <2>3, EnqueueIsLogged
  <2>5. Logged(th, asked'[th], q[th], history[th], running, p, on', result)
    BY <1>1, <2>1, <2>4
  <2> HIDE DEF p, q
  <2>6. Logged(th, asked'[th], queue'[th], history[th], running', pc', on', result)
    BY <1>0, <1>1, <1>2, <1>3, <2>5, ServeIsLogged, Zenon
  <2>7. QED
    BY <1>1, <1>4, <2>6 DEF Log
<1>5. CASE u # th
  <2>1. q[u] = queue[u] /\ asked'[u] = asked[u]
    BY <1>0, <1>1, <1>5
  <2>2. Logged(u, asked[u], queue[u], history[u], running, pc, on, result)
    BY DEF Log
  <2>3. /\ \A v \in Tasks : on[v] = u /\ pc[v] \in UnderWay \cup {"done"} =>
             /\ on'[v] = u
             /\ pc[v] = "done" => p[v] = "done" /\ result[v] = result[v]
             /\ pc[v] \in UnderWay => p[v] \in UnderWay
        /\ \A v \in Tasks : on'[v] = u /\ p[v] \in UnderWay => on[v] = u /\ pc[v] \in UnderWay
    <3>1. \A v \in Tasks \ {t} : on'[v] = on[v] /\ p[v] = pc[v]
      BY <1>0, <1>1
    <3>2. on[t] # u /\ on'[t] # u
      BY <1>0, <1>1, <1>5, NoneAssumption
    <3> HIDE DEF p
    <3>3. QED
      BY <3>1, <3>2
  <2> HIDE DEF p, q
  <2>4. Logged(u, asked[u], queue[u], history[u], running, p, on', result)
    <3>1. pc \in [Tasks -> Pcs] /\ p \in [Tasks -> Pcs]
      BY <1>0, <1>2
    <3>2. QED
      BY <2>2, <2>3, <3>1, StaysLogged
  <2>5. Logged(u, asked[u], q[u], history[u], running, p, on', result)
    BY <2>1, <2>4
  <2>6. Logged(u, asked[u], queue'[u], history[u], running', pc', on', result)
    BY <1>0, <1>1, <1>2, <1>3, <1>5, <2>5, OthersStayLogged, Zenon
  <2>7. QED
    BY <1>1, <2>1, <2>6 DEF Log
<1>6. QED
  BY <1>4, <1>5

LEMMA NothingIsLogged ==
  ASSUME NEW th, NEW r, NEW p, NEW o, NEW res, \A t \in Tasks : p[t] \notin UnderWay
  PROVE  Logged(th, <<>>, <<>>, <<>>, r, p, o, res)
<1>1. <<>> \in Seq(Tasks) /\ 1 .. Len(<<>>) = {}
  OBVIOUS
<1>2. <<>> = <<>> \o <<>>
  BY <1>1, ConcatEmptySeq
<1>3. <<>> = Kept(<<>>, {t \in Tasks : p[t] = "done" /\ res[t] \in Outcomes})
  BY KeptOfEmpty, Zenon
<1>4. /\ \A i \in 1 .. Len(<<>>) :
           /\ o[<<>>[i]] = th
           /\ p[<<>>[i]] = "done" \/ (i = Len(<<>>) /\ th \in r /\ p[<<>>[i]] \in UnderWay)
      /\ \A t \in Tasks : o[t] = th /\ p[t] \in UnderWay => \E i \in 1 .. Len(<<>>) : t = <<>>[i]
  BY <1>1
<1>5. QED
  BY <1>1, <1>2, <1>3, <1>4, Zenon DEF Logged

LEMMA RunLogs ==
  ASSUME IInv, NEW t \in Tasks, Run(t), \A th \in Threads : Log(th), NEW u \in Threads
  PROVE  Log(u)'
<1>1. ASSUME NEW r \in Outcomes \cup {"THROWN"}, pc[t] \in UnderWay, End(t, r)
      PROVE  Log(u)'
  BY <1>1, EndLogs
<1>2. ASSUME UNCHANGED <<on, turns>>, pc[t] \in UnderWay, NEW n \in UnderWay,
             pc' = [pc EXCEPT ![t] = n], \A v \in Tasks \ {t} : result'[v] = result[v]
      PROVE  Log(u)'
  <2>1. /\ pc' \in [Tasks -> Pcs] /\ \A v \in Tasks \ {t} : pc'[v] = pc[v]
        /\ pc'[t] \in UnderWay
    BY <1>2 DEF IInv, TypeOK, Pcs
  <2>2. QED
    BY <1>2, <2>1, LocalLogs
<1>3. CASE Begin(t)
  BY <1>1, <1>2, <1>3 DEF Begin, UnderWay
<1>4. CASE Work(t)
  BY <1>2, <1>4 DEF Work, UnderWay
<1>5. CASE Complete(t)
  BY <1>2, <1>5 DEF Complete, UnderWay, IInv, TypeOK
<1>6. CASE Fail(t)
  BY <1>1, <1>2, <1>6 DEF Fail, UnderWay, IInv, TypeOK
<1>7. CASE Return(t)
  BY <1>1, <1>7 DEF Return, UnderWay, IInv, RowOf
<1>8. QED
  BY <1>3, <1>4, <1>5, <1>6, <1>7 DEF Run

\* Without a clear() every thread's log stays what was asked of it.
LEMMA LogStep ==
  ASSUME IInv, [Next]_vars, clears = 0 => \A th \in Threads : Log(th)
  PROVE  (clears = 0 => \A th \in Threads : Log(th))'
<1>1. CASE Clear
  <2>1. clears' # 0
    BY <1>1 DEF Clear, IInv, TypeOK
  <2>2. QED
    BY <2>1
<1>2. CASE Restart
  <2>2. \A th \in Threads : /\ asked'[th] = <<>> /\ queue'[th] = <<>> /\ history'[th] = <<>>
    BY <1>2 DEF Restart
  <2>3. \A t \in Tasks : pc'[t] \notin UnderWay
    BY <1>2 DEF Restart, UnderWay
  <2>4. ASSUME NEW th \in Threads
        PROVE  Log(th)'
    <3>1. Logged(th, <<>>, <<>>, <<>>, running', pc', on', result')
      BY <2>3, NothingIsLogged
    <3>2. QED
      BY <2>2, <3>1 DEF Log
  <2>5. QED
    BY <2>4
<1>3. CASE clears' = clears /\ ~Clear /\ ~Restart
  <2> SUFFICES ASSUME \A th \in Threads : Log(th), NEW u \in Threads
               PROVE  Log(u)'
    BY <1>3
  <2>1. CASE \E t \in Tasks : Run(t)
    BY <2>1, RunLogs
  <2>2. CASE \E t \in Tasks, th \in Threads : EnqueueTurn(t, th)
    BY <2>2, EnqueueLogs
  <2>3. CASE \E t \in Tasks : CreateTask(t) \/ RefuseTask(t) \/ RunTask(t)
    <3>1. PICK t \in Tasks : CreateTask(t) \/ RefuseTask(t) \/ RunTask(t)
      BY <2>3
    <3>2. pc[t] \in {"none", "created"} /\ on[t] = None /\ UNCHANGED <<on, result, turns>>
      BY <3>1 DEF CreateTask, RefuseTask, RunTask, IInv, Unassigned
    <3>3. PICK n \in {"created", "refused", "begin"} : pc' = [pc EXCEPT ![t] = n]
      BY <3>1 DEF CreateTask, RefuseTask, RunTask
    <3>4. pc' \in [Tasks -> Pcs] /\ \A v \in Tasks \ {t} : pc'[v] = pc[v]
      BY <3>3 DEF IInv, TypeOK, Pcs, UnderWay
    <3>5. QED
      BY <3>2, <3>4, LocalLogs
  <2>4. CASE \/ \E t \in Tasks : CancelTask(t)
             \/ UNCHANGED vars
    <3>1. UNCHANGED <<pc, on, result, asked, queue, history, running>>
      BY <2>4 DEF CancelTask, vars, turns
    <3>2. QED
      BY <3>1 DEF Log
  <2>5. QED
    BY <1>3, <2>1, <2>2, <2>3, <2>4 DEF Next
<1>4. CASE clears' = clears \/ Clear \/ Restart
  BY <1>1, <1>2, <1>3, <1>4
<1>5. clears' = clears \/ Clear \/ Restart
  BY DEF Next, Run, Begin, Work, Complete, Fail, Return, End, CreateTask, RefuseTask, RunTask,
         CancelTask, EnqueueTurn, vars, turns
<1>6. QED
  BY <1>4, <1>5

\* Turns are executed in the order they were enqueued and none is dropped, for any
\* number of them: the log of a thread is what was asked of it without what waits,
\* runs or threw.
THEOREM HistoriesAreFIFO == Spec => []HistoryIsFIFO
<1> DEFINE Logs == clears = 0 => \A th \in Threads : Log(th)
<1>1. Init => Logs
  <2> SUFFICES ASSUME Init, NEW th \in Threads
               PROVE  Log(th)
    OBVIOUS
  <2>2. asked[th] = <<>> /\ queue[th] = <<>> /\ history[th] = <<>>
    BY DEF Init
  <2>3. \A t \in Tasks : pc[t] \notin UnderWay
    BY DEF Init, UnderWay
  <2>5. Logged(th, <<>>, <<>>, <<>>, running, pc, on, result)
    BY <2>3, NothingIsLogged
  <2>6. QED
    BY <2>2, <2>5 DEF Log
<1>2. IInv /\ Logs /\ [Next]_vars => Logs'
  BY LogStep
<1>3. IInv /\ Logs => HistoryIsFIFO
  <2> SUFFICES ASSUME IInv, NEW th \in Threads, Log(th)
               PROVE  history[th] = Kept(asked[th], Ended)
    BY DEF HistoryIsFIFO
  <2>1. PICK b \in Seq(Tasks) : asked[th] = b \o queue[th] /\ history[th] = Kept(b, Ended)
    BY DEF Log, Logged, Ended
  <2>2. PICK q \in Seq(Tasks) : q = queue[th]
    BY DEF IInv, TypeOK
  <2>3. \A i \in 1 .. Len(q) : q[i] \notin Ended
    BY <2>2 DEF IInv, Waiting, Ended
  <2>4. Kept(b \o q, Ended) = Kept(b, Ended)
    BY <2>3, KeptOfConcat
  <2>5. QED
    BY <2>1, <2>2, <2>4
<1>4. QED
  BY <1>1, <1>2, <1>3, InitIInv, Inductive, PTL DEF Spec
=============================================================================
