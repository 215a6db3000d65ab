----------------------------- MODULE TaskTurns -----------------------------
(***************************************************************************)
(* Agent tasks and the turns of a thread: AgentRunner.runTask, which moves *)
(* the AgentTask row (src/modules/brain/agent-runner.ts), the queue that   *)
(* runs the turns of a thread one after the other                          *)
(* (src/modules/brain/thread-turn-queue.ts), and the routes that create,   *)
(* run and cancel a task (src/api/tasks/task-router.ts).                   *)
(*                                                                         *)
(* An action is what the server does between two awaits.  A run that calls *)
(* the providers, one agent after the other, is one step that ends well or *)
(* throws; the events and broadcasts, whose failures are swallowed, are    *)
(* left out.  A task is run once, in the request that made its row; the    *)
(* task of a live session, which the session's runner runs turn by turn,   *)
(* is not one of these.                                                    *)
(***************************************************************************)
EXTENDS Naturals, Sequences, FiniteSets

CONSTANTS Threads,    \* threads with a queue
          Tasks,      \* AgentTask rows, one per turn
          MaxClears,  \* bound: clear() calls between two starts of the server
          None        \* no thread: a task the route runs by itself

ASSUME TasksAssumption == IsFiniteSet(Tasks)
ASSUME NoneAssumption == None \notin Threads

VARIABLES
  status,   \* AgentTask.status; "NONE": no row
  pc,       \* where the turn or the run of the task is
  on,       \* the thread it was queued for
  result,   \* what runTask returns; "THROWN": it throws
  queue,    \* ThreadTurnQueue.queues
  running,  \* ThreadTurnQueue.runningThreads
  history,  \* ThreadTurnQueue.executionHistory, the tasks of the results
  asked,    \* history: the turns enqueued since the server started
  clears    \* history: clear() calls since the server started

turns == <<queue, running, history, asked, clears>>
vars == <<status, pc, on, result, turns>>

Outcomes == {"COMPLETED", "FAILED"}
UnderWay == {"begin", "work", "complete", "fail", "return"}
InFlight(th) == {t \in Tasks : pc[t] \in UnderWay /\ on[t] = th}

-----------------------------------------------------------------------------
(* The queue *)

\* A queue that does not look whether a turn of the thread is running.
ProcessAtOnce(th, q, r, p) ==
  LET go == q[th] # <<>>
  IN  /\ queue' = IF go THEN [q EXCEPT ![th] = Tail(@)] ELSE q
      /\ running' = IF go THEN r \cup {th} ELSE r
      /\ pc' = IF go THEN [p EXCEPT ![Head(q[th])] = "begin"] ELSE p

\* A queue that serves its newest turn first.
ProcessNewest(th, q, r, p) ==
  LET go == th \notin r /\ q[th] # <<>>
  IN  /\ queue' = IF go THEN [q EXCEPT ![th] = SubSeq(@, 1, Len(@) - 1)] ELSE q
      /\ running' = IF go THEN r \cup {th} ELSE r
      /\ pc' = IF go THEN [p EXCEPT ![q[th][Len(q[th])]] = "begin"] ELSE p

\* processNext on the queues q, running threads r and turns p.
ProcessNext(th, q, r, p) ==
  LET go == th \notin r /\ q[th] # <<>>
  IN  /\ queue' = IF go THEN [q EXCEPT ![th] = Tail(@)] ELSE q
      /\ running' = IF go THEN r \cup {th} ELSE r
      /\ pc' = IF go THEN [p EXCEPT ![Head(q[th])] = "begin"] ELSE p

\* enqueueTurn: its turn starts at once when the thread is quiet.
EnqueueTurn(t, th) ==
  /\ pc[t] = "created"
  /\ on' = [on EXCEPT ![t] = th]
  /\ asked' = [asked EXCEPT ![th] = Append(@, t)]
  /\ ProcessNext(th, [queue EXCEPT ![th] = Append(@, t)], running,
                 [pc EXCEPT ![t] = "queued"])
  /\ UNCHANGED <<status, result, history, clears>>

\* A turn that ends without serving the next one.
EndQuietly(t, r) ==
  /\ result' = [result EXCEPT ![t] = r]
  /\ pc' = [pc EXCEPT ![t] = "done"]
  /\ history' = IF on[t] # None /\ r \in Outcomes
                THEN [history EXCEPT ![on[t]] = Append(@, t)] ELSE history
  /\ running' = running \ {on[t]}
  /\ UNCHANGED <<status, on, queue, asked, clears>>

\* The run of t is over with result r: a queued turn is logged unless it threw,
\* and whatever it did the thread is free and serves its next turn.
End(t, r) ==
  /\ result' = [result EXCEPT ![t] = r]
  /\ \/ /\ on[t] = None
        /\ pc' = [pc EXCEPT ![t] = "done"]
        /\ UNCHANGED <<history, queue, running>>
     \/ /\ on[t] # None
        /\ history' = IF r \in Outcomes
                      THEN [history EXCEPT ![on[t]] = Append(@, t)] ELSE history
        /\ ProcessNext(on[t], queue, running \ {on[t]}, [pc EXCEPT ![t] = "done"])
  /\ UNCHANGED <<status, on, asked, clears>>

\* clear forgets the queued turns, whose promises never settle, and which
\* threads are running; the runs themselves go on.
Clear ==
  /\ clears < MaxClears
  /\ clears' = clears + 1
  /\ pc' = [t \in Tasks |-> IF pc[t] = "queued" THEN "lost" ELSE pc[t]]
  /\ queue' = [th \in Threads |-> <<>>]
  /\ running' = {}
  /\ history' = [th \in Threads |-> <<>>]
  /\ UNCHANGED <<status, on, result, asked>>

-----------------------------------------------------------------------------
(* runTask, one action per statement that writes the row *)

\* The first write is outside the try: when it fails, runTask throws.
Begin(t) ==
  /\ pc[t] = "begin"
  /\ \/ /\ status' = [status EXCEPT ![t] = "RUNNING"]
        /\ pc' = [pc EXCEPT ![t] = "work"]
        /\ UNCHANGED <<on, result, turns>>
     \/ End(t, "THROWN")

\* The context is gathered and the agents take their turns, or one throws.
Work(t) ==
  /\ pc[t] = "work"
  /\ \E next \in {"complete", "fail"} : pc' = [pc EXCEPT ![t] = next]
  /\ UNCHANGED <<status, on, result, turns>>

\* The answer is returned whether or not the row could be written.
CompleteUnwritten(t) ==
  /\ pc[t] = "complete"
  /\ result' = [result EXCEPT ![t] = "COMPLETED"]
  /\ pc' = [pc EXCEPT ![t] = "return"]
  /\ UNCHANGED <<status, on, turns>>

\* The write of COMPLETED; its failure is caught like a failure of the work.
Complete(t) ==
  /\ pc[t] = "complete"
  /\ \/ /\ status' = [status EXCEPT ![t] = "COMPLETED"]
        /\ result' = [result EXCEPT ![t] = "COMPLETED"]
        /\ pc' = [pc EXCEPT ![t] = "return"]
     \/ /\ pc' = [pc EXCEPT ![t] = "fail"]
        /\ UNCHANGED <<status, result>>
  /\ UNCHANGED <<on, turns>>

\* The catch returns without the row.
FailUnwritten(t) ==
  /\ pc[t] = "fail"
  /\ result' = [result EXCEPT ![t] = "FAILED"]
  /\ pc' = [pc EXCEPT ![t] = "return"]
  /\ UNCHANGED <<status, on, turns>>

\* The catch: FAILED is written, or that fails too and runTask throws.
Fail(t) ==
  /\ pc[t] = "fail"
  /\ \/ /\ status' = [status EXCEPT ![t] = "FAILED"]
        /\ result' = [result EXCEPT ![t] = "FAILED"]
        /\ pc' = [pc EXCEPT ![t] = "return"]
        /\ UNCHANGED <<on, turns>>
     \/ End(t, "THROWN")

\* The last event is recorded and runTask returns to its caller.
Return(t) == pc[t] = "return" /\ End(t, result[t])

-----------------------------------------------------------------------------
(* The routes *)

\* A new PENDING row.
CreateTask(t) ==
  /\ status[t] = "NONE" /\ pc[t] = "none"
  /\ status' = [status EXCEPT ![t] = "PENDING"]
  /\ pc' = [pc EXCEPT ![t] = "created"]
  /\ UNCHANGED <<on, result, turns>>

\* The create route finds no provider it may use: the row fails unrun.
RefuseTask(t) ==
  /\ pc[t] = "created"
  /\ status' = [status EXCEPT ![t] = "FAILED"]
  /\ pc' = [pc EXCEPT ![t] = "refused"]
  /\ UNCHANGED <<on, result, turns>>

\* A run that takes its thread itself, whether it has one or not.
RunTaskOnThread(t) ==
  /\ pc[t] = "created"
  /\ pc' = [pc EXCEPT ![t] = "begin"]
  /\ running' = running \cup {on[t]}
  /\ UNCHANGED <<status, on, result, queue, history, asked, clears>>

\* The create route runs the task itself, past any queue.
RunTask(t) ==
  /\ pc[t] = "created"
  /\ pc' = [pc EXCEPT ![t] = "begin"]
  /\ UNCHANGED <<status, on, result, turns>>

\* The cancel route writes the row, whatever its status is, and nothing else.
CancelTask(t) ==
  /\ status[t] # "NONE"
  /\ status' = [status EXCEPT ![t] = "CANCELLED"]
  /\ UNCHANGED <<pc, on, result, turns>>

\* The server restarts: all of this but the rows is gone.
Restart ==
  /\ pc' = [t \in Tasks |-> IF pc[t] = "none" THEN "none" ELSE "lost"]
  /\ on' = [t \in Tasks |-> None]
  /\ result' = [t \in Tasks |-> "NONE"]
  /\ queue' = [th \in Threads |-> <<>>]
  /\ running' = {}
  /\ history' = [th \in Threads |-> <<>>]
  /\ asked' = [th \in Threads |-> <<>>]
  /\ clears' = 0
  /\ UNCHANGED status

-----------------------------------------------------------------------------
Init ==
  /\ status = [t \in Tasks |-> "NONE"]
  /\ pc = [t \in Tasks |-> "none"]
  /\ on = [t \in Tasks |-> None]
  /\ result = [t \in Tasks |-> "NONE"]
  /\ queue = [th \in Threads |-> <<>>]
  /\ running = {}
  /\ history = [th \in Threads |-> <<>>]
  /\ asked = [th \in Threads |-> <<>>]
  /\ clears = 0

Run(t) == Begin(t) \/ Work(t) \/ Complete(t) \/ Fail(t) \/ Return(t)

Next ==
  \/ \E t \in Tasks :
       \/ Run(t)
       \/ CreateTask(t) \/ RefuseTask(t) \/ RunTask(t) \/ CancelTask(t)
       \/ \E th \in Threads : EnqueueTurn(t, th)
  \/ Clear
  \/ Restart

\* The event loop serves the statements of a run; a request to a provider and a
\* statement of the database end, well or not.
Fairness == \A t \in Tasks : WF_vars(Run(t))

Spec == Init /\ [][Next]_vars /\ Fairness

-----------------------------------------------------------------------------
(* Properties *)

TypeOK ==
  /\ status \in [Tasks -> {"NONE", "PENDING", "RUNNING", "CANCELLED"} \cup Outcomes]
  /\ pc \in [Tasks -> UnderWay \cup {"none", "created", "queued", "done", "refused", "lost"}]
  /\ on \in [Tasks -> Threads \cup {None}]
  /\ result \in [Tasks -> {"NONE", "THROWN"} \cup Outcomes]
  /\ queue \in [Threads -> Seq(Tasks)]
  /\ running \subseteq Threads
  /\ history \in [Threads -> Seq(Tasks)]
  /\ asked \in [Threads -> Seq(Tasks)]
  /\ clears \in Nat

\* A thread runs one turn at a time.  Each clear(), which forgets that a turn is
\* running, lets at most one more overlap, however the turns then end.
OverlapIsBounded == \A th \in Threads : Cardinality(InFlight(th)) <= 1 + clears

\* The turns whose run ended without throwing.
Ended == {t \in Tasks : pc[t] = "done" /\ result[t] \in Outcomes}

\* The turns of s that are in T.
Kept(s, T) ==
  LET kept[i \in 0 .. Len(s)] ==
        IF i = 0 THEN <<>>
        ELSE IF s[i] \in T THEN Append(kept[i - 1], s[i]) ELSE kept[i - 1]
  IN  kept[Len(s)]

\* Turns are executed in the order they were enqueued and none is dropped: without
\* a clear() the log of a thread is what was asked of it, up to now and without the
\* turns whose run threw.
HistoryIsFIFO ==
  \A th \in Threads : clears = 0 => history[th] = Kept(asked[th], Ended)

\* Who waits for a run is told what the row says, unless the task was cancelled.
RowMatchesResult ==
  \A t \in Tasks : pc[t] \in {"return", "done"} /\ result[t] \in Outcomes =>
    status[t] \in {result[t], "CANCELLED"}

\* A row that says RUNNING has a run, unless the server restarted under it or not
\* even its failure could be written.
RunningHasRun ==
  \A t \in Tasks : status[t] = "RUNNING" =>
    \/ pc[t] \in {"work", "complete", "fail"}
    \/ pc[t] = "lost"
    \/ pc[t] = "done" /\ result[t] = "THROWN"

\* A turn that waits in a queue is run and its caller answered, whatever happens to
\* the turns before it, unless a clear() or a restart drops it.
TurnsSettle == \A t \in Tasks : pc[t] = "queued" ~> pc[t] \in {"done", "lost"}

\* "check cancellation": a task cancelled before or during its run does not end
\* COMPLETED.
CancelledIsNotCompleted ==
  [][\A t \in Tasks : status[t] = "CANCELLED" => status'[t] # "COMPLETED"]_vars
=============================================================================
