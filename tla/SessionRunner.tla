--------------------------- MODULE SessionRunner ---------------------------
(***************************************************************************)
(* The execution of one live session, src/modules/sessions/               *)
(* session-runner.ts: HTTP handlers that set flags in an in-memory control *)
(* object and write the session row, and an execution that runs one agent  *)
(* turn after the other and looks at the flags and at the queued redirects *)
(* between two turns.                                                      *)
(*                                                                         *)
(* One action is what runs from one await to the next, so that whatever    *)
(* the event loop may run in between can.  The event, audit and task rows  *)
(* written next to these writes are left out; that they may throw is not.  *)
(***************************************************************************)
EXTENDS Naturals, Sequences

CONSTANTS Agents,     \* number of agent turns of an execution
          Ctrls,      \* identities of ActiveSessionControl objects
          Execs,      \* slots for executions alive at the same time
          Reqs,       \* slots for handlers in flight at the same time
          Redirects,  \* redirects users may submit
          None        \* no control, no task, no redirect

ASSUME AgentsAssumption == Agents \in Nat \ {0}
ASSUME NoneAssumption == None \notin Ctrls \cup Execs \cup Redirects

VARIABLES
  status,     \* LiveSession.status
  row,        \* AgentRedirect.resultingState; "NONE": no row
  up,         \* the server process runs
  current,    \* SessionRunner.controls.get(sessionId), or None
  ctrls,      \* the control objects
  reqs,       \* the handlers in flight
  exec,       \* the executions
  overlapped, \* history: a start ran into another start or execution
  late        \* history: turns an execution began since its control was stopped

db == <<status, row>>
history == <<overlapped, late>>
vars == <<db, up, current, ctrls, reqs, exec, history>>

NewCtrl == [paused |-> FALSE, cancelled |-> FALSE, queue |-> <<>>]
NoReq == [op |-> "none", pc |-> "idle", ctrl |-> None, hand |-> None, found |-> "other"]
NoExec == [pc |-> "idle", ctrl |-> None, turn |-> 0, hand |-> None]

Statuses == {"CREATED", "RUNNING", "PAUSED", "CANCELLED", "COMPLETED", "FAILED"}
RowStates == {"NONE", "SUBMITTED", "REDIRECTED"}

\* A handler between two statements, with the control and the redirect it keeps.
ReqStates ==
  {NoReq}
    \cup [op : {"pause", "cancel", "resume", "disconnect"}, pc : {"write"}, ctrl : {None},
          hand : {None}, found : {"other"}]
    \cup [op : {"start"}, pc : {"read"}, ctrl : {None}, hand : {None}, found : {"paused", "other"}]
    \cup [op : {"start"}, pc : {"write", "launch"}, ctrl : Ctrls, hand : {None},
          found : {"paused", "other"}]
    \cup [op : {"redirect"}, pc : {"write"}, ctrl : Ctrls, hand : Redirects, found : {"other"}]

\* An execution between two statements, with the agent whose turn it is.
ExecStates ==
  {NoExec}
    \cup [pc : {"loop", "cancel", "complete", "failing"}, ctrl : Ctrls, turn : 0 .. Agents,
          hand : {None}]
    \cup [pc : {"wait", "turn", "run"}, ctrl : Ctrls, turn : 0 .. Agents - 1, hand : {None}]
    \cup [pc : {"correct"}, ctrl : Ctrls, turn : 0 .. Agents - 1, hand : Redirects]

Live(e) == exec[e].pc # "idle"
Stopped(c) == ctrls[c].paused \/ ctrls[c].cancelled

\* A start between its reset of the flags and the execution it launches.
Starting(q) == reqs[q].op = "start" /\ reqs[q].pc \in {"write", "launch"}

-----------------------------------------------------------------------------
(* Control objects *)

FreeCtrls == {c \in Ctrls \ {current} : /\ \A e \in Execs : exec[e].ctrl # c
                                        /\ \A q \in Reqs : reqs[q].ctrl # c}

\* A control for every call, as if the map were only written.
NewControl == FreeCtrls

\* getOrCreateControl: the control in the map, or a new one.
Control == IF current # None THEN {current} ELSE FreeCtrls

\* Controls that nothing refers to any more are gone.
Sweep(cs) ==
  ctrls' = [c \in Ctrls |->
              IF \/ c = current'
                 \/ \E e \in Execs : exec'[e].ctrl = c
                 \/ \E q \in Reqs : reqs'[q].ctrl = c
              THEN cs[c]
              ELSE NewCtrl]

\* The executions of c may begin turns again.
Unstop(c) == late' = [e \in Execs |-> IF exec[e].ctrl = c THEN 0 ELSE late[e]]

-----------------------------------------------------------------------------
(* The handlers: each answers after the await its request is in *)

Call(q, r) == up /\ reqs[q] = NoReq /\ reqs' = [reqs EXCEPT ![q] = r]
Return(q) == reqs' = [reqs EXCEPT ![q] = NoReq]

PauseCall(q) ==
  /\ Call(q, [NoReq EXCEPT !.op = "pause", !.pc = "write"])
  /\ IF current = None THEN UNCHANGED ctrls
     ELSE ctrls' = [ctrls EXCEPT ![current].paused = TRUE]
  /\ UNCHANGED <<db, up, current, exec, history>>

CancelCall(q) ==
  /\ Call(q, [NoReq EXCEPT !.op = "cancel", !.pc = "write"])
  /\ IF current = None THEN UNCHANGED ctrls
     ELSE ctrls' = [ctrls EXCEPT ![current].paused = FALSE, ![current].cancelled = TRUE]
  /\ UNCHANGED <<db, up, current, exec, history>>

\* resume of an execution in memory; without one it is a start.
ResumeCall(q) ==
  /\ current # None
  /\ Call(q, [NoReq EXCEPT !.op = "resume", !.pc = "write"])
  /\ ctrls' = [ctrls EXCEPT ![current].paused = FALSE]
  /\ IF ctrls[current].cancelled THEN UNCHANGED late ELSE Unstop(current)
  /\ UNCHANGED <<db, up, current, exec, overlapped>>

ResumeAsStart(q) ==
  /\ current = None
  /\ Call(q, [NoReq EXCEPT !.op = "start", !.pc = "read",
                    !.found = IF status = "PAUSED" THEN "paused" ELSE @])
  /\ UNCHANGED <<db, up, current, ctrls, exec, history>>

\* The driver's socket is gone and its sessions that run have been looked up; the
\* control is not touched.
DisconnectCall(q) ==
  /\ status = "RUNNING"
  /\ Call(q, [NoReq EXCEPT !.op = "disconnect", !.pc = "write"])
  /\ UNCHANGED <<db, up, current, ctrls, exec, history>>

\* The last statement of pause, cancel, resume and pauseForDisconnect that changes
\* state.
WriteStatus(q) ==
  /\ \/ reqs[q].op \in {"pause", "disconnect"} /\ status' = "PAUSED"
     \/ reqs[q].op = "cancel" /\ status' = "CANCELLED"
     \/ reqs[q].op = "resume" /\ status' = "RUNNING"
  /\ Return(q)
  /\ UNCHANGED <<row, up, current, ctrls, exec, history>>

\* start, called by its route or by resume, once findUnique has returned: the
\* control, whatever its execution is doing, is neither paused nor cancelled.
StartFlags(q) ==
  /\ up
  /\ reqs[q] = NoReq \/ reqs[q].pc = "read"
  /\ \E c \in Control :
       /\ current' = c
       /\ ctrls' = [ctrls EXCEPT ![c].paused = FALSE, ![c].cancelled = FALSE]
       /\ reqs' = [reqs EXCEPT ![q] = [@ EXCEPT !.op = "start", !.pc = "write", !.ctrl = c]]
       /\ Unstop(c)
  /\ overlapped' = (overlapped \/ (\E e \in Execs : Live(e)) \/ (\E p \in Reqs : Starting(p)))
  /\ UNCHANGED <<db, up, exec>>

StartWrite(q) ==
  /\ reqs[q].op = "start" /\ reqs[q].pc = "write"
  /\ status' = "RUNNING"
  /\ reqs' = [reqs EXCEPT ![q].pc = "launch"]
  /\ UNCHANGED <<row, up, current, ctrls, exec, history>>

\* executeAsync is called, not awaited; the handler returns.
StartLaunch(q, e) ==
  /\ reqs[q].op = "start" /\ reqs[q].pc = "launch"
  /\ ~Live(e)
  /\ exec' = [exec EXCEPT ![e] = [NoExec EXCEPT !.pc = "loop", !.ctrl = reqs[q].ctrl]]
  /\ Return(q)
  /\ UNCHANGED <<db, up, current, ctrls, history>>

\* submitRedirect takes the control before its first write ...
RedirectCall(q, r) ==
  /\ row[r] = "NONE" /\ \A p \in Reqs : reqs[p].hand # r
  /\ \E c \in Control :
       /\ Call(q, [NoReq EXCEPT !.op = "redirect", !.pc = "write", !.ctrl = c, !.hand = r])
       /\ current' = c
  /\ UNCHANGED <<db, up, ctrls, exec, history>>

\* ... and queues the redirect in that control after it.
StoreRedirect(q) ==
  /\ reqs[q].op = "redirect"
  /\ row' = [row EXCEPT ![reqs[q].hand] = "SUBMITTED"]
  /\ Return(q)
  /\ UNCHANGED <<status, up, current, exec, history>>
  /\ Sweep([ctrls EXCEPT ![reqs[q].ctrl].queue = Append(@, reqs[q].hand)])

\* A statement of a handler throws, or the driver has changed since its socket
\* left; what the handler did before stays.
RejectRequest(q) ==
  /\ reqs[q] # NoReq
  /\ Return(q)
  /\ UNCHANGED <<db, up, current, exec, overlapped, late>>
  /\ Sweep(ctrls)

-----------------------------------------------------------------------------
(* The execution *)

Step(e, new) == exec' = [exec EXCEPT ![e] = new]
Goto(e, pc) == Step(e, [exec[e] EXCEPT !.pc = pc])
Ctrl(e) == ctrls[exec[e].ctrl]

\* The end of an execution, whichever way: its finally clause takes the session
\* out of the map, even when the map holds another control by now.
Finish(e) ==
  /\ Step(e, NoExec)
  /\ current' = None
  /\ late' = [late EXCEPT ![e] = 0]
  /\ overlapped' = (overlapped /\ ((\E f \in Execs \ {e} : Live(f)) \/ \E q \in Reqs : Starting(q)))
  /\ UNCHANGED <<up, reqs>>
  /\ Sweep(ctrls)

\* i <= agents.length.
LoopOnceMore(e) ==
  /\ exec[e].pc = "loop"
  /\ Goto(e, IF Ctrl(e).cancelled THEN "cancel"
             ELSE IF exec[e].turn > Agents THEN "complete" ELSE "wait")
  /\ UNCHANGED <<db, up, current, ctrls, reqs, history>>

\* The head of the loop over the agents and the check behind it: reached when
\* the task has been set up and the skills retrieved, and after every turn.
Loop(e) ==
  /\ exec[e].pc = "loop"
  /\ Goto(e, IF Ctrl(e).cancelled THEN "cancel"
             ELSE IF exec[e].turn = Agents THEN "complete" ELSE "wait")
  /\ UNCHANGED <<db, up, current, ctrls, reqs, history>>

\* A redirect that leaves the queue when it has been recorded, not when it is taken.
NextRedirectLate(e) ==
  LET all == Ctrl(e).queue
      q == IF exec[e].hand = None \/ all = <<>> THEN all ELSE Tail(all)
  IN  /\ ctrls' = [ctrls EXCEPT ![exec[e].ctrl].queue = q]
      /\ IF q = <<>> THEN Step(e, [exec[e] EXCEPT !.pc = "turn", !.hand = None])
         ELSE Step(e, [exec[e] EXCEPT !.pc = "correct", !.hand = Head(q)])

\* while (ctrl.pendingRedirects.length > 0): the head of the queue goes into the
\* prompt of this execution; when the queue is empty the turn begins.
NextRedirect(e) ==
  LET q == Ctrl(e).queue
  IN  IF q = <<>>
      THEN Step(e, [exec[e] EXCEPT !.pc = "turn", !.hand = None]) /\ UNCHANGED ctrls
      ELSE /\ Step(e, [exec[e] EXCEPT !.pc = "correct", !.hand = Head(q)])
           /\ ctrls' = [ctrls EXCEPT ![exec[e].ctrl].queue = Tail(q)]

\* A wait that sleeps once and does not look at the flag again.
WakeUpAnyway(e) ==
  /\ exec[e].pc = "wait"
  /\ IF Ctrl(e).cancelled THEN Goto(e, "cancel") /\ UNCHANGED ctrls
     ELSE NextRedirect(e)
  /\ UNCHANGED <<db, up, current, reqs, history>>

\* A wait that looks at the pause flag only.
WakeUpUnpaused(e) ==
  /\ exec[e].pc = "wait"
  /\ ~Ctrl(e).paused
  /\ IF Ctrl(e).cancelled THEN Goto(e, "cancel") /\ UNCHANGED ctrls
     ELSE NextRedirect(e)
  /\ UNCHANGED <<db, up, current, reqs, history>>

\* waitWhilePaused returns, and cancellation is looked at once more.
WakeUp(e) ==
  /\ exec[e].pc = "wait"
  /\ Ctrl(e).paused => Ctrl(e).cancelled
  /\ IF Ctrl(e).cancelled THEN Goto(e, "cancel") /\ UNCHANGED ctrls
     ELSE NextRedirect(e)
  /\ UNCHANGED <<db, up, current, reqs, history>>

\* if instead of while: one redirect for each turn.
MarkRedirectedOnce(e) ==
  /\ exec[e].pc = "correct"
  /\ row' = [row EXCEPT ![exec[e].hand] = "REDIRECTED"]
  /\ Step(e, [exec[e] EXCEPT !.pc = "turn", !.hand = None])
  /\ UNCHANGED <<status, up, current, ctrls, reqs, history>>

\* The redirect has been recorded as used; the queue is looked at again, the
\* flags are not.
MarkRedirected(e) ==
  /\ exec[e].pc = "correct"
  /\ row' = [row EXCEPT ![exec[e].hand] = "REDIRECTED"]
  /\ NextRedirect(e)
  /\ UNCHANGED <<status, up, current, reqs, history>>

\* runTask, for one agent, begins ...
BeginTurn(e) ==
  /\ exec[e].pc = "turn"
  /\ Goto(e, "run")
  /\ late' = [late EXCEPT ![e] = IF Stopped(exec[e].ctrl) THEN @ + 1 ELSE 0]
  /\ UNCHANGED <<status, row, up, current, ctrls, reqs, overlapped>>

\* ... and returns, also when the provider threw: the loop goes on.
EndTurn(e) ==
  /\ exec[e].pc = "run"
  /\ Step(e, [exec[e] EXCEPT !.pc = "loop", !.turn = @ + 1])
  /\ UNCHANGED <<status, row, up, current, ctrls, reqs, history>>

\* What follows the session's status, the task row or SESSION_COMPLETED, throws.
EndFails(e) ==
  /\ Goto(e, "failing")
  /\ UNCHANGED <<up, current, ctrls, reqs, history>>

\* The end of a cancelled execution, and of one that went through all agents,
\* which does not look at the flags again.
CancelSession(e) ==
  /\ exec[e].pc = "cancel"
  /\ status' = "CANCELLED"
  /\ UNCHANGED row
  /\ Finish(e) \/ EndFails(e)

CompleteSession(e) ==
  /\ exec[e].pc = "complete"
  /\ status' = "COMPLETED"
  /\ UNCHANGED row
  /\ Finish(e) \/ EndFails(e)

\* Any statement of the execution may throw; the catch clause writes FAILED, on
\* the session only.
Fail(e) ==
  /\ exec[e].pc \notin {"idle", "wait", "failing"}
  /\ Step(e, [exec[e] EXCEPT !.pc = "failing", !.hand = None])
  /\ UNCHANGED <<db, up, current, ctrls, reqs, overlapped, late>>

\* Unless that write throws as well.
WriteFailed(e) ==
  /\ exec[e].pc = "failing"
  /\ status' \in {"FAILED", status}
  /\ UNCHANGED row
  /\ Finish(e)

-----------------------------------------------------------------------------
(* The environment *)

\* The process ends: rows stay, controls, handlers and executions are gone.
Crash ==
  /\ up
  /\ up' = FALSE
  /\ current' = None
  /\ ctrls' = [c \in Ctrls |-> NewCtrl]
  /\ reqs' = [q \in Reqs |-> NoReq]
  /\ exec' = [e \in Execs |-> NoExec]
  /\ late' = [e \in Execs |-> 0]
  /\ overlapped' = FALSE
  /\ UNCHANGED db

Restart == ~up /\ up' = TRUE /\ UNCHANGED <<db, current, ctrls, reqs, exec, history>>

-----------------------------------------------------------------------------
Init ==
  /\ status = "CREATED"
  /\ row = [r \in Redirects |-> "NONE"]
  /\ up = TRUE
  /\ current = None
  /\ ctrls = [c \in Ctrls |-> NewCtrl]
  /\ reqs = [q \in Reqs |-> NoReq]
  /\ exec = [e \in Execs |-> NoExec]
  /\ overlapped = FALSE
  /\ late = [e \in Execs |-> 0]

\* What the event loop does for an execution without anybody's help.
Advance(e) ==
  \/ Loop(e) \/ WakeUp(e) \/ MarkRedirected(e) \/ BeginTurn(e) \/ EndTurn(e)
  \/ CancelSession(e) \/ CompleteSession(e) \/ WriteFailed(e)

Handle(q) ==
  \/ PauseCall(q) \/ CancelCall(q) \/ ResumeCall(q) \/ ResumeAsStart(q)
  \/ DisconnectCall(q) \/ WriteStatus(q) \/ StartFlags(q) \/ StartWrite(q) \/ StoreRedirect(q)
  \/ RejectRequest(q)
  \/ \E r \in Redirects : RedirectCall(q, r)
  \/ \E e \in Execs : StartLaunch(q, e)

Next ==
  \/ \E e \in Execs : Advance(e) \/ Fail(e)
  \/ \E q \in Reqs : Handle(q)
  \/ Crash \/ Restart

Spec == Init /\ [][Next]_vars

\* The database and the model providers answer every call, and the event loop
\* serves every execution that can go on.
Fairness == \A e \in Execs : WF_vars(Advance(e))
FairSpec == Spec /\ Fairness

-----------------------------------------------------------------------------
(* Properties *)

TypeOK ==
  /\ status \in Statuses
  /\ row \in [Redirects -> RowStates]
  /\ up \in BOOLEAN
  /\ current \in Ctrls \cup {None}
  /\ ctrls \in [Ctrls -> [paused : BOOLEAN, cancelled : BOOLEAN, queue : Seq(Redirects)]]
  /\ reqs \in [Reqs -> ReqStates]
  /\ exec \in [Execs -> ExecStates]
  /\ overlapped \in BOOLEAN
  /\ late \in [Execs -> Nat]

\* Pause and cancel reach what runs: as long as no start ran into another one,
\* there is one execution and its control is the one in the map, so that a flag
\* set on the map is a flag the execution looks at.
ControlIsReachable ==
  ~overlapped => \A e \in Execs : Live(e) => /\ exec[e].ctrl = current
                                             /\ \A f \in Execs : Live(f) => f = e

\* After pause or cancel an execution begins at most one more turn, the one whose
\* redirects it was already reading, until a resume or a start lets it go on.
StopsWithinOneTurn ==
  \A e \in Execs : Live(e) /\ Stopped(exec[e].ctrl) => late[e] <= 1

\* A redirect goes into one prompt, once: also when two executions drain the same
\* queue, an execution dies with it, or the server restarts.
RedirectTakenOnce ==
  [][\A e \in Execs, r \in Redirects :
       exec[e].hand # r /\ exec'[e].hand = r
         => row[r] = "SUBMITTED" /\ \A f \in Execs : exec[f].hand # r]_vars

\* A cancelled execution ends, paused or not, however long it had waited.
CancelledExecutionEnds ==
  \A e \in Execs :
    Live(e) /\ Ctrl(e).cancelled ~> ~Live(e) \/ ~Ctrl(e).cancelled

\* The execution will look at the queue once more, unless it is stopped.
WillRead(e) == \/ exec[e].pc \in {"wait", "correct"}
               \/ exec[e].pc = "loop" /\ exec[e].turn < Agents
               \/ exec[e].pc \in {"turn", "run"} /\ exec[e].turn + 1 < Agents

\* A redirect queued while a turn is still to come goes into the prompt of a
\* turn, unless the execution is stopped, fails or dies first: also when several
\* arrive for the same turn.  (In the last turn it is queued in vain.)
QueuedRedirectIsRead ==
  \A e \in Execs, c \in Ctrls, r \in Redirects :
    WillRead(e) /\ exec[e].ctrl = c /\ (\E i \in DOMAIN ctrls[c].queue : ctrls[c].queue[i] = r)
      ~> \/ (\E f \in Execs : exec[f].hand = r)
         \/ Stopped(c) \/ exec[e].pc = "failing" \/ ~up

\* "Resume a paused session without starting a second execution."
ResumeStartsNoSecondExecution ==
  [][\A q \in Reqs, e \in Execs :
       reqs[q].found = "paused" /\ ~Live(e) /\ exec'[e].pc = "loop" /\ reqs'[q] = NoReq
         => \A f \in Execs : ~Live(f)]_vars

\* "Driver disconnect or abandonment pauses the session": an execution that waits
\* for its next turn does not go on while the session is shown as paused and no
\* handler is between two statements.
PausedSessionWaits ==
  [][\A e \in Execs :
       status = "PAUSED" /\ (\A q \in Reqs : reqs[q] = NoReq) /\ exec[e].pc = "wait"
         => exec'[e].pc \notin {"turn", "correct"}]_vars
=============================================================================
