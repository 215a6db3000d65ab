------------------------ MODULE SessionRunnerProofs ------------------------
(***************************************************************************)
(* For every number of agents, of concurrent handlers, executions and      *)
(* redirects: SessionRunner keeps its types, and pause and cancel reach    *)
(* what runs as long as no start overlapped another one.                   *)
(***************************************************************************)
EXTENDS SessionRunner, TLAPS

CtrlStates == [paused : BOOLEAN, cancelled : BOOLEAN, queue : Seq(Redirects)]

-----------------------------------------------------------------------------
(* Types *)

\* A handler's record tells what it keeps.
LEMMA ReqFacts ==
  ASSUME TypeOK, NEW q \in Reqs
  PROVE  /\ reqs[q].op = "redirect" => reqs[q].ctrl \in Ctrls /\ reqs[q].hand \in Redirects
         /\ reqs[q].pc \in {"write", "launch"} /\ reqs[q].op = "start"
              => reqs[q].ctrl \in Ctrls
         /\ reqs[q].pc = "read" => reqs[q].op = "start" /\ reqs[q].ctrl = None
<1>1. reqs[q] \in ReqStates
  BY DEF TypeOK
<1>2. QED
  BY <1>1 DEF ReqStates, NoReq

\* The record of a start that has set the flags.
LEMMA NewStart ==
  \A c \in Ctrls : [NoReq EXCEPT !.op = "start", !.pc = "write", !.ctrl = c]
                     \in [op : {"start"}, pc : {"write", "launch"}, ctrl : Ctrls,
                         hand : {None}, found : {"paused", "other"}]
  BY DEF NoReq

\* So does an execution's.
LEMMA ExecFacts ==
  ASSUME TypeOK, NEW e \in Execs
  PROVE  /\ Live(e) => exec[e].ctrl \in Ctrls
         /\ ~Live(e) => exec[e] = NoExec
         /\ exec[e].turn \in 0 .. Agents
         /\ exec[e].pc \in {"wait", "turn", "run", "correct"} => exec[e].turn \in 0 .. Agents - 1
         /\ exec[e].pc = "correct" => exec[e].hand \in Redirects
         /\ exec[e].pc # "correct" => exec[e].hand = None
<1>1. exec[e] \in ExecStates
  BY DEF TypeOK
<1>2. 0 \in 0 .. Agents /\ 0 .. Agents - 1 \subseteq 0 .. Agents
  BY AgentsAssumption
<1>3. QED
  BY <1>1, <1>2 DEF ExecStates, NoExec, Live

\* A new control and a swept set of controls are controls.
LEMMA CtrlTypes ==
  /\ NewCtrl \in CtrlStates
  /\ \A cs \in [Ctrls -> CtrlStates] : Sweep(cs) => ctrls' \in [Ctrls -> CtrlStates]
<1>1. NewCtrl \in CtrlStates
  BY DEF NewCtrl, CtrlStates
<1>2. QED
  BY <1>1 DEF Sweep

\* The control an execution or a handler gets is one.
LEMMA ControlType == TypeOK => Control \subseteq Ctrls
  BY DEF TypeOK, Control, FreeCtrls

\* Initially everything has its type.
LEMMA InitType == Init => TypeOK
<1> SUFFICES ASSUME Init
             PROVE  TypeOK
  OBVIOUS
<1>1. NewCtrl \in CtrlStates
  BY CtrlTypes
<1>2. ctrls \in [Ctrls -> CtrlStates]
  BY <1>1 DEF Init
<1>3. reqs \in [Reqs -> ReqStates] /\ exec \in [Execs -> ExecStates]
  BY DEF Init, ReqStates, ExecStates
<1>4. QED
  BY <1>2, <1>3 DEF Init, TypeOK, Statuses, RowStates, CtrlStates

\* Every step of a handler keeps the types.
LEMMA HandlerTypeStep ==
  ASSUME TypeOK, NEW q \in Reqs, Handle(q)
  PROVE  TypeOK'
<1> USE DEF TypeOK, db, history, vars
<1>1. ctrls \in [Ctrls -> CtrlStates]
  BY DEF CtrlStates
<1>2. CASE PauseCall(q)
  <2>1. [NoReq EXCEPT !.op = "pause", !.pc = "write"] \in ReqStates
    BY DEF NoReq, ReqStates
  <2>2. ctrls' \in [Ctrls -> CtrlStates]
    BY <1>1, <1>2 DEF PauseCall, CtrlStates
  <2>3. QED
    BY <1>2, <2>1, <2>2 DEF PauseCall, Call, CtrlStates
<1>3. CASE CancelCall(q)
  <2>1. [NoReq EXCEPT !.op = "cancel", !.pc = "write"] \in ReqStates
    BY DEF NoReq, ReqStates
  <2>2. ctrls' \in [Ctrls -> CtrlStates]
    <3>1. CASE current = None
      BY <1>1, <1>3, <3>1 DEF CancelCall
    <3>2. CASE current # None
      <4>1. ctrls' = [ctrls EXCEPT ![current].paused = FALSE, ![current].cancelled = TRUE]
        BY <1>3, <3>2 DEF CancelCall
      <4>2. QED
        BY <1>1, <4>1 DEF CtrlStates
    <3>3. QED
      BY <3>1, <3>2
  <2>3. QED
    BY <1>3, <2>1, <2>2 DEF CancelCall, Call, CtrlStates
<1>4. CASE ResumeCall(q)
  <2>1. [NoReq EXCEPT !.op = "resume", !.pc = "write"] \in ReqStates
    BY DEF NoReq, ReqStates
  <2>2. ctrls' \in [Ctrls -> CtrlStates]
    BY <1>1, <1>4 DEF ResumeCall, CtrlStates
  <2>3. late' \in [Execs -> Nat]
    BY <1>4 DEF ResumeCall, Unstop
  <2>4. QED
    BY <1>4, <2>1, <2>2, <2>3 DEF ResumeCall, Call, CtrlStates
<1>5. CASE ResumeAsStart(q)
  <2>1. [NoReq EXCEPT !.op = "start", !.pc = "read",
                      !.found = IF status = "PAUSED" THEN "paused" ELSE @] \in ReqStates
    BY DEF NoReq, ReqStates
  <2>2. QED
    BY <1>5, <2>1 DEF ResumeAsStart, Call
<1>6. CASE DisconnectCall(q) \/ WriteStatus(q)
  <2>1. [NoReq EXCEPT !.op = "disconnect", !.pc = "write"] \in ReqStates
    BY DEF NoReq, ReqStates
  <2>2. CASE DisconnectCall(q)
    BY <2>1, <2>2 DEF DisconnectCall, Call
  <2>3. CASE WriteStatus(q)
    BY <2>3 DEF WriteStatus, Return, ReqStates, Statuses
  <2>4. QED
    BY <1>6, <2>2, <2>3
<1>7. CASE StartFlags(q)
  <2>1. PICK c \in Control :
          /\ current' = c
          /\ ctrls' = [ctrls EXCEPT ![c].paused = FALSE, ![c].cancelled = FALSE]
          /\ reqs' = [reqs EXCEPT ![q] = [@ EXCEPT !.op = "start", !.pc = "write", !.ctrl = c]]
          /\ Unstop(c)
    BY <1>7 DEF StartFlags
  <2>2. c \in Ctrls
    BY <2>1, ControlType
  <2>3. ctrls' \in [Ctrls -> CtrlStates]
    BY <1>1, <2>1, <2>2 DEF CtrlStates
  <2>4. late' \in [Execs -> Nat]
    BY <2>1 DEF Unstop
  <2>5. [reqs[q] EXCEPT !.op = "start", !.pc = "write", !.ctrl = c] \in ReqStates
    <3>1. CASE reqs[q] = NoReq
      <4>1. [NoReq EXCEPT !.op = "start", !.pc = "write", !.ctrl = c]
              \in [op : {"start"}, pc : {"write", "launch"}, ctrl : Ctrls, hand : {None},
                  found : {"paused", "other"}]
        BY <2>2, NewStart
      <4>2. QED
        BY <3>1, <4>1 DEF ReqStates
    <3>2. CASE reqs[q].pc = "read"
      <4>1. reqs[q] \in [op : {"start"}, pc : {"read"}, ctrl : {None}, hand : {None},
                         found : {"paused", "other"}]
        BY <3>2 DEF ReqStates, NoReq
      <4>2. [reqs[q] EXCEPT !.op = "start", !.pc = "write", !.ctrl = c]
              \in [op : {"start"}, pc : {"write", "launch"}, ctrl : Ctrls, hand : {None},
                  found : {"paused", "other"}]
        BY <2>2, <4>1
      <4>3. QED
        BY <4>2 DEF ReqStates
    <3>3. QED
      BY <1>7, <3>1, <3>2 DEF StartFlags
  <2>6. QED
    BY <1>7, <2>1, <2>2, <2>3, <2>4, <2>5 DEF StartFlags, CtrlStates
<1>8. CASE StartWrite(q)
  <2>1. [reqs[q] EXCEPT !.pc = "launch"] \in ReqStates
    <3>1. reqs[q] \in ReqStates /\ reqs[q].op = "start" /\ reqs[q].pc = "write"
      BY <1>8 DEF StartWrite
    <3>2. QED
      <4>1. reqs[q] \in [op : {"start"}, pc : {"write", "launch"}, ctrl : Ctrls,
                         hand : {None}, found : {"paused", "other"}]
        BY <3>1 DEF ReqStates, NoReq
      <4>2. [reqs[q] EXCEPT !.pc = "launch"]
              \in [op : {"start"}, pc : {"write", "launch"}, ctrl : Ctrls, hand : {None},
                  found : {"paused", "other"}]
        BY <4>1
      <4>3. QED
        BY <4>2 DEF ReqStates
  <2>2. QED
    BY <1>8, <2>1 DEF StartWrite, Statuses
<1>9. ASSUME NEW e \in Execs, StartLaunch(q, e)
      PROVE  TypeOK'
  <2>1. reqs[q].ctrl \in Ctrls
    BY <1>9, ReqFacts DEF StartLaunch
  <2>2. [NoExec EXCEPT !.pc = "loop", !.ctrl = reqs[q].ctrl] \in ExecStates
    <3>1. 0 \in 0 .. Agents
      BY AgentsAssumption
    <3>2. QED
      BY <2>1, <3>1 DEF NoExec, ExecStates
  <2>3. QED
    BY <1>9, <2>2 DEF StartLaunch, Return, ReqStates
<1>10. ASSUME NEW r \in Redirects, RedirectCall(q, r)
       PROVE  TypeOK'
  <2>1. PICK c \in Control :
          /\ Call(q, [NoReq EXCEPT !.op = "redirect", !.pc = "write", !.ctrl = c, !.hand = r])
          /\ current' = c
    BY <1>10 DEF RedirectCall
  <2>2. c \in Ctrls
    BY <2>1, ControlType
  <2>3. [NoReq EXCEPT !.op = "redirect", !.pc = "write", !.ctrl = c, !.hand = r] \in ReqStates
    BY <2>2 DEF NoReq, ReqStates
  <2>4. QED
    BY <1>10, <2>1, <2>2, <2>3 DEF RedirectCall, Call
<1>11. CASE StoreRedirect(q)
  <2>1. reqs[q].ctrl \in Ctrls /\ reqs[q].hand \in Redirects
    BY <1>11, ReqFacts DEF StoreRedirect
  <2>2. Append(ctrls[reqs[q].ctrl].queue, reqs[q].hand) \in Seq(Redirects)
    BY <1>1, <2>1 DEF CtrlStates
  <2>3. [ctrls EXCEPT ![reqs[q].ctrl].queue = Append(@, reqs[q].hand)]
          \in [Ctrls -> CtrlStates]
    BY <1>1, <2>1, <2>2 DEF CtrlStates
  <2>4. ctrls' \in [Ctrls -> CtrlStates]
    BY <1>11, <2>3, CtrlTypes DEF StoreRedirect
  <2>5. QED
    BY <1>11, <2>1, <2>4 DEF StoreRedirect, Return, ReqStates, RowStates, CtrlStates
<1>12. CASE RejectRequest(q)
  <2>1. ctrls' \in [Ctrls -> CtrlStates]
    BY <1>1, <1>12, CtrlTypes DEF RejectRequest
  <2>2. QED
    BY <1>12, <2>1 DEF RejectRequest, Return, ReqStates, CtrlStates
<1>13. QED
  BY <1>2, <1>3, <1>4, <1>5, <1>6, <1>7, <1>8, <1>9, <1>10, <1>11, <1>12 DEF Handle

\* Every step of an execution keeps the types.
LEMMA ExecTypeStep ==
  ASSUME TypeOK, NEW e \in Execs, Advance(e) \/ Fail(e)
  PROVE  TypeOK'
<1> USE DEF TypeOK, db, history, vars
<1>1. ctrls \in [Ctrls -> CtrlStates] /\ exec[e] \in ExecStates
  BY DEF CtrlStates
<1>2. Live(e) /\ exec[e].ctrl \in Ctrls
  <2>1. Live(e)
    BY DEF Advance, Fail, Loop, WakeUp, MarkRedirected, BeginTurn, EndTurn, CancelSession,
           CompleteSession, WriteFailed, Live
  <2>2. QED
    BY <2>1, ExecFacts
<1>3. ASSUME Finish(e), row' = row, status' \in Statuses
      PROVE  TypeOK'
  <2>1. ctrls' \in [Ctrls -> CtrlStates]
    BY <1>1, <1>3, CtrlTypes DEF Finish
  <2>2. QED
    BY <1>3, <2>1 DEF Finish, Step, ExecStates, CtrlStates
<1>4. ASSUME NEW x \in ExecStates, Step(e, x), UNCHANGED <<up, current, reqs, history>>,
             status' \in Statuses, row' \in [Redirects -> RowStates],
             ctrls' \in [Ctrls -> CtrlStates]
      PROVE  TypeOK'
  BY <1>4 DEF Step, CtrlStates
<1>5. ASSUME exec[e].pc \in {"wait", "correct"}, NextRedirect(e)
      PROVE  /\ \E x \in ExecStates : Step(e, x)
             /\ ctrls' \in [Ctrls -> CtrlStates]
  <2>1. Ctrl(e) \in CtrlStates /\ Ctrl(e).queue \in Seq(Redirects)
    BY <1>1, <1>2 DEF Ctrl, CtrlStates
  <2>2. exec[e].turn \in 0 .. Agents - 1
    BY <1>5, ExecFacts
  <2>3. CASE Ctrl(e).queue = <<>>
    <3>1. [exec[e] EXCEPT !.pc = "turn", !.hand = None] \in ExecStates
      BY <1>1, <1>2, <1>5, <2>2 DEF ExecStates, NoExec
    <3>2. QED
      BY <1>1, <1>5, <2>3, <3>1 DEF NextRedirect
  <2>4. CASE Ctrl(e).queue # <<>>
    <3>1. Head(Ctrl(e).queue) \in Redirects /\ Tail(Ctrl(e).queue) \in Seq(Redirects)
      BY <2>1, <2>4
    <3>2. [exec[e] EXCEPT !.pc = "correct", !.hand = Head(Ctrl(e).queue)] \in ExecStates
      BY <1>1, <1>2, <1>5, <2>2, <3>1 DEF ExecStates, NoExec
    <3>3. ctrls' \in [Ctrls -> CtrlStates]
      BY <1>1, <1>2, <1>5, <2>4, <3>1 DEF NextRedirect, CtrlStates
    <3>4. QED
      BY <1>5, <2>4, <3>2, <3>3 DEF NextRedirect
  <2>5. QED
    BY <2>3, <2>4
<1>6. CASE Loop(e)
  <2>1. exec[e].turn \in 0 .. Agents
    BY ExecFacts
  <2>2. exec[e].turn # Agents => exec[e].turn \in 0 .. Agents - 1
    BY <2>1, AgentsAssumption
  <2>3. [exec[e] EXCEPT !.pc = IF Ctrl(e).cancelled THEN "cancel"
                               ELSE IF exec[e].turn = Agents THEN "complete" ELSE "wait"]
          \in ExecStates
    <3>1. exec[e] \in [pc : {"loop", "cancel", "complete", "failing"}, ctrl : Ctrls,
                       turn : 0 .. Agents, hand : {None}]
      BY <1>1, <1>6 DEF Loop, ExecStates, NoExec
    <3>2. \A pc \in {"cancel", "complete"} : [exec[e] EXCEPT !.pc = pc] \in ExecStates
      BY <3>1 DEF ExecStates
    <3>3. exec[e].turn # Agents => [exec[e] EXCEPT !.pc = "wait"]
            \in [pc : {"wait", "turn", "run"}, ctrl : Ctrls, turn : 0 .. Agents - 1, hand : {None}]
      BY <2>2, <3>1
    <3>4. QED
      BY <3>2, <3>3 DEF ExecStates
  <2>4. QED
    BY <1>1, <1>4, <1>6, <2>3 DEF Loop, Goto
<1>7. CASE WakeUp(e)
  <2>1. CASE Ctrl(e).cancelled
    <3>1. [exec[e] EXCEPT !.pc = "cancel"] \in ExecStates
      BY <1>1, <1>2, <1>7, ExecFacts DEF WakeUp, ExecStates, NoExec
    <3>2. QED
      BY <1>1, <1>4, <1>7, <2>1, <3>1 DEF WakeUp, Goto
  <2>2. CASE ~Ctrl(e).cancelled
    BY <1>4, <1>5, <1>7, <2>2 DEF WakeUp
  <2>3. QED
    BY <2>1, <2>2
<1>8. CASE MarkRedirected(e)
  <2>1. exec[e].hand \in Redirects
    BY <1>8, ExecFacts DEF MarkRedirected
  <2>2. row' \in [Redirects -> RowStates]
    BY <1>8, <2>1 DEF MarkRedirected, RowStates
  <2>3. QED
    BY <1>4, <1>5, <1>8, <2>2 DEF MarkRedirected
<1>9. CASE BeginTurn(e)
  <2>1. [exec[e] EXCEPT !.pc = "run"] \in ExecStates
    <3>1. exec[e] \in [pc : {"wait", "turn", "run"}, ctrl : Ctrls, turn : 0 .. Agents - 1,
                       hand : {None}]
      BY <1>1, <1>9 DEF BeginTurn, ExecStates, NoExec
    <3>2. [exec[e] EXCEPT !.pc = "run"]
            \in [pc : {"wait", "turn", "run"}, ctrl : Ctrls, turn : 0 .. Agents - 1, hand : {None}]
      BY <3>1
    <3>3. QED
      BY <3>2 DEF ExecStates
  <2>2. QED
    BY <1>9, <2>1 DEF BeginTurn, Goto, Step
<1>10. CASE EndTurn(e)
  <2>1. exec[e].turn + 1 \in 0 .. Agents /\ exec[e].hand = None
    BY <1>10, ExecFacts, AgentsAssumption DEF EndTurn
  <2>2. [exec[e] EXCEPT !.pc = "loop", !.turn = @ + 1] \in ExecStates
    BY <1>1, <1>2, <1>10, <2>1 DEF EndTurn, ExecStates, NoExec
  <2>3. QED
    BY <1>1, <1>4, <1>10, <2>2 DEF EndTurn
<1>11. CASE CancelSession(e) \/ CompleteSession(e)
  <2>1. CASE Finish(e)
    BY <1>3, <1>11, <2>1 DEF CancelSession, CompleteSession, Statuses
  <2>2. CASE EndFails(e)
    <3>1. [exec[e] EXCEPT !.pc = "failing"] \in ExecStates
      BY <1>1, <1>2, <1>11, ExecFacts DEF CancelSession, CompleteSession, ExecStates, NoExec
    <3>2. QED
      BY <1>1, <1>4, <1>11, <2>2, <3>1 DEF CancelSession, CompleteSession, EndFails, Goto, Statuses
  <2>3. QED
    BY <1>11, <2>1, <2>2 DEF CancelSession, CompleteSession
<1>12. CASE WriteFailed(e)
  BY <1>3, <1>12 DEF WriteFailed, Statuses
<1>13. CASE Fail(e)
  <2>1. exec[e].turn \in 0 .. Agents
    BY ExecFacts
  <2>2. [exec[e] EXCEPT !.pc = "failing", !.hand = None] \in ExecStates
    BY <1>1, <1>2, <2>1 DEF ExecStates, NoExec
  <2>3. QED
    BY <1>1, <1>4, <1>13, <2>2 DEF Fail
<1>14. QED
  BY <1>6, <1>7, <1>8, <1>9, <1>10, <1>11, <1>12, <1>13 DEF Advance

\* Every step keeps the types.
LEMMA TypeStep == TypeOK /\ [Next]_vars => TypeOK'
<1> SUFFICES ASSUME TypeOK, [Next]_vars
             PROVE  TypeOK'
  OBVIOUS
<1>1. ASSUME NEW e \in Execs, Advance(e) \/ Fail(e)
      PROVE  TypeOK'
  BY <1>1, ExecTypeStep
<1>2. ASSUME NEW q \in Reqs, Handle(q)
      PROVE  TypeOK'
  BY <1>2, HandlerTypeStep
<1>3. CASE Crash
  <2>1. ctrls' \in [Ctrls -> CtrlStates]
    BY <1>3, CtrlTypes DEF Crash
  <2>2. QED
    BY <1>3, <2>1 DEF Crash, db, TypeOK, CtrlStates, ReqStates, ExecStates
<1>4. CASE Restart
  BY <1>4 DEF Restart, db, history, TypeOK
<1>5. CASE UNCHANGED vars
  BY <1>5 DEF vars, db, history, TypeOK
<1>6. QED
  BY <1>1, <1>2, <1>3, <1>4, <1>5 DEF Next

\* Every state has its type: an execution or handler at a statement has what the
\* statement uses, a control, a redirect or the number of an agent.
THEOREM RunnerTypeCorrect == Spec => []TypeOK
<1>1. Init => TypeOK
  BY InitType
<1>2. TypeOK /\ [Next]_vars => TypeOK'
  BY TypeStep
<1>3. QED
  BY <1>1, <1>2, PTL DEF Spec

-----------------------------------------------------------------------------
(* Pause and cancel reach what runs *)

\* As long as no start overlapped: one execution, or one start that is about to
\* launch it, and its control is the one in the map.
OneAtATime ==
  ~overlapped =>
    /\ \A e \in Execs : Live(e) => /\ exec[e].ctrl = current
                                   /\ \A f \in Execs : Live(f) => f = e
                                   /\ \A q \in Reqs : ~Starting(q)
    /\ \A q \in Reqs : Starting(q) => /\ reqs[q].ctrl = current
                                      /\ \A p \in Reqs : Starting(p) => p = q

ReachInv == TypeOK /\ OneAtATime

\* What is live or starting keeps its control and no other begins: nothing changes.
LEMMA SameWork ==
  ASSUME OneAtATime, overlapped' = overlapped, current' = current,
         \A e \in Execs : Live(e)' => Live(e) /\ exec'[e].ctrl = exec[e].ctrl,
         \A q \in Reqs : Starting(q)' => Starting(q) /\ reqs'[q].ctrl = reqs[q].ctrl
  PROVE  OneAtATime'
  BY DEF OneAtATime

\* Nothing is live or starting when the map holds no control.
LEMMA NothingRunsWithoutControl ==
  ASSUME ReachInv, ~overlapped, current = None
  PROVE  (\A e \in Execs : ~Live(e)) /\ (\A q \in Reqs : ~Starting(q))
<1>1. None \notin Ctrls
  BY NoneAssumption
<1>2. \A e \in Execs : Live(e) => exec[e].ctrl \in Ctrls
  BY ExecFacts DEF ReachInv
<1>3. \A q \in Reqs : Starting(q) => reqs[q].ctrl \in Ctrls
  BY ReqFacts DEF ReachInv, Starting
<1>4. QED
  BY <1>1, <1>2, <1>3 DEF ReachInv, OneAtATime

\* Every step of a handler keeps it.
LEMMA HandlerReachStep ==
  ASSUME ReachInv, NEW q \in Reqs, Handle(q)
  PROVE  OneAtATime'
<1> USE DEF ReachInv
<1>1. /\ exec \in [Execs -> ExecStates] /\ reqs \in [Reqs -> ReqStates]
  BY DEF TypeOK
<1>2. ASSUME UNCHANGED <<current, exec, overlapped>>, NEW x,
             reqs' = [reqs EXCEPT ![q] = x],
             x.op = "start" => x.pc \notin {"write", "launch"}
      PROVE  OneAtATime'
  BY <1>1, <1>2, SameWork DEF Live, Starting
<1>3. CASE PauseCall(q) \/ CancelCall(q) \/ ResumeCall(q) \/ ResumeAsStart(q) \/ DisconnectCall(q)
  BY <1>2, <1>3 DEF PauseCall, CancelCall, ResumeCall, ResumeAsStart, DisconnectCall, Call, history, NoReq
<1>4. CASE WriteStatus(q) \/ StoreRedirect(q) \/ RejectRequest(q)
  BY <1>2, <1>4 DEF WriteStatus, StoreRedirect, RejectRequest, Return, history, NoReq
<1>5. CASE StartFlags(q)
  <2>1. PICK c \in Control :
          /\ current' = c
          /\ reqs' = [reqs EXCEPT ![q] = [@ EXCEPT !.op = "start", !.pc = "write", !.ctrl = c]]
    BY <1>5 DEF StartFlags
  <2>2. reqs'[q].ctrl = current'
    BY <1>1, <2>1 DEF ReqStates, NoReq
  <2>3. \A p \in Reqs \ {q} : reqs'[p] = reqs[p]
    BY <1>1, <2>1
  <2>4. ~overlapped' => (\A e \in Execs : ~Live(e)) /\ (\A p \in Reqs : ~Starting(p))
    BY <1>5 DEF StartFlags
  <2>5. exec' = exec
    BY <1>5 DEF StartFlags
  <2>6. QED
    BY <2>2, <2>3, <2>4, <2>5 DEF OneAtATime, Live, Starting
<1>6. CASE StartWrite(q)
  <2>1. /\ UNCHANGED <<current, exec, overlapped>>
        /\ Starting(q) /\ reqs' = [reqs EXCEPT ![q].pc = "launch"]
    BY <1>6 DEF StartWrite, history, Starting
  <2>2. reqs'[q].ctrl = reqs[q].ctrl /\ \A p \in Reqs \ {q} : reqs'[p] = reqs[p]
    BY <1>1, <2>1 DEF ReqStates, NoReq
  <2>3. QED
    BY <2>1, <2>2, SameWork DEF Live, Starting
<1>7. ASSUME NEW e \in Execs, StartLaunch(q, e)
      PROVE  OneAtATime'
  <2>1. Starting(q) /\ UNCHANGED <<current, overlapped>>
    BY <1>7 DEF StartLaunch, Starting, history
  <2>2. /\ exec'[e].ctrl = reqs[q].ctrl /\ \A f \in Execs \ {e} : exec'[f] = exec[f]
        /\ ~(Starting(q)') /\ \A p \in Reqs \ {q} : reqs'[p] = reqs[p]
    BY <1>1, <1>7 DEF StartLaunch, Return, NoExec, NoReq, Starting
  <2>3. SUFFICES ASSUME ~overlapped
                 PROVE  OneAtATime'
    BY <2>1 DEF OneAtATime
  <2>4. /\ \A f \in Execs : ~Live(f)
        /\ reqs[q].ctrl = current
        /\ \A p \in Reqs : Starting(p) => p = q
    BY <2>1, <2>3 DEF OneAtATime
  <2>5. QED
    BY <2>1, <2>2, <2>4 DEF OneAtATime, Live, Starting
<1>8. ASSUME NEW r \in Redirects, RedirectCall(q, r)
      PROVE  OneAtATime'
  <2>1. PICK c \in Control :
          /\ reqs' = [reqs EXCEPT ![q] = [NoReq EXCEPT !.op = "redirect", !.pc = "write",
                                                       !.ctrl = c, !.hand = r]]
          /\ current' = c
    BY <1>8 DEF RedirectCall, Call
  <2>2. ~(Starting(q)') /\ \A p \in Reqs \ {q} : reqs'[p] = reqs[p]
    BY <1>1, <2>1 DEF NoReq, Starting
  <2>3. UNCHANGED <<exec, overlapped>>
    BY <1>8 DEF RedirectCall, history
  <2>4. CASE current # None
    BY <2>1, <2>2, <2>3, <2>4, SameWork DEF Control, Live, Starting
  <2>5. CASE current = None
    BY <2>2, <2>3, <2>5, NothingRunsWithoutControl DEF OneAtATime, Live, Starting
  <2>6. QED
    BY <2>4, <2>5
<1>9. QED
  BY <1>3, <1>4, <1>5, <1>6, <1>7, <1>8 DEF Handle

\* Every step of an execution keeps it: an execution that ends was the only one.
LEMMA ExecReachStep ==
  ASSUME ReachInv, NEW e \in Execs, Advance(e) \/ Fail(e)
  PROVE  OneAtATime'
<1> USE DEF ReachInv
<1>1. exec \in [Execs -> ExecStates]
  BY DEF TypeOK
<1>2. Live(e)
  BY DEF Advance, Fail, Loop, WakeUp, MarkRedirected, BeginTurn, EndTurn, CancelSession,
         CompleteSession, WriteFailed, Live
<1>3. ASSUME Finish(e)
      PROVE  OneAtATime'
  <2>1. ~(Live(e)') /\ \A f \in Execs \ {e} : exec'[f] = exec[f]
    BY <1>1, <1>3 DEF Finish, Step, NoExec, Live
  <2>2. reqs' = reqs
    BY <1>3 DEF Finish
  <2>3. SUFFICES ASSUME ~overlapped'
                 PROVE  OneAtATime'
    BY DEF OneAtATime
  <2>4. (\A f \in Execs \ {e} : ~Live(f)) /\ (\A q \in Reqs : ~Starting(q))
    <3>1. CASE overlapped
      BY <1>3, <2>3, <3>1 DEF Finish
    <3>2. CASE ~overlapped
      BY <1>2, <3>2 DEF OneAtATime
    <3>3. QED
      BY <3>1, <3>2
  <2>5. QED
    BY <2>1, <2>2, <2>4 DEF OneAtATime, Live, Starting
<1>4. ASSUME UNCHANGED <<current, reqs, overlapped>>, NEW x, Step(e, x),
             x.ctrl = exec[e].ctrl
      PROVE  OneAtATime'
  BY <1>1, <1>2, <1>4, SameWork DEF Step, Live, Starting
<1>5. ASSUME UNCHANGED <<current, reqs, overlapped>>, NEW pc, Goto(e, pc)
      PROVE  OneAtATime'
  <2>1. [exec[e] EXCEPT !.pc = pc].ctrl = exec[e].ctrl
    BY <1>1 DEF ExecStates, NoExec
  <2>2. QED
    BY <1>4, <1>5, <2>1 DEF Goto
<1>6. ASSUME UNCHANGED <<current, reqs, overlapped>>, NextRedirect(e)
      PROVE  OneAtATime'
  <2>1. \A pc, h : [exec[e] EXCEPT !.pc = pc, !.hand = h].ctrl = exec[e].ctrl
    BY <1>1 DEF ExecStates, NoExec
  <2>2. QED
    BY <1>4, <1>6, <2>1 DEF NextRedirect
<1>7. CASE Loop(e) \/ BeginTurn(e)
  BY <1>5, <1>7 DEF Loop, BeginTurn, history
<1>8. CASE WakeUp(e) \/ MarkRedirected(e)
  BY <1>5, <1>6, <1>8 DEF WakeUp, MarkRedirected, history
<1>9. CASE EndTurn(e)
  <2>1. [exec[e] EXCEPT !.pc = "loop", !.turn = @ + 1].ctrl = exec[e].ctrl
    BY <1>1 DEF ExecStates, NoExec
  <2>2. QED
    BY <1>4, <1>9, <2>1 DEF EndTurn, history
<1>10. CASE Fail(e)
  <2>1. [exec[e] EXCEPT !.pc = "failing", !.hand = None].ctrl = exec[e].ctrl
    BY <1>1 DEF ExecStates, NoExec
  <2>2. QED
    BY <1>4, <1>10, <2>1 DEF Fail
<1>11. CASE WriteFailed(e)
  BY <1>3, <1>11 DEF WriteFailed
<1>12. CASE CancelSession(e) \/ CompleteSession(e)
  BY <1>3, <1>5, <1>12 DEF CancelSession, CompleteSession, EndFails, history
<1>13. QED
  BY <1>7, <1>8, <1>9, <1>10, <1>11, <1>12 DEF Advance

\* Pause and cancel reach what runs: an execution that no start overlapped is the
\* only one and looks at the control in the map, whoever paused, resumed,
\* cancelled, redirected or restarted what in between.
THEOREM RunnerIsReachable == Spec => []ControlIsReachable
<1>1. Init => ReachInv
  <2>1. Init => OneAtATime
    BY DEF Init, OneAtATime, Live, Starting, NoExec, NoReq
  <2>2. QED
    BY <2>1, InitType DEF ReachInv
<1>2. ReachInv /\ [Next]_vars => ReachInv'
  <2> SUFFICES ASSUME ReachInv, [Next]_vars
               PROVE  OneAtATime'
    BY TypeStep DEF ReachInv
  <2>1. ASSUME NEW e \in Execs, Advance(e) \/ Fail(e)
        PROVE  OneAtATime'
    BY <2>1, ExecReachStep
  <2>2. ASSUME NEW q \in Reqs, Handle(q)
        PROVE  OneAtATime'
    BY <2>2, HandlerReachStep
  <2>3. CASE Crash
    BY <2>3 DEF Crash, OneAtATime, Live, Starting, NoExec, NoReq
  <2>4. CASE Restart \/ UNCHANGED vars
    BY <2>4, SameWork DEF Restart, vars, history, ReachInv, Live, Starting
  <2>5. QED
    BY <2>1, <2>2, <2>3, <2>4 DEF Next
<1>3. ReachInv => ControlIsReachable
  BY DEF ReachInv, OneAtATime, ControlIsReachable
<1>4. QED
  BY <1>1, <1>2, <1>3, PTL DEF Spec

-----------------------------------------------------------------------------
(* A redirect goes into one prompt *)

\* r is the i-th redirect that waits in c.
At(c, i, r) == i \in DOMAIN ctrls[c].queue /\ ctrls[c].queue[i] = r

\* A redirect is in one place, and its row says in which kind of place: in the
\* hand of the handler that will store it, in one queue, or in the hand of the
\* execution that took it.
OnePlace ==
  /\ \A q \in Reqs, r \in Redirects : reqs[q].hand = r =>
       row[r] = "NONE" /\ \A p \in Reqs : reqs[p].hand = r => p = q
  /\ \A c \in Ctrls, i \in Nat, r \in Redirects : At(c, i, r) =>
       row[r] = "SUBMITTED" /\ \A d \in Ctrls, j \in Nat : At(d, j, r) => d = c /\ j = i
  /\ \A e \in Execs, r \in Redirects : exec[e].hand = r =>
       /\ row[r] = "SUBMITTED"
       /\ \A f \in Execs : exec[f].hand = r => f = e
       /\ \A c \in Ctrls, i \in Nat : ~At(c, i, r)

PlaceInv == TypeOK /\ OnePlace

\* No place gains a redirect, no row changes.
Quiet ==
  /\ row' = row
  /\ \A q \in Reqs : reqs'[q].hand \in {reqs[q].hand, None}
  /\ \A e \in Execs : exec'[e].hand \in {exec[e].hand, None}
  /\ \A c \in Ctrls, i \in Nat, r \in Redirects : At(c, i, r)' => At(c, i, r)

LEMMA QuietStep == OnePlace /\ Quiet => OnePlace'
<1>1. None \notin Redirects
  BY NoneAssumption
<1>2. QED
  BY <1>1 DEF OnePlace, Quiet

\* A control whose queue is the old one or empty gains nothing.
LEMMA SameOrEmpty ==
  ASSUME \A c \in Ctrls : ctrls'[c].queue = ctrls[c].queue \/ ctrls'[c].queue = <<>>
  PROVE  \A c \in Ctrls, i \in Nat, r \in Redirects : At(c, i, r)' => At(c, i, r)
<1>1. DOMAIN <<>> = {}
  OBVIOUS
<1>2. QED
  BY <1>1 DEF At

LEMMA SweepQueues ==
  ASSUME NEW cs, Sweep(cs)
  PROVE  \A c \in Ctrls : ctrls'[c].queue = cs[c].queue \/ ctrls'[c].queue = <<>>
  BY DEF Sweep, NewCtrl

\* What is in a queue after an append.
LEMMA AppendPlaces ==
  ASSUME TypeOK, NEW c \in Ctrls, NEW r \in Redirects,
         \A d \in Ctrls : \/ ctrls'[d].queue = [ctrls EXCEPT ![c].queue = Append(@, r)][d].queue
                          \/ ctrls'[d].queue = <<>>
  PROVE  \A d \in Ctrls, j \in Nat, x \in Redirects :
           At(d, j, x)' => At(d, j, x) \/ (d = c /\ x = r /\ j = Len(ctrls[c].queue) + 1)
<1> SUFFICES ASSUME NEW d \in Ctrls, NEW j \in Nat, NEW x \in Redirects, At(d, j, x)'
             PROVE  At(d, j, x) \/ (d = c /\ x = r /\ j = Len(ctrls[c].queue) + 1)
  OBVIOUS
<1>1. ctrls'[d].queue # <<>>
  <2>1. DOMAIN <<>> = {}
    OBVIOUS
  <2>2. QED
    BY <2>1 DEF At
<1>2. ctrls[c].queue \in Seq(Redirects)
  BY DEF TypeOK
<1>3. CASE d = c
  <2>1. ctrls'[c].queue = Append(ctrls[c].queue, r)
    BY <1>1, <1>3 DEF TypeOK
  <2>2. QED
    BY <1>2, <1>3, <2>1 DEF At
<1>4. CASE d # c
  <2>1. ctrls'[d].queue = ctrls[d].queue
    BY <1>1, <1>4 DEF TypeOK
  <2>2. QED
    BY <2>1 DEF At
<1>5. QED
  BY <1>3, <1>4

\* What is in a queue when its head has been taken.
LEMMA TailPlaces ==
  ASSUME TypeOK, NEW c \in Ctrls, ctrls[c].queue # <<>>,
         ctrls' = [ctrls EXCEPT ![c].queue = Tail(ctrls[c].queue)]
  PROVE  /\ At(c, 1, Head(ctrls[c].queue))
         /\ Head(ctrls[c].queue) \in Redirects
         /\ \A d \in Ctrls, j \in Nat, x \in Redirects :
              At(d, j, x)' => IF d = c THEN j # 0 /\ At(c, j + 1, x) ELSE At(d, j, x)
<1>1. ctrls[c].queue \in Seq(Redirects)
  BY DEF TypeOK
<1>2. ctrls'[c].queue = Tail(ctrls[c].queue)
      /\ \A d \in Ctrls \ {c} : ctrls'[d].queue = ctrls[d].queue
  BY DEF TypeOK
<1>3. At(c, 1, Head(ctrls[c].queue)) /\ Head(ctrls[c].queue) \in Redirects
  BY <1>1 DEF At
<1>4. ASSUME NEW j \in Nat, NEW x \in Redirects, At(c, j, x)'
      PROVE  j # 0 /\ At(c, j + 1, x)
  <2> DEFINE s == ctrls[c].queue
  <2>1. s \in Seq(Redirects) /\ s # <<>>
    BY <1>1
  <2>2. j \in DOMAIN Tail(s) /\ Tail(s)[j] = x
    BY <1>2, <1>4 DEF At
  <2>3. j # 0 /\ j + 1 \in DOMAIN s /\ s[j + 1] = x
    <3> HIDE DEF s
    <3>1. QED
      BY <2>1, <2>2
  <2>4. QED
    BY <2>3 DEF At
<1>5. ASSUME NEW d \in Ctrls \ {c}, NEW j \in Nat, NEW x \in Redirects, At(d, j, x)'
      PROVE  At(d, j, x)
  BY <1>2, <1>5 DEF At
<1>6. QED
  BY <1>3, <1>4, <1>5

\* Every step of a handler keeps each redirect in one place.
LEMMA HandlerPlaceStep ==
  ASSUME PlaceInv, NEW q \in Reqs, Handle(q)
  PROVE  OnePlace'
<1> USE DEF PlaceInv
<1>1. /\ exec \in [Execs -> ExecStates] /\ reqs \in [Reqs -> ReqStates]
      /\ None \notin Redirects
  BY NoneAssumption DEF TypeOK
<1>2. ASSUME UNCHANGED <<row, exec>>, NEW x, reqs' = [reqs EXCEPT ![q] = x],
             x.hand \in {reqs[q].hand, None},
             \A c \in Ctrls : ctrls'[c].queue = ctrls[c].queue \/ ctrls'[c].queue = <<>>
      PROVE  OnePlace'
  BY <1>1, <1>2, QuietStep, SameOrEmpty DEF Quiet
<1>3. CASE PauseCall(q) \/ CancelCall(q) \/ ResumeCall(q) \/ ResumeAsStart(q) \/ DisconnectCall(q)
  <2>1. \A c \in Ctrls : ctrls'[c].queue = ctrls[c].queue
    BY <1>3 DEF PauseCall, CancelCall, ResumeCall, ResumeAsStart, DisconnectCall, TypeOK
  <2>2. QED
    BY <1>2, <1>3, <2>1
       DEF PauseCall, CancelCall, ResumeCall, ResumeAsStart, DisconnectCall, Call, db, NoReq
<1>4. CASE WriteStatus(q)
  BY <1>2, <1>4 DEF WriteStatus, Return, NoReq
<1>5. CASE RejectRequest(q)
  BY <1>2, <1>5, SweepQueues DEF RejectRequest, Return, db, NoReq
<1>6. CASE StartFlags(q)
  <2>1. PICK c \in Control :
          /\ ctrls' = [ctrls EXCEPT ![c].paused = FALSE, ![c].cancelled = FALSE]
          /\ reqs' = [reqs EXCEPT ![q] = [@ EXCEPT !.op = "start", !.pc = "write", !.ctrl = c]]
    BY <1>6 DEF StartFlags
  <2>2. \A d \in Ctrls : ctrls'[d].queue = ctrls[d].queue
    BY <2>1 DEF TypeOK
  <2>3. [reqs[q] EXCEPT !.op = "start", !.pc = "write", !.ctrl = c].hand = reqs[q].hand
    BY <1>1 DEF ReqStates, NoReq
  <2>4. reqs' = [reqs EXCEPT ![q] = [reqs[q] EXCEPT !.op = "start", !.pc = "write", !.ctrl = c]]
    BY <2>1
  <2>5. UNCHANGED <<row, exec>>
    BY <1>6 DEF StartFlags, db
  <2>6. QED
    BY <1>2, <2>2, <2>3, <2>4, <2>5
<1>7. CASE StartWrite(q)
  <2>1. [reqs[q] EXCEPT !.pc = "launch"].hand = reqs[q].hand
    BY <1>1 DEF ReqStates, NoReq
  <2>2. QED
    BY <1>2, <1>7, <2>1 DEF StartWrite
<1>8. ASSUME NEW e \in Execs, StartLaunch(q, e)
      PROVE  OnePlace'
  <2>1. row' = row /\ ctrls' = ctrls
    BY <1>8 DEF StartLaunch, db
  <2>2. \A f \in Execs : exec'[f].hand \in {exec[f].hand, None}
    BY <1>1, <1>8 DEF StartLaunch, NoExec
  <2>3. \A p \in Reqs : reqs'[p].hand \in {reqs[p].hand, None}
    BY <1>1, <1>8 DEF StartLaunch, Return, NoReq
  <2>4. QED
    BY <2>1, <2>2, <2>3, QuietStep, SameOrEmpty DEF Quiet
<1>9. ASSUME NEW r \in Redirects, RedirectCall(q, r)
      PROVE  OnePlace'
  <2>1. /\ row[r] = "NONE" /\ (\A p \in Reqs : reqs[p].hand # r)
        /\ row' = row /\ ctrls' = ctrls /\ exec' = exec
    BY <1>9 DEF RedirectCall, db
  <2>2. PICK c \in Control :
          reqs' = [reqs EXCEPT ![q] = [NoReq EXCEPT !.op = "redirect", !.pc = "write",
                                                    !.ctrl = c, !.hand = r]]
    BY <1>9 DEF RedirectCall, Call
  <2>3. reqs'[q].hand = r /\ \A p \in Reqs \ {q} : reqs'[p] = reqs[p]
    BY <1>1, <2>2 DEF NoReq
  <2>4. \A d \in Ctrls, i \in Nat, x \in Redirects : At(d, i, x)' <=> At(d, i, x)
    BY <2>1 DEF At
  <2>5. QED
    BY <2>1, <2>3, <2>4 DEF OnePlace
<1>10. CASE StoreRedirect(q)
  <2> DEFINE r == reqs[q].hand
             c == reqs[q].ctrl
             n == Len(ctrls[c].queue) + 1
  <2>1. c \in Ctrls /\ r \in Redirects
    BY <1>10, ReqFacts DEF StoreRedirect
  <2>2. \A d \in Ctrls, j \in Nat, x \in Redirects :
          At(d, j, x)' => At(d, j, x) \/ (d = c /\ x = r /\ j = n)
    <3>1. Sweep([ctrls EXCEPT ![c].queue = Append(@, r)])
      BY <1>10 DEF StoreRedirect
    <3>2. \A d \in Ctrls :
            \/ ctrls'[d].queue = [ctrls EXCEPT ![c].queue = Append(@, r)][d].queue
            \/ ctrls'[d].queue = <<>>
      BY <3>1, SweepQueues
    <3> HIDE DEF c, r
    <3>3. QED
      BY <2>1, <3>2, AppendPlaces
  <2>3. row[r] = "NONE" /\ \A p \in Reqs : reqs[p].hand = r => p = q
    BY <2>1 DEF OnePlace
  <2>4. \A d \in Ctrls, j \in Nat : ~At(d, j, r)
    BY <2>1, <2>3 DEF OnePlace
  <2>5. row'[r] = "SUBMITTED" /\ \A x \in Redirects \ {r} : row'[x] = row[x]
    BY <1>10, <2>1 DEF StoreRedirect, TypeOK
  <2>6. reqs'[q].hand = None /\ \A p \in Reqs \ {q} : reqs'[p] = reqs[p]
    BY <1>1, <1>10 DEF StoreRedirect, Return, NoReq
  <2>7. exec' = exec /\ \A e \in Execs : exec[e].hand # r
    BY <1>10, <2>1, <2>3 DEF StoreRedirect, OnePlace
  <2> HIDE DEF r, c, n
  <2>8. QED
    BY <1>1, <2>1, <2>2, <2>3, <2>4, <2>5, <2>6, <2>7 DEF OnePlace
<1>11. QED
  BY <1>3, <1>4, <1>5, <1>6, <1>7, <1>8, <1>9, <1>10 DEF Handle

\* What an execution takes from the queue was there, so it is nowhere else.
LEMMA TakePlaces ==
  ASSUME PlaceInv, NEW e \in Execs, Live(e), NextRedirect(e), reqs' = reqs,
         \A r \in Redirects : exec[e].hand # r => row'[r] = row[r]
  PROVE  /\ OnePlace'
         /\ \A r \in Redirects : exec[e].hand # r /\ exec'[e].hand = r
              => row[r] = "SUBMITTED" /\ \A f \in Execs : exec[f].hand # r
<1> USE DEF PlaceInv
<1> DEFINE c == exec[e].ctrl
           s == ctrls[c].queue
<1>1. /\ c \in Ctrls /\ None \notin Redirects
      /\ exec \in [Execs -> ExecStates] /\ exec[e] \in ExecStates
  BY ExecFacts, NoneAssumption DEF TypeOK
<1>2. \A f \in Execs \ {e} : exec'[f] = exec[f]
  BY <1>1 DEF NextRedirect, Step
<1>3. CASE s = <<>>
  <2>1. exec'[e].hand = None /\ ctrls' = ctrls
    BY <1>1, <1>3 DEF NextRedirect, Step, Ctrl, ExecStates, NoExec
  <2>2. \A d \in Ctrls, i \in Nat, x \in Redirects : At(d, i, x)' <=> At(d, i, x)
    BY <2>1 DEF At
  <2>3. QED
    BY <1>1, <1>2, <2>1, <2>2 DEF OnePlace
<1>4. CASE s # <<>>
  <2> DEFINE h == Head(s)
  <2>1. exec'[e].hand = h /\ ctrls' = [ctrls EXCEPT ![c].queue = Tail(s)]
    BY <1>1, <1>4 DEF NextRedirect, Step, Ctrl, ExecStates, NoExec
  <2>2. /\ At(c, 1, h) /\ h \in Redirects
        /\ \A d \in Ctrls, j \in Nat, x \in Redirects :
             At(d, j, x)' => IF d = c THEN j # 0 /\ At(c, j + 1, x) ELSE At(d, j, x)
    BY <1>1, <1>4, <2>1, TailPlaces
  <2> HIDE DEF h, s, c
  <2>3. /\ row[h] = "SUBMITTED"
        /\ \A f \in Execs : exec[f].hand # h
        /\ \A p \in Reqs : reqs[p].hand # h
        /\ \A d \in Ctrls, j \in Nat : At(d, j, h) => d = c /\ j = 1
    BY <1>1, <2>2 DEF OnePlace
  <2>4. \A d \in Ctrls, j \in Nat, x \in Redirects : x = h => ~(At(d, j, x)')
    <3> SUFFICES ASSUME NEW d \in Ctrls, NEW j \in Nat, NEW x \in Redirects, x = h,
                        At(d, j, x)'
                 PROVE  FALSE
      OBVIOUS
    <3>1. d = c
      BY <2>2, <2>3
    <3>2. j # 0 /\ At(c, j + 1, h) /\ j + 1 \in Nat
      BY <2>2, <3>1
    <3>3. j + 1 = 1
      BY <1>1, <2>3, <3>2
    <3>4. QED
      BY <3>2, <3>3
  <2>5. \A q \in Reqs, r \in Redirects : reqs[q].hand = r => exec[e].hand # r
    BY DEF OnePlace
  <2>6. \A d \in Ctrls, i \in Nat, r \in Redirects : At(d, i, r) => exec[e].hand # r
    BY DEF OnePlace
  <2>7. OnePlace'
    <3>1. \A q \in Reqs, r \in Redirects : reqs[q].hand = r =>
            row'[r] = "NONE" /\ \A p \in Reqs : reqs[p].hand = r => p = q
      BY <2>5 DEF OnePlace
    <3>2. \A d \in Ctrls, i \in Nat, r \in Redirects : At(d, i, r)' =>
            row'[r] = "SUBMITTED"
            /\ \A b \in Ctrls, j \in Nat : At(b, j, r)' => b = d /\ j = i
      <4> DEFINE Was(d, i) == IF d = c THEN i + 1 ELSE i
      <4>1. \A d \in Ctrls, i \in Nat, r \in Redirects :
              At(d, i, r)' => Was(d, i) \in Nat /\ At(d, Was(d, i), r)
        BY <2>2
      <4>2. \A d \in Ctrls, i, j \in Nat : Was(d, i) = Was(d, j) => i = j
        OBVIOUS
      <4> HIDE DEF Was
      <4>3. \A d \in Ctrls, i \in Nat, r \in Redirects : At(d, i, r)' => row'[r] = "SUBMITTED"
        BY <2>6, <4>1 DEF OnePlace
      <4>4. ASSUME NEW d \in Ctrls, NEW i \in Nat, NEW r \in Redirects, At(d, i, r)',
                   NEW b \in Ctrls, NEW j \in Nat, At(b, j, r)'
            PROVE  b = d /\ j = i
        <5>1. b = d /\ Was(b, j) = Was(d, i)
          BY <4>1, <4>4 DEF OnePlace
        <5>2. QED
          BY <4>2, <5>1
      <4>5. QED
        BY <4>3, <4>4
    <3>3. \A f \in Execs, r \in Redirects : exec'[f].hand = r =>
            /\ row'[r] = "SUBMITTED"
            /\ \A g \in Execs : exec'[g].hand = r => g = f
            /\ \A d \in Ctrls, i \in Nat : ~(At(d, i, r)')
      <4>1. ASSUME NEW f \in Execs \ {e}, NEW r \in Redirects, exec'[f].hand = r
            PROVE  /\ row'[r] = "SUBMITTED" /\ r # h /\ exec[e].hand # r
                   /\ \A d \in Ctrls, i \in Nat : ~(At(d, i, r)')
        BY <1>1, <1>2, <2>2, <2>3, <4>1 DEF OnePlace
      <4>2. \A f, g \in Execs \ {e}, r \in Redirects :
              exec'[f].hand = r /\ exec'[g].hand = r => f = g
        BY <1>2 DEF OnePlace
      <4>3. row'[h] = "SUBMITTED"
        BY <2>2, <2>3
      <4>4. ASSUME NEW r \in Redirects, exec'[e].hand = r
            PROVE  /\ r = h /\ row'[r] = "SUBMITTED"
                   /\ \A d \in Ctrls, i \in Nat : ~(At(d, i, r)')
        <5>1. r = h
          BY <2>1, <4>4
        <5>2. QED
          BY <2>4, <4>3, <5>1
      <4>5. QED
        BY <4>1, <4>2, <4>4
    <3>4. QED
      BY <3>1, <3>2, <3>3 DEF OnePlace
  <2>8. QED
    BY <2>1, <2>3, <2>7
<1>5. QED
  BY <1>3, <1>4

\* What the theorem says of one step.
TakenOnce ==
  \A e \in Execs, r \in Redirects :
    exec[e].hand # r /\ exec'[e].hand = r
      => row[r] = "SUBMITTED" /\ \A f \in Execs : exec[f].hand # r

\* A step after which no execution holds a redirect it did not hold.
LEMMA NothingTaken ==
  (\A e \in Execs : exec'[e].hand \in {exec[e].hand, None}) => TakenOnce
  BY NoneAssumption DEF TakenOnce

\* Every step of an execution keeps each redirect in one place, and takes only
\* what nothing has taken.
LEMMA ExecPlaceStep ==
  ASSUME PlaceInv, NEW e \in Execs, Advance(e) \/ Fail(e)
  PROVE  OnePlace' /\ TakenOnce
<1> USE DEF PlaceInv
<1>1. exec \in [Execs -> ExecStates] /\ None \notin Redirects
  BY NoneAssumption DEF TypeOK
<1>2. ASSUME row' = row, reqs' = reqs, NEW x, Step(e, x), x.hand \in {exec[e].hand, None},
             \A c \in Ctrls : ctrls'[c].queue = ctrls[c].queue \/ ctrls'[c].queue = <<>>
      PROVE  OnePlace' /\ TakenOnce
  BY <1>1, <1>2, QuietStep, SameOrEmpty, NothingTaken DEF Quiet, Step
<1>3. ASSUME row' = row, Finish(e)
      PROVE  OnePlace' /\ TakenOnce
  BY <1>2, <1>3, SweepQueues DEF Finish, NoExec
<1>4. ASSUME row' = row, reqs' = reqs, ctrls' = ctrls, NEW pc, Goto(e, pc)
      PROVE  OnePlace' /\ TakenOnce
  <2>1. [exec[e] EXCEPT !.pc = pc].hand = exec[e].hand
    BY <1>1 DEF ExecStates, NoExec
  <2>2. QED
    BY <1>2, <1>4, <2>1 DEF Goto
<1>5. ASSUME NextRedirect(e), Live(e), reqs' = reqs,
             \A r \in Redirects : exec[e].hand # r => row'[r] = row[r]
      PROVE  OnePlace' /\ TakenOnce
  <2>1. /\ OnePlace'
        /\ \A r \in Redirects : exec[e].hand # r /\ exec'[e].hand = r
             => row[r] = "SUBMITTED" /\ \A f \in Execs : exec[f].hand # r
    BY <1>5, TakePlaces
  <2>2. \A f \in Execs \ {e} : exec'[f] = exec[f]
    BY <1>1, <1>5 DEF NextRedirect, Step
  <2>3. QED
    BY <2>1, <2>2 DEF TakenOnce
<1>6. CASE Loop(e) \/ BeginTurn(e)
  BY <1>4, <1>6 DEF Loop, BeginTurn, db
<1>7. CASE WakeUp(e)
  <2>1. row' = row /\ reqs' = reqs /\ Live(e)
    BY <1>7 DEF WakeUp, db, Live
  <2>2. QED
    BY <1>4, <1>5, <1>7, <2>1 DEF WakeUp
<1>8. CASE MarkRedirected(e)
  <2>1. /\ \A r \in Redirects : exec[e].hand # r => row'[r] = row[r]
        /\ reqs' = reqs /\ Live(e)
    BY <1>8 DEF MarkRedirected, Live, TypeOK
  <2>2. QED
    BY <1>5, <1>8, <2>1 DEF MarkRedirected
<1>9. CASE EndTurn(e)
  <2>1. [exec[e] EXCEPT !.pc = "loop", !.turn = @ + 1].hand = exec[e].hand
    BY <1>1 DEF ExecStates, NoExec
  <2>2. Step(e, [exec[e] EXCEPT !.pc = "loop", !.turn = @ + 1])
        /\ UNCHANGED <<row, ctrls, reqs>>
    BY <1>9 DEF EndTurn
  <2>3. QED
    BY <1>2, <2>1, <2>2
<1>10. CASE Fail(e)
  <2>1. [exec[e] EXCEPT !.pc = "failing", !.hand = None].hand = None
    BY <1>1 DEF ExecStates, NoExec
  <2>2. QED
    BY <1>2, <1>10, <2>1 DEF Fail, db
<1>11. CASE WriteFailed(e)
  BY <1>3, <1>11 DEF WriteFailed
<1>12. CASE CancelSession(e) \/ CompleteSession(e)
  BY <1>3, <1>4, <1>12 DEF CancelSession, CompleteSession, EndFails
<1>13. QED
  BY <1>6, <1>7, <1>8, <1>9, <1>10, <1>11, <1>12 DEF Advance

\* Every step keeps each redirect in one place, and takes only what nothing took.
LEMMA PlaceStep ==
  ASSUME PlaceInv, [Next]_vars
  PROVE  OnePlace' /\ TakenOnce
<1> USE DEF PlaceInv
<1>1. ASSUME NEW e \in Execs, Advance(e) \/ Fail(e)
      PROVE  OnePlace' /\ TakenOnce
  BY <1>1, ExecPlaceStep
<1>2. ASSUME NEW q \in Reqs, Handle(q)
      PROVE  OnePlace' /\ TakenOnce
  <2>1. \A e \in Execs : exec'[e].hand \in {exec[e].hand, None}
    <3>1. CASE exec' = exec
      BY <3>1
    <3>2. ASSUME NEW e \in Execs, StartLaunch(q, e)
          PROVE  \A f \in Execs : exec'[f].hand \in {exec[f].hand, None}
      BY <3>2 DEF StartLaunch, NoExec, TypeOK
    <3>3. QED
      BY <1>2, <3>1, <3>2
         DEF Handle, PauseCall, CancelCall, ResumeCall, ResumeAsStart, DisconnectCall, WriteStatus, StartFlags,
             StartWrite, StoreRedirect, RejectRequest, RedirectCall
  <2>2. QED
    BY <1>2, <2>1, HandlerPlaceStep, NothingTaken
<1>3. CASE Crash
  <2>1. /\ row' = row
        /\ \A q \in Reqs : reqs'[q].hand = None
        /\ \A e \in Execs : exec'[e].hand = None
        /\ \A c \in Ctrls : ctrls'[c].queue = <<>>
    BY <1>3 DEF Crash, db, NoReq, NoExec, NewCtrl
  <2>2. QED
    BY <2>1, QuietStep, SameOrEmpty, NothingTaken DEF Quiet
<1>4. CASE Restart \/ UNCHANGED vars
  <2>1. UNCHANGED <<row, reqs, exec, ctrls>>
    BY <1>4 DEF Restart, vars, db
  <2>2. QED
    BY <2>1, QuietStep, SameOrEmpty, NothingTaken DEF Quiet
<1>5. QED
  BY <1>1, <1>2, <1>3, <1>4 DEF Next

\* A redirect goes into one prompt, once: what an execution takes from the queue
\* was stored and not recorded as used, and no execution holds it, however many
\* executions, controls and handlers there are and whenever the server restarted.
THEOREM RunnerTakesOnce == Spec => RedirectTakenOnce
<1>1. Init => PlaceInv
  <2>1. Init => OnePlace
    <3> SUFFICES ASSUME Init
                 PROVE  OnePlace
      OBVIOUS
    <3>1. DOMAIN <<>> = {} /\ None \notin Redirects
      BY NoneAssumption
    <3>2. \A c \in Ctrls, i \in Nat, r \in Redirects : ~At(c, i, r)
      BY <3>1 DEF Init, At, NewCtrl
    <3>3. QED
      BY <3>1, <3>2 DEF Init, OnePlace, NoReq, NoExec
  <2>2. QED
    BY <2>1, InitType DEF PlaceInv
<1>2. PlaceInv /\ [Next]_vars => PlaceInv'
  BY PlaceStep, TypeStep DEF PlaceInv
<1>3. PlaceInv /\ [Next]_vars
      => [\A e \in Execs, r \in Redirects :
            exec[e].hand # r /\ exec'[e].hand = r
              => row[r] = "SUBMITTED" /\ \A f \in Execs : exec[f].hand # r]_vars
  BY PlaceStep DEF TakenOnce
<1>4. QED
  BY <1>1, <1>2, <1>3, PTL DEF Spec, RedirectTakenOnce

-----------------------------------------------------------------------------
(* A stopped execution begins one more turn at most *)

\* A turn is counted only while the control is stopped, and after one the
\* execution is not on its way into the next.
CountedTurns ==
  \A e \in Execs :
    /\ late[e] \in {0, 1}
    /\ late[e] = 1 => /\ Live(e)
                      /\ Stopped(exec[e].ctrl)
                      /\ exec[e].pc \notin {"turn", "correct"}

StopInv == TypeOK /\ CountedTurns

\* Who keeps its control and its count keeps both as long as the control stays
\* stopped, or the count restarts.
LEMMA SameCount ==
  ASSUME CountedTurns,
         \A e \in Execs : \/ late'[e] = 0
                          \/ /\ late'[e] = late[e] /\ exec'[e] = exec[e]
                             /\ late[e] = 1 => Stopped(exec[e].ctrl)'
  PROVE  CountedTurns'
  BY DEF CountedTurns, Live

\* Controls that executions refer to are not swept.
LEMMA SweptStopped ==
  ASSUME TypeOK, NEW cs, Sweep(cs),
         \A c \in Ctrls : cs[c].paused = ctrls[c].paused /\ cs[c].cancelled = ctrls[c].cancelled
  PROVE  \A e \in Execs : exec'[e] = exec[e] /\ Live(e) /\ Stopped(exec[e].ctrl)
           => Stopped(exec[e].ctrl)'
  BY ExecFacts DEF Sweep, Stopped

\* Every step of a handler keeps the count: what takes a control out of its stop
\* restarts the count of its executions.
LEMMA HandlerStopStep ==
  ASSUME StopInv, NEW q \in Reqs, Handle(q)
  PROVE  CountedTurns'
<1> USE DEF StopInv
<1>1. /\ late \in [Execs -> Nat] /\ exec \in [Execs -> ExecStates]
      /\ \A e \in Execs : Live(e) => exec[e].ctrl \in Ctrls
  BY ExecFacts DEF TypeOK
<1>2. CASE PauseCall(q) \/ CancelCall(q)
  <2>1. UNCHANGED <<exec, late>>
    BY <1>2 DEF PauseCall, CancelCall, history
  <2>2. \A c \in Ctrls : Stopped(c) => Stopped(c)'
    BY <1>2 DEF PauseCall, CancelCall, Stopped, TypeOK
  <2>3. QED
    BY <1>1, <2>1, <2>2, SameCount DEF CountedTurns
<1>3. CASE ResumeCall(q)
  <2>1. exec' = exec /\ ctrls' = [ctrls EXCEPT ![current].paused = FALSE]
    BY <1>3 DEF ResumeCall
  <2>2. CASE ctrls[current].cancelled
    <3>1. late' = late
      BY <1>3, <2>2 DEF ResumeCall
    <3>2. \A c \in Ctrls : Stopped(c) => Stopped(c)'
      BY <2>1, <2>2 DEF Stopped, TypeOK
    <3>3. QED
      BY <1>1, <2>1, <3>1, <3>2, SameCount DEF CountedTurns
  <2>3. CASE ~ctrls[current].cancelled
    <3>1. \A e \in Execs : late'[e] = IF exec[e].ctrl = current THEN 0 ELSE late[e]
      BY <1>3, <2>3 DEF ResumeCall, Unstop
    <3>2. \A c \in Ctrls : c # current /\ Stopped(c) => Stopped(c)'
      BY <2>1 DEF Stopped, TypeOK
    <3>3. QED
      BY <1>1, <2>1, <3>1, <3>2, SameCount DEF CountedTurns
  <2>4. QED
    BY <2>2, <2>3
<1>4. CASE StartFlags(q)
  <2>1. PICK c \in Control :
          /\ ctrls' = [ctrls EXCEPT ![c].paused = FALSE, ![c].cancelled = FALSE]
          /\ Unstop(c)
    BY <1>4 DEF StartFlags
  <2>2. \A e \in Execs : late'[e] = IF exec[e].ctrl = c THEN 0 ELSE late[e]
    BY <2>1 DEF Unstop
  <2>3. \A d \in Ctrls : d # c /\ Stopped(d) => Stopped(d)'
    BY <2>1 DEF Stopped, TypeOK
  <2>4. exec' = exec
    BY <1>4 DEF StartFlags
  <2>5. QED
    BY <1>1, <2>2, <2>3, <2>4, SameCount DEF CountedTurns
<1>5. ASSUME NEW e \in Execs, StartLaunch(q, e)
      PROVE  CountedTurns'
  <2>1. late' = late /\ ctrls' = ctrls /\ \A f \in Execs \ {e} : exec'[f] = exec[f]
    BY <1>1, <1>5 DEF StartLaunch, history
  <2>2. late[e] = 0
    BY <1>5 DEF StartLaunch, CountedTurns
  <2>3. QED
    BY <2>1, <2>2, SameCount DEF CountedTurns, Stopped
<1>6. CASE StoreRedirect(q)
  <2>1. UNCHANGED <<exec, late>>
        /\ Sweep([ctrls EXCEPT ![reqs[q].ctrl].queue = Append(@, reqs[q].hand)])
    BY <1>6 DEF StoreRedirect, history
  <2>2. \A c \in Ctrls :
          LET d == [ctrls EXCEPT ![reqs[q].ctrl].queue = Append(@, reqs[q].hand)][c]
          IN  d.paused = ctrls[c].paused /\ d.cancelled = ctrls[c].cancelled
    BY DEF TypeOK
  <2>3. QED
    BY <2>1, <2>2, SweptStopped, SameCount DEF CountedTurns
<1>7. CASE RejectRequest(q)
  BY <1>7, SweptStopped, SameCount DEF RejectRequest, CountedTurns
<1>8. CASE \/ ResumeAsStart(q) \/ DisconnectCall(q) \/ WriteStatus(q) \/ StartWrite(q)
           \/ \E r \in Redirects : RedirectCall(q, r)
  <2>1. UNCHANGED <<ctrls, exec, late>>
    BY <1>8 DEF ResumeAsStart, DisconnectCall, WriteStatus, StartWrite, RedirectCall, history
  <2>2. QED
    BY <2>1, SameCount DEF CountedTurns, Stopped
<1>9. QED
  BY <1>2, <1>3, <1>4, <1>5, <1>6, <1>7, <1>8 DEF Handle

\* Every step of an execution keeps the count.
LEMMA ExecStopStep ==
  ASSUME StopInv, NEW e \in Execs, Advance(e) \/ Fail(e)
  PROVE  CountedTurns'
<1> USE DEF StopInv
<1>1. /\ late \in [Execs -> Nat] /\ exec \in [Execs -> ExecStates]
      /\ Live(e) => exec[e].ctrl \in Ctrls
  BY ExecFacts DEF TypeOK
<1>2. ASSUME NEW x, Step(e, x), late' = late, x.ctrl = exec[e].ctrl, x.pc # "idle",
             x.pc \in {"turn", "correct"} => late[e] = 0,
             \A c \in Ctrls : Stopped(c) => Stopped(c)'
      PROVE  CountedTurns'
  <2>1. exec'[e] = x /\ \A f \in Execs \ {e} : exec'[f] = exec[f]
    BY <1>1, <1>2 DEF Step
  <2>2. \A f \in Execs : Live(f) => exec[f].ctrl \in Ctrls
    BY ExecFacts
  <2>3. QED
    BY <1>2, <2>1, <2>2 DEF CountedTurns, Live
<1>3. ASSUME Finish(e)
      PROVE  CountedTurns'
  <2>1. late'[e] = 0 /\ \A f \in Execs \ {e} : exec'[f] = exec[f] /\ late'[f] = late[f]
    BY <1>1, <1>3 DEF Finish, Step
  <2>2. QED
    BY <1>3, <2>1, SweptStopped, SameCount DEF Finish, CountedTurns
<1>4. ASSUME NEW pc \in {"wait", "cancel", "complete", "failing"}, Goto(e, pc),
             ctrls' = ctrls, late' = late
      PROVE  CountedTurns'
  <2>1. [exec[e] EXCEPT !.pc = pc].ctrl = exec[e].ctrl /\ [exec[e] EXCEPT !.pc = pc].pc = pc
    BY <1>1 DEF ExecStates, NoExec
  <2>2. QED
    BY <1>2, <1>4, <2>1 DEF Goto, Stopped
<1>5. ASSUME NextRedirect(e), late' = late, late[e] = 0
      PROVE  CountedTurns'
  <2>1. \A pc, h : /\ [exec[e] EXCEPT !.pc = pc, !.hand = h].ctrl = exec[e].ctrl
                   /\ [exec[e] EXCEPT !.pc = pc, !.hand = h].pc = pc
    BY <1>1 DEF ExecStates, NoExec
  <2>2. \A c \in Ctrls : Stopped(c) => Stopped(c)'
    <3>1. ASSUME NEW d, ctrls' = [ctrls EXCEPT ![d].queue = Tail(ctrls[d].queue)]
          PROVE  \A c \in Ctrls : Stopped(c) => Stopped(c)'
      BY <3>1 DEF Stopped, TypeOK
    <3>2. CASE ctrls' = ctrls
      BY <3>2 DEF Stopped
    <3>3. QED
      BY <1>5, <3>1, <3>2 DEF NextRedirect, Ctrl
  <2>3. \E pc \in {"turn", "correct"} : \E h :
          Step(e, [exec[e] EXCEPT !.pc = pc, !.hand = h])
    BY <1>5 DEF NextRedirect
  <2>4. QED
    BY <1>2, <1>5, <2>1, <2>2, <2>3
<1>6. CASE Loop(e)
  BY <1>4, <1>6 DEF Loop, history
<1>7. CASE WakeUp(e)
  <2>1. CASE Ctrl(e).cancelled
    BY <1>4, <1>7, <2>1 DEF WakeUp, history
  <2>2. CASE ~Ctrl(e).cancelled
    <3>1. ~Stopped(exec[e].ctrl)
      BY <1>7, <2>2 DEF WakeUp, Ctrl, Stopped
    <3>2. late[e] = 0
      BY <3>1 DEF CountedTurns
    <3>3. QED
      BY <1>5, <1>7, <2>2, <3>2 DEF WakeUp, history
  <2>3. QED
    BY <2>1, <2>2
<1>8. CASE MarkRedirected(e)
  <2>1. late[e] = 0
    BY <1>8 DEF MarkRedirected, CountedTurns
  <2>2. QED
    BY <1>5, <1>8, <2>1 DEF MarkRedirected, history
<1>9. CASE BeginTurn(e)
  <2>1. /\ exec'[e].pc = "run" /\ exec'[e].ctrl = exec[e].ctrl
        /\ ctrls' = ctrls /\ \A f \in Execs \ {e} : exec'[f] = exec[f]
    BY <1>1, <1>9 DEF BeginTurn, Goto, Step, ExecStates, NoExec
  <2>2. late[e] = 0
    BY <1>9 DEF BeginTurn, CountedTurns
  <2>3. /\ late'[e] = IF Stopped(exec[e].ctrl) THEN 1 ELSE 0
        /\ \A f \in Execs \ {e} : late'[f] = late[f]
    BY <1>1, <1>9, <2>2 DEF BeginTurn
  <2>4. QED
    BY <2>1, <2>3 DEF CountedTurns, Live, Stopped
<1>10. CASE EndTurn(e)
  <2>1. /\ [exec[e] EXCEPT !.pc = "loop", !.turn = @ + 1].ctrl = exec[e].ctrl
        /\ [exec[e] EXCEPT !.pc = "loop", !.turn = @ + 1].pc = "loop"
    BY <1>1 DEF ExecStates, NoExec
  <2>2. /\ Step(e, [exec[e] EXCEPT !.pc = "loop", !.turn = @ + 1])
        /\ ctrls' = ctrls /\ late' = late
    BY <1>10 DEF EndTurn, history
  <2>3. QED
    BY <1>2, <2>1, <2>2 DEF Stopped
<1>11. CASE Fail(e)
  <2>1. /\ [exec[e] EXCEPT !.pc = "failing", !.hand = None].ctrl = exec[e].ctrl
        /\ [exec[e] EXCEPT !.pc = "failing", !.hand = None].pc = "failing"
    BY <1>1 DEF ExecStates, NoExec
  <2>2. /\ Step(e, [exec[e] EXCEPT !.pc = "failing", !.hand = None])
        /\ ctrls' = ctrls /\ late' = late
    BY <1>11 DEF Fail
  <2>3. QED
    BY <1>2, <2>1, <2>2 DEF Stopped
<1>12. CASE WriteFailed(e)
  BY <1>3, <1>12 DEF WriteFailed
<1>13. CASE CancelSession(e) \/ CompleteSession(e)
  BY <1>3, <1>4, <1>13 DEF CancelSession, CompleteSession, EndFails, history
<1>14. QED
  BY <1>6, <1>7, <1>8, <1>9, <1>10, <1>11, <1>12, <1>13 DEF Advance

\* An execution whose control is paused or cancelled begins at most one more turn,
\* however many agents it still has and however handlers and executions interleave.
THEOREM RunnerStops == Spec => []StopsWithinOneTurn
<1>1. Init => StopInv
  BY InitType DEF Init, StopInv, CountedTurns
<1>2. StopInv /\ [Next]_vars => StopInv'
  <2> SUFFICES ASSUME StopInv, [Next]_vars
               PROVE  CountedTurns'
    BY TypeStep DEF StopInv
  <2>1. ASSUME NEW e \in Execs, Advance(e) \/ Fail(e)
        PROVE  CountedTurns'
    BY <2>1, ExecStopStep
  <2>2. ASSUME NEW q \in Reqs, Handle(q)
        PROVE  CountedTurns'
    BY <2>2, HandlerStopStep
  <2>3. CASE Crash
    BY <2>3 DEF Crash, CountedTurns
  <2>4. CASE Restart \/ UNCHANGED vars
    BY <2>4, SameCount
       DEF Restart, vars, history, StopInv, CountedTurns, Stopped
  <2>5. QED
    BY <2>1, <2>2, <2>3, <2>4 DEF Next
<1>3. StopInv => StopsWithinOneTurn
  BY DEF StopInv, CountedTurns, StopsWithinOneTurn
<1>4. QED
  BY <1>1, <1>2, <1>3, PTL DEF Spec
=============================================================================
