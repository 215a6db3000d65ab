---------------------------- MODULE SessionPage ----------------------------
(***************************************************************************)
(* The timeline of a live session on the pages that show it: the session   *)
(* page of the web application (src/apps/web/src/pages/workspace/          *)
(* Session.tsx over lib/socket.ts and lib/api-client.ts) composed with     *)
(* what the server sends it (src/src/realtime/socket-server.ts, the        *)
(* session routes and the broadcasts of session-runner.ts).                *)
(*                                                                         *)
(* A page fills its timeline in two ways: a GET replaces it, an event that *)
(* arrives on the socket is added.  The two are not ordered against each   *)
(* other; each page's socket delivers in order.  Whose turn it is to drive *)
(* is DriverControl's subject: here an operation is the event it appends.  *)
(***************************************************************************)
EXTENDS Naturals, Sequences

CONSTANTS Pages,
          Jobs,        \* handlers and executions of the server that broadcast
          Calls,       \* HTTP calls a page may have in flight
          MaxEvents    \* bound: events of the session

ASSUME PageAssumption == MaxEvents \in Nat

VARIABLES
  history,   \* SessionEvent rows in the order loadSessionDto lists them
  unsaid,    \* events whose writer does not broadcast, or no longer can
  job,       \* the broadcasting handlers
  room,      \* a page's membership of the session's room
  queue,     \* what the socket of a page has still to deliver
  loaded,    \* the page has a session
  view,      \* its timeline
  call,      \* its HTTP calls
  missed     \* ghost: events that reached a page in vain or never

pageVars == <<history, unsaid, job, room, queue, loaded, view, call, missed>>
server == <<history, unsaid, job>>

Events == 1 .. MaxEvents
Elements(s) == {s[i] : i \in DOMAIN s}
Places == {"closed", "joining", "joined", "in", "dropped"}
NoJob == [at |-> "idle", mine |-> {}, says |-> 0]
JobStates == [at : {"idle", "read", "emit"}, mine : SUBSET Events, says : 0 .. MaxEvents]
NoCall == [at |-> "idle", body |-> <<>>]
CallStates == [at : {"idle", "post", "get", "answered"}, body : Seq(Events)]
Distinct(s) == \A i, k \in DOMAIN s : s[i] = s[k] => i = k
Last(s) == s[Len(s)]

-----------------------------------------------------------------------------
(* The server *)

\* Events are listed by createdAt, then by a random id: one of the same
\* millisecond as the last may come before it.
Listed(e, s) ==
  {Append(s, e)} \cup
    IF s = <<>> THEN {} ELSE {SubSeq(s, 1, Len(s) - 1) \o <<e, Last(s)>>}
AppendEvent(e) ==
  /\ e = Len(history) + 1 /\ e <= MaxEvents
  /\ history' \in Listed(e, history)

\* The session is read before the service is called.
HandlerReadsFirst(j) ==
  /\ job[j] = NoJob
  /\ \E e \in Events :
       /\ AppendEvent(e)
       /\ job' = [job EXCEPT ![j] = [at |-> "emit", mine |-> {e},
                                    says |-> IF history = <<>> THEN e ELSE Last(history)]]
  /\ UNCHANGED <<unsaid, room, queue, loaded, view, call, missed>>
\* request_driver, approve_driver, handoff, redirect, disconnect: the service
\* appends one event, a disconnect two, and the handler reads the session again.
HandlerAppends(j) ==
  /\ job[j] = NoJob
  /\ \E e \in Events : AppendEvent(e) /\ job' = [job EXCEPT ![j] = [at |-> "read", mine |-> {e}, says |-> 0]]
  /\ UNCHANGED <<unsaid, room, queue, loaded, view, call, missed>>
DisconnectAppends(j) ==
  /\ job[j] = NoJob
  /\ LET e == Len(history) + 1 IN
       /\ e + 1 <= MaxEvents
       /\ \E s \in Listed(e, history) : history' \in Listed(e + 1, s)
       /\ job' = [job EXCEPT ![j] = [at |-> "read", mine |-> {e, e + 1}, says |-> 0]]
  /\ UNCHANGED <<unsaid, room, queue, loaded, view, call, missed>>
\* pauseForDisconnect returned early, the driver being another one by now: the
\* handler reads and broadcasts all the same.
DisconnectTooLate(j) ==
  /\ job[j] = NoJob
  /\ history /= <<>>                     \* a session that runs has its first event
  /\ job' = [job EXCEPT ![j] = [at |-> "read", mine |-> {}, says |-> 0]]
  /\ UNCHANGED <<history, unsaid, room, queue, loaded, view, call, missed>>
\* The last event of the session goes out, whoever appended it.
Reread(j) ==
  /\ job[j].at = "read"
  /\ job' = [job EXCEPT ![j].at = "emit", ![j].says = Last(history)]
  /\ UNCHANGED <<history, unsaid, room, queue, loaded, view, call, missed>>
\* getSession refuses: the driver who left is no connected participant any more.
RereadRefused(j) ==
  /\ job[j].at = "read"
  /\ job' = [job EXCEPT ![j] = NoJob]
  /\ unsaid' = unsaid \cup job[j].mine
  /\ UNCHANGED <<history, room, queue, loaded, view, call, missed>>
\* The runner broadcasts the very event it appended.
RunnerAppends(j) ==
  /\ job[j] = NoJob
  /\ \E e \in Events : AppendEvent(e) /\ job' = [job EXCEPT ![j] = [at |-> "emit", mine |-> {e}, says |-> e]]
  /\ UNCHANGED <<unsaid, room, queue, loaded, view, call, missed>>
Broadcast(j) ==
  /\ job[j].at = "emit"
  /\ job' = [job EXCEPT ![j] = NoJob]
  /\ queue' = [p \in Pages |-> IF room[p] = "in" THEN Append(queue[p], job[j].says) ELSE queue[p]]
  /\ missed' = [p \in Pages |-> IF room[p] = "in" THEN missed[p] ELSE missed[p] \cup {job[j].says}]
  /\ UNCHANGED <<history, unsaid, room, loaded, view, call>>

-----------------------------------------------------------------------------
(* The page and its socket *)

\* The effects of the page: loadSession and session.join at once.
Open(p) ==
  /\ room[p] = "closed"
  /\ room' = [room EXCEPT ![p] = "joining"]
  /\ \E c \in Calls : /\ call[p][c] = NoCall
                      /\ call' = [call EXCEPT ![p][c].at = "get"]
  /\ UNCHANGED <<server, queue, loaded, view, missed>>
\* session.join: joinSession appends an event for somebody new, then the
\* socket enters the room.
Join(p) ==
  /\ room[p] = "joining"
  /\ room' = [room EXCEPT ![p] = "joined"]
  /\ \/ UNCHANGED <<history, unsaid>>
     \/ \E e \in Events : AppendEvent(e) /\ unsaid' = unsaid \cup {e}
  /\ UNCHANGED <<job, queue, loaded, view, call, missed>>
EnterRoom(p) ==
  /\ room[p] = "joined"
  /\ room' = [room EXCEPT ![p] = "in"]
  /\ UNCHANGED <<server, queue, loaded, view, call, missed>>
\* The socket reconnects by itself, the page does not join again.
Drop(p) ==
  /\ room[p] \in {"joining", "joined", "in"}
  /\ room' = [room EXCEPT ![p] = "dropped"]
  /\ queue' = [queue EXCEPT ![p] = <<>>]
  /\ missed' = [missed EXCEPT ![p] = @ \cup Elements(queue[p])]
  /\ UNCHANGED <<server, loaded, view, call>>
\* The clean-up of the page: handlers off, session.leave.
Close(p) ==
  /\ room[p] /= "closed"
  /\ room' = [room EXCEPT ![p] = "closed"]
  /\ queue' = [queue EXCEPT ![p] = <<>>]
  /\ loaded' = [loaded EXCEPT ![p] = FALSE]
  /\ view' = [view EXCEPT ![p] = <<>>]
  /\ call' = [call EXCEPT ![p] = [c \in Calls |-> NoCall]]
  /\ missed' = [missed EXCEPT ![p] = @ \cup Elements(queue[p]) \cup Elements(view[p])]
  /\ UNCHANGED server

\* Without the look for an event of that id.
AddEventAlways(s, e) == Append(s, e)
\* onSessionEvent
AddEvent(s, e) == IF e \in Elements(s) THEN s ELSE Append(s, e)
Deliver(p) ==
  /\ queue[p] /= <<>>
  /\ queue' = [queue EXCEPT ![p] = Tail(@)]
  /\ IF loaded[p]
     THEN /\ view' = [view EXCEPT ![p] = AddEvent(@, Head(queue[p]))]
          /\ missed' = [missed EXCEPT ![p] = @ \ {Head(queue[p])}]
     ELSE /\ missed' = [missed EXCEPT ![p] = @ \cup {Head(queue[p])}]
          /\ UNCHANGED view
  /\ UNCHANGED <<server, room, loaded, call>>

-----------------------------------------------------------------------------
(* The calls of the page: a POST, then loadSession *)

\* A click: the operation goes out as a POST; request, approve and handoff
\* have sent it on the socket before, where HandlerAppends takes it.
Click(p, c) ==
  /\ room[p] /= "closed" /\ loaded[p]
  /\ call[p][c] = NoCall
  /\ call' = [call EXCEPT ![p][c].at = "post"]
  /\ UNCHANGED <<server, room, queue, loaded, view, missed>>
\* The routes append their event and broadcast nothing, except that start
\* leaves it to the runner.
PostDone(p, c) ==
  /\ call[p][c].at = "post"
  /\ call' = [call EXCEPT ![p][c].at = "get"]
  /\ \/ \E e \in Events : AppendEvent(e) /\ unsaid' = unsaid \cup {e}
     \/ UNCHANGED <<history, unsaid>>
  /\ UNCHANGED <<job, room, queue, loaded, view, missed>>
\* An error is shown and the session is not loaded again.
CallFails(p, c) ==
  /\ call[p][c].at \in {"post", "get"}
  /\ call' = [call EXCEPT ![p][c] = NoCall]
  /\ UNCHANGED <<server, room, queue, loaded, view, missed>>
\* GET: loadSessionDto reads the events.
ServeGet(p, c) ==
  /\ call[p][c].at = "get"
  /\ call' = [call EXCEPT ![p][c] = [at |-> "answered", body |-> history]]
  /\ UNCHANGED <<server, room, queue, loaded, view, missed>>
\* setSession(data)
Apply(p, c) ==
  /\ call[p][c].at = "answered"
  /\ call' = [call EXCEPT ![p][c] = NoCall]
  /\ loaded' = [loaded EXCEPT ![p] = TRUE]
  /\ view' = [view EXCEPT ![p] = call[p][c].body]
  /\ missed' = [missed EXCEPT ![p] = (@ \cup Elements(view[p])) \ Elements(call[p][c].body)]
  /\ UNCHANGED <<server, room, queue>>

-----------------------------------------------------------------------------
PageInit ==
  /\ history = <<>> /\ unsaid = {}
  /\ job = [j \in Jobs |-> NoJob]
  /\ room = [p \in Pages |-> "closed"]
  /\ queue = [p \in Pages |-> <<>>]
  /\ loaded = [p \in Pages |-> FALSE]
  /\ view = [p \in Pages |-> <<>>]
  /\ call = [p \in Pages |-> [c \in Calls |-> NoCall]]
  /\ missed = [p \in Pages |-> {}]

PageNext ==
  \/ \E j \in Jobs : \/ HandlerAppends(j) \/ DisconnectAppends(j) \/ DisconnectTooLate(j)
                     \/ RunnerAppends(j) \/ Reread(j) \/ RereadRefused(j) \/ Broadcast(j)
  \/ \E p \in Pages : Open(p) \/ Join(p) \/ EnterRoom(p) \/ Drop(p) \/ Close(p) \/ Deliver(p)
  \/ \E p \in Pages, c \in Calls :
       Click(p, c) \/ PostDone(p, c) \/ CallFails(p, c) \/ ServeGet(p, c) \/ Apply(p, c)

PageSpec == PageInit /\ [][PageNext]_pageVars

-----------------------------------------------------------------------------
\* A timeline shows an event once, although it may come in a response, from its
\* writer and from every handler that finds it the last one of the session.  A
\* page without a session shows nothing, a page outside the room is sent nothing.
PageTypeOK ==
  /\ history \in Seq(Events)
  /\ unsaid \subseteq Events
  /\ job \in [Jobs -> JobStates]
  /\ room \in [Pages -> Places]
  /\ loaded \in [Pages -> BOOLEAN]
  /\ queue \in [Pages -> Seq(Events)]
  /\ view \in [Pages -> Seq(Events)]
  /\ call \in [Pages -> [Calls -> CallStates]]
  /\ missed \in [Pages -> SUBSET Events]
  /\ \A p \in Pages : /\ queue[p] /= <<>> => room[p] = "in"
                      /\ ~loaded[p] => view[p] = <<>>
                      /\ Distinct(view[p])

\* Handlers broadcast the last event they read, so events in between may
\* never go out.  But when no broadcast is under way, the last event of the
\* session has: a page in the room shows it or is about to, unless its writer
\* is one that broadcasts nothing, or it went out before the page was in the
\* room or had a session, or an older response has replaced it.
LastEventIsShown ==
  (history /= <<>> /\ \A j \in Jobs : job[j] = NoJob) =>
     LET e == Last(history) IN
       \A p \in Pages : room[p] = "in" =>
         e \in unsaid \cup missed[p] \cup Elements(queue[p]) \cup Elements(view[p])
=============================================================================
