-------------------------- MODULE OrgAccessProofs --------------------------
(***************************************************************************)
(* For any number of users, invites, join codes and requests, any cap and  *)
(* any interleaving: a closed ticket admits nobody, tickets are not        *)
(* overspent, and memberships are accounted for.                           *)
(***************************************************************************)
EXTENDS OrgAccess, FiniteSetTheorems, TLAPS

\* No ticket's row is locked twice.
Locks == \A r, s \in Reqs, t \in Tickets : Holds(r, t) /\ Holds(s, t) => r = s

\* The ticket of a request was made, and stays open while a transaction holds it.
TicketOf ==
  \A r \in Reqs : req[r].ticket # None =>
    /\ ticket[req[r].ticket].state # "none"
    /\ req[r].at \in InTx => /\ ticket[req[r].ticket].state = "open"
                             /\ WithinCap(req[r].ticket)

\* What a transaction has looked up and inserted on the way to each statement.
Progress ==
  \A r \in Reqs :
    /\ req[r].at \in {"take", "findMember", "createMember"} => req[r].new = {}
    /\ req[r].at \in {"findSeat", "createSeat"} =>
         /\ req[r].new \subseteq {"org"}
         /\ ticket[req[r].ticket].seat
    /\ req[r].at \in {"findSeat", "createSeat", "commit"} =>
         org[req[r].user] # "NONE" \/ "org" \in req[r].new
    /\ req[r].at = "commit" =>
         /\ "ws" \in req[r].new => ticket[req[r].ticket].seat
         /\ ticket[req[r].ticket].seat => ws[req[r].user] # "none" \/ "ws" \in req[r].new
    /\ req[r].at = "remember" => ws[req[r].user] # "none"

\* An invite that admitted somebody is closed.
Spent ==
  \A r \in Reqs : req[r].what = "accept" /\ req[r].at = "done" =>
    ticket[req[r].ticket].state = "closed"

Capped == \A t \in Codes : MaxUses > 0 => ticket[t].uses <= MaxUses

\* A code counts whom it admits, an invite admits one.
CountedUses ==
  /\ \A t \in Codes : ticket[t].uses = Cardinality(Admissions(t))
  /\ \A t \in Invites, r, s \in Reqs : r \in Admissions(t) /\ s \in Admissions(t) => r = s

IInv == /\ TypeOK /\ Locks /\ TicketOf /\ Progress /\ Spent /\ Capped /\ CountedUses
        /\ MembershipsAreAccountedFor

-----------------------------------------------------------------------------
LEMMA InitIInv == Init => IInv
<1> SUFFICES ASSUME Init
             PROVE  IInv
  OBVIOUS
<1>1. TypeOK
  BY OrgAssumption DEF Init, TypeOK, Stages, TicketRows, Idle, Kinds, InTx, Ends
<1>2. Locks /\ TicketOf /\ Progress /\ Spent
  BY DEF Init, Locks, Holds, TicketOf, Progress, Spent, Idle, InTx
<1>3. Capped
  BY OrgAssumption DEF Init, Capped, Tickets
<1>4. \A t \in Tickets : Admissions(t) = {}
  BY DEF Init, Admissions, Idle
<1>5. CountedUses
  BY <1>4, FS_EmptySet DEF Init, CountedUses, Tickets
<1>6. MembershipsAreAccountedFor
  BY <1>4 DEF Init, MembershipsAreAccountedFor
<1>7. QED
  BY <1>1, <1>2, <1>3, <1>5, <1>6 DEF IInv

-----------------------------------------------------------------------------
\* What the control flow says of a request at its statement.
LEMMA RequestFacts ==
  ASSUME IInv, NEW r \in Reqs
  PROVE  /\ req[r].at \in {"take"} \cup InTx =>
              /\ req[r].what \in {"accept", "redeem"}
              /\ req[r].user \in Users /\ req[r].ticket \in Tickets
              /\ ticket[req[r].ticket].state # "none"
         /\ req[r].what \in {"accept", "redeem", "visit"} => req[r].user \in Users
         /\ req[r].at \in {"seat", "remember"} => req[r].user \in Users
         /\ req[r].at = "close" => req[r].ticket \in Invites
         /\ req[r].what \in {"accept", "redeem"} => /\ req[r].ticket \in Tickets
                                                    /\ ticket[req[r].ticket].state # "none"
<1>1. /\ req[r].at \in {"take"} \cup InTx => req[r].what \in {"accept", "redeem"}
      /\ req[r].what = "accept" => req[r].ticket \in Invites /\ req[r].user \in Users
      /\ req[r].what = "redeem" => req[r].ticket \in Codes /\ req[r].user \in Users
      /\ req[r].what = "visit" => req[r].user \in Users
      /\ req[r].at = "close" => req[r].ticket \in Invites
      /\ req[r].at \in {"seat", "remember"} => req[r].what = "visit"
  BY DEF IInv, TypeOK
<1>2. req[r].ticket # None => ticket[req[r].ticket].state # "none"
  BY DEF IInv, TicketOf
<1>3. QED
  BY <1>1, <1>2, OrgAssumption DEF Tickets

\* A step that admits nobody leaves the counts alone.
LEMMA SameCounts ==
  ASSUME IInv,
         \A r \in Reqs : /\ req'[r].what \in {"accept", "redeem"} /\ req'[r].at = "done"
                              <=> req[r].what \in {"accept", "redeem"} /\ req[r].at = "done"
                         /\ req'[r].what \in {"accept", "redeem"} /\ req'[r].at = "done"
                              => req'[r].ticket = req[r].ticket /\ req'[r].user = req[r].user,
         \A t \in Codes : ticket'[t].uses = ticket[t].uses
  PROVE  /\ \A t \in Tickets : Admissions(t)' = Admissions(t)
         /\ Capped' /\ CountedUses'
<1>1. \A t \in Tickets : Admissions(t)' = Admissions(t)
  BY DEF Admissions
<1>2. QED
  BY <1>1 DEF IInv, Capped, CountedUses, Tickets

-----------------------------------------------------------------------------
(* Steps of no request *)

LEMMA RequestsUnchanged ==
  ASSUME IInv, UNCHANGED req, \A t \in Codes : ticket'[t].uses = ticket[t].uses
  PROVE  Capped' /\ CountedUses' /\ \A t \in Tickets : Admissions(t)' = Admissions(t)
BY SameCounts

\* The organization, its workspace and the rows of the founder.
LEMMA FounderStep ==
  ASSUME IInv, CreateOrg \/ OwnOrg \/ CreateWorkspace \/ SeatCreator
  PROVE  IInv'
<1>1. UNCHANGED <<ticket, req>>
  BY DEF CreateOrg, OwnOrg, CreateWorkspace, SeatCreator
<1>2. TypeOK'
  BY <1>1, OrgAssumption DEF IInv, TypeOK, CreateOrg, OwnOrg, CreateWorkspace, SeatCreator, Stages
<1>3. Locks' /\ TicketOf' /\ Spent'
  BY <1>1 DEF IInv, Locks, Holds, TicketOf, Spent, WithinCap
<1>4. \A u \in Users : /\ org[u] # "NONE" => org'[u] # "NONE"
                       /\ ws[u] # "none" => ws'[u] # "none"
  BY OrgAssumption DEF IInv, TypeOK, CreateOrg, OwnOrg, CreateWorkspace, SeatCreator
<1>5. Progress'
  BY <1>1, <1>4 DEF IInv, TypeOK, Progress, InTx
<1>6. Capped' /\ CountedUses' /\ \A t \in Tickets : Admissions(t)' = Admissions(t)
  BY <1>1, RequestsUnchanged
<1>7. MembershipsAreAccountedFor'
  <2>1. last \subseteq last'
    BY DEF CreateOrg, OwnOrg, CreateWorkspace, SeatCreator
  <2>2. \A t \in Tickets : \A r \in Admissions(t)' :
           /\ org'[req'[r].user] # "NONE"
           /\ ticket'[t].seat => ws'[req'[r].user] # "none" /\ req'[r].user \in last'
    BY <1>1, <1>4, <1>6, <2>1 DEF IInv, TypeOK, MembershipsAreAccountedFor, Admissions
  <2>3. \A u \in Users : org'[u] # "NONE" =>
           \/ u = Founder /\ stage' \notin {"none", "org"}
           \/ \E r \in Reqs : /\ req'[r].what \in {"accept", "redeem"}
                              /\ req'[r].at = "done" /\ req'[r].user = u
           \/ \E r \in Reqs : u \in req'[r].invited
    BY <1>1, OrgAssumption
    DEF IInv, TypeOK, MembershipsAreAccountedFor, CreateOrg, OwnOrg, CreateWorkspace, SeatCreator
  <2>4. \A u \in Users : ws'[u] # "none" =>
           \/ u = Founder /\ stage' = "ready"
           \/ \E t \in Tickets : ticket'[t].seat /\ \E r \in Admissions(t)' : req'[r].user = u
           \/ \E r \in Reqs : req'[r].what = "visit" /\ req'[r].at # "seat" /\ req'[r].user = u
    BY <1>1, <1>6, OrgAssumption
    DEF IInv, TypeOK, MembershipsAreAccountedFor, CreateOrg, OwnOrg, CreateWorkspace, SeatCreator
  <2>5. \A u \in last' : ws'[u] # "none"
    BY OrgAssumption
    DEF IInv, TypeOK, MembershipsAreAccountedFor, CreateOrg, OwnOrg, CreateWorkspace, SeatCreator
  <2>6. QED
    BY <2>2, <2>3, <2>4, <2>5 DEF MembershipsAreAccountedFor
<1>8. QED
  BY <1>2, <1>3, <1>5, <1>6, <1>7 DEF IInv

\* A ticket that is made was nobody's, one that is closed is held by nobody.
LEMMA TicketStep ==
  ASSUME IInv, NEW t \in Tickets, NEW seat \in BOOLEAN,
         MakeTicket(t, seat) \/ Expire(t) \/ Revoke(t)
  PROVE  IInv'
<1>1. UNCHANGED <<stage, org, ws, last, req>>
  BY DEF MakeTicket, Expire, Revoke
<1>2. /\ \A o \in Tickets \ {t} : ticket'[o] = ticket[o]
      /\ ticket'[t].uses = ticket[t].uses
      /\ ticket'[t] \in TicketRows
      /\ ticket'[t].state # "none"
      /\ ticket[t].state # "none" =>
           /\ ticket'[t].seat = ticket[t].seat
           /\ ticket'[t].state \in {ticket[t].state, "closed"}
      /\ ticket'[t].state # ticket[t].state /\ ticket[t].state # "none" => TicketFree(t)
  <2>1. ticket[t] \in TicketRows /\ ticket \in [Tickets -> TicketRows]
    BY DEF IInv, TypeOK
  <2>2. CASE MakeTicket(t, seat)
    BY <2>1, <2>2 DEF MakeTicket, TicketRows
  <2>3. CASE Expire(t)
    BY <2>1, <2>3 DEF Expire, TicketRows
  <2>4. CASE Revoke(t)
    BY <2>1, <2>4 DEF Revoke, TicketRows
  <2>5. QED
    BY <2>2, <2>3, <2>4
<1>3. TypeOK'
  BY <1>1, <1>2 DEF IInv, TypeOK, MakeTicket, Expire, Revoke
<1>4. Locks'
  BY <1>1 DEF IInv, Locks, Holds
<1>5. TicketOf'
  BY <1>1, <1>2 DEF IInv, TypeOK, TicketOf, WithinCap, TicketFree, Holds, Tickets
<1>6. \A o \in Tickets : ticket[o].state # "none" => ticket'[o].seat = ticket[o].seat
  BY <1>2
<1>7. Progress'
  <2>1. \A r \in Reqs : req[r].at \in {"take"} \cup InTx =>
          ticket'[req[r].ticket].seat = ticket[req[r].ticket].seat
    BY <1>6, RequestFacts
  <2>2. QED
    BY <1>1, <2>1 DEF IInv, Progress, InTx
<1>8. Spent'
  BY <1>1, <1>2 DEF IInv, TypeOK, Spent, Tickets
<1>9. Capped' /\ CountedUses' /\ \A o \in Tickets : Admissions(o)' = Admissions(o)
  BY <1>1, <1>2, RequestsUnchanged DEF Tickets
<1>10. MembershipsAreAccountedFor'
  <2>1. \A o \in Tickets : Admissions(o) # {} => ticket'[o].seat = ticket[o].seat
    BY <1>6, OrgAssumption DEF IInv, TicketOf, Admissions, Tickets
  <2>2. \A o \in Tickets : \A r \in Admissions(o)' :
           /\ org'[req'[r].user] # "NONE"
           /\ ticket'[o].seat => ws'[req'[r].user] # "none" /\ req'[r].user \in last'
    BY <1>1, <1>9, <2>1 DEF IInv, MembershipsAreAccountedFor
  <2>3. \A u \in Users : ws'[u] # "none" =>
           \/ u = Founder /\ stage' = "ready"
           \/ \E o \in Tickets : ticket'[o].seat /\ \E r \in Admissions(o)' : req'[r].user = u
           \/ \E r \in Reqs : req'[r].what = "visit" /\ req'[r].at # "seat" /\ req'[r].user = u
    BY <1>1, <1>9, <2>1 DEF IInv, MembershipsAreAccountedFor
  <2>4. QED
    BY <1>1, <2>2, <2>3 DEF IInv, MembershipsAreAccountedFor
<1>11. QED
  BY <1>3, <1>4, <1>5, <1>7, <1>8, <1>9, <1>10 DEF IInv

-----------------------------------------------------------------------------
(* Steps of one request *)

ReqStates == [what : Kinds,
              at : {"idle", "take", "close", "seat", "remember", "invite"} \cup InTx \cup Ends,
              user : Users \cup {None}, ticket : Tickets \cup {None},
              new : SUBSET {"org", "ws"}, invited : SUBSET Users]

\* The control flow of TypeOK, of one request.
Flow(x) ==
  /\ x.at = "idle" => x = Idle
  /\ x.what = "accept" => x.ticket \in Invites /\ x.user \in Users
  /\ x.what = "redeem" => x.ticket \in Codes /\ x.user \in Users
  /\ x.what = "visit" => x.user \in Users
  /\ x.at \in {"take"} \cup InTx => x.what \in {"accept", "redeem"}
  /\ x.at = "close" => x.what = "decline" /\ x.ticket \in Invites
  /\ x.at \in {"seat", "remember"} => x.what = "visit"
  /\ x.at = "invite" => x.what = "bulk"
  /\ x.invited # {} => x.what = "bulk"

\* What TicketOf and Progress ask of one request.
Local(x) ==
  /\ x.ticket # None =>
       /\ ticket[x.ticket].state # "none"
       /\ x.at \in InTx => ticket[x.ticket].state = "open" /\ WithinCap(x.ticket)
  /\ x.at \in {"take", "findMember", "createMember"} => x.new = {}
  /\ x.at \in {"findSeat", "createSeat"} => x.new \subseteq {"org"} /\ ticket[x.ticket].seat
  /\ x.at \in {"findSeat", "createSeat", "commit"} => org[x.user] # "NONE" \/ "org" \in x.new
  /\ x.at = "commit" =>
       /\ "ws" \in x.new => ticket[x.ticket].seat
       /\ ticket[x.ticket].seat => ws[x.user] # "none" \/ "ws" \in x.new
  /\ x.at = "remember" => ws[x.user] # "none"

Admitted(x) == x.what \in {"accept", "redeem"} /\ x.at = "done"
Visited(x) == x.what = "visit" /\ x.at # "seat"

LEMMA LocalFacts ==
  ASSUME IInv, NEW r \in Reqs
  PROVE  req[r] \in ReqStates /\ Flow(req[r]) /\ Local(req[r])
<1>1. req[r] \in ReqStates /\ Flow(req[r])
  BY DEF IInv, TypeOK, ReqStates, Flow
<1>2. Local(req[r])
  BY DEF IInv, TicketOf, Progress, Local
<1>3. QED
  BY <1>1, <1>2

\* A request goes on without changing a table.
LEMMA MoveStep ==
  ASSUME IInv, NEW r \in Reqs, NEW x \in ReqStates, req' = [req EXCEPT ![r] = x],
         UNCHANGED <<stage, org, ws, last, ticket>>,
         Flow(x), Local(x), ~Admitted(x), req[r].at \notin Ends,
         Visited(req[r]) /\ req[r].at # "idle" => Visited(x) /\ x.user = req[r].user,
         req[r].invited \subseteq x.invited,
         x.at \in InTx => \A s \in Reqs \ {r} : ~Holds(s, x.ticket)
  PROVE  IInv'
<1>1. req'[r] = x /\ \A s \in Reqs \ {r} : req'[s] = req[s]
  BY DEF IInv, TypeOK
<1>2. TypeOK'
  <2>1. req' \in [Reqs -> ReqStates]
    BY DEF IInv, TypeOK, ReqStates
  <2>2. \A s \in Reqs : Flow(req'[s])
    BY <1>1, LocalFacts
  <2>3. QED
    BY <2>1, <2>2 DEF IInv, TypeOK, ReqStates, Flow
<1>3. Locks'
  BY <1>1 DEF IInv, Locks, Holds
<1>4. \A s \in Reqs : Local(req'[s])
  BY <1>1, LocalFacts
<1>5. TicketOf'
  BY <1>4 DEF TicketOf, Local, WithinCap
<1>6. Progress'
  BY <1>4 DEF Progress, Local
<1>7. Spent'
  BY <1>1 DEF IInv, Spent, Admitted
<1>8. Capped' /\ CountedUses' /\ \A t \in Tickets : Admissions(t)' = Admissions(t)
  <2>1. ~Admitted(req[r])
    BY DEF Admitted, Ends
  <2>2. QED
    BY <1>1, <2>1, SameCounts DEF Admitted
<1>9. MembershipsAreAccountedFor'
  <2>1. \A t \in Tickets : \A s \in Admissions(t)' :
           /\ org'[req'[s].user] # "NONE"
           /\ ticket'[t].seat => ws'[req'[s].user] # "none" /\ req'[s].user \in last'
    <3>1. \A t \in Tickets : \A s \in Admissions(t) : req'[s] = req[s]
      BY <1>1 DEF Admissions, Ends
    <3>2. QED
      BY <1>8, <3>1 DEF IInv, MembershipsAreAccountedFor
  <2>2. \A u \in Users : org'[u] # "NONE" =>
           \/ u = Founder /\ stage' \notin {"none", "org"}
           \/ \E s \in Reqs : /\ req'[s].what \in {"accept", "redeem"}
                              /\ req'[s].at = "done" /\ req'[s].user = u
           \/ \E s \in Reqs : u \in req'[s].invited
    BY <1>1 DEF IInv, MembershipsAreAccountedFor, Ends
  <2>3. \A u \in Users : ws'[u] # "none" =>
           \/ u = Founder /\ stage' = "ready"
           \/ \E t \in Tickets : ticket'[t].seat /\ \E s \in Admissions(t)' : req'[s].user = u
           \/ \E s \in Reqs : req'[s].what = "visit" /\ req'[s].at # "seat" /\ req'[s].user = u
    <3>1. \A t \in Tickets : \A s \in Admissions(t) : req'[s] = req[s]
      BY <1>1 DEF Admissions, Ends
    <3>2. \A s \in Reqs : Visited(req[s]) => Visited(req'[s]) /\ req'[s].user = req[s].user
      BY <1>1, LocalFacts DEF Visited, Flow, Idle
    <3>3. QED
      BY <1>8, <3>1, <3>2 DEF IInv, MembershipsAreAccountedFor, Visited
  <2>4. QED
    BY <2>1, <2>2, <2>3 DEF IInv, MembershipsAreAccountedFor
<1>10. QED
  BY <1>2, <1>3, <1>5, <1>6, <1>7, <1>8, <1>9 DEF IInv

\* A request r that waits at its first statement.
Begun(r, x) ==
  /\ req' = [req EXCEPT ![r] = x] /\ Flow(x)
  /\ x.new = {} /\ x.at \in {"take", "close", "seat", "remember", "invite"}
  /\ x.ticket # None => ticket[x.ticket].state # "none"
  /\ x.at = "remember" => ws[x.user] # "none"

LEMMA BeginStep ==
  ASSUME IInv, NEW r \in Reqs,
         \/ \E u \in Users, t \in Tickets : BeginAdmission(r, u, t)
         \/ \E t \in Tickets : BeginDecline(r, t)
         \/ \E u \in Users : BeginVisit(r, u)
         \/ BeginBulk(r)
  PROVE  IInv'
<1>1. \E x \in ReqStates : Begun(r, x)
  <2>1. ASSUME NEW u \in Users, NEW t \in Tickets, BeginAdmission(r, u, t)
        PROVE  \E x \in ReqStates : Begun(r, x)
    <3> DEFINE x == [what |-> IF t \in Invites THEN "accept" ELSE "redeem", at |-> "take",
                     user |-> u, ticket |-> t, new |-> {}, invited |-> {}]
    <3>1. req' = [req EXCEPT ![r] = x] /\ ticket[t].state # "none"
      BY <2>1 DEF BeginAdmission, Start, Usable
    <3>2. x \in ReqStates /\ Flow(x)
      BY DEF ReqStates, Kinds, Flow, Tickets, InTx
    <3>3. QED
      BY <3>1, <3>2 DEF Begun
  <2>2. ASSUME NEW t \in Tickets, BeginDecline(r, t)
        PROVE  \E x \in ReqStates : Begun(r, x)
    <3> DEFINE x == [what |-> "decline", at |-> "close", user |-> None, ticket |-> t,
                     new |-> {}, invited |-> {}]
    <3>1. req' = [req EXCEPT ![r] = x] /\ ticket[t].state # "none" /\ t \in Invites
      BY <2>2 DEF BeginDecline, Start
    <3>2. x \in ReqStates /\ Flow(x)
      BY <3>1 DEF ReqStates, Kinds, Flow, Tickets, InTx
    <3>3. QED
      BY <3>1, <3>2 DEF Begun
  <2>3. ASSUME NEW u \in Users, BeginVisit(r, u)
        PROVE  \E x \in ReqStates : Begun(r, x)
    <3> DEFINE x == [what |-> "visit", at |-> IF ws[u] = "none" THEN "seat" ELSE "remember",
                     user |-> u, ticket |-> None, new |-> {}, invited |-> {}]
    <3>1. req' = [req EXCEPT ![r] = x]
      BY <2>3 DEF BeginVisit, Start
    <3>2. x \in ReqStates /\ Flow(x)
      BY DEF ReqStates, Kinds, Flow, InTx
    <3>3. QED
      BY <3>1, <3>2 DEF Begun
  <2>4. ASSUME BeginBulk(r)
        PROVE  \E x \in ReqStates : Begun(r, x)
    <3> DEFINE x == [what |-> "bulk", at |-> "invite", user |-> None, ticket |-> None,
                     new |-> {}, invited |-> {}]
    <3>1. req' = [req EXCEPT ![r] = x]
      BY <2>4 DEF BeginBulk, Start
    <3>2. x \in ReqStates /\ Flow(x)
      BY DEF ReqStates, Kinds, Flow, InTx
    <3>3. QED
      BY <3>1, <3>2 DEF Begun
  <2>5. QED
    BY <2>1, <2>2, <2>3, <2>4
<1>2. /\ req[r].at = "idle" /\ req[r].invited = {}
      /\ UNCHANGED <<stage, org, ws, last, ticket>>
  BY DEF BeginAdmission, BeginDecline, BeginVisit, BeginBulk, Start, Idle
<1>3. PICK x \in ReqStates : Begun(r, x)
  BY <1>1
<1>4. Local(x)
  BY <1>3 DEF Begun, Local, InTx
<1>5. ~Admitted(x) /\ x.at \notin InTx /\ req[r].at \notin Ends
  BY <1>2, <1>3 DEF Begun, Admitted, Ends, InTx
<1>6. QED
  BY <1>2, <1>3, <1>4, <1>5, MoveStep DEF Begun

\* The transaction takes the lock of its ticket, looks up, inserts or fails.
LEMMA StatementStep ==
  ASSUME IInv, NEW r \in Reqs,
         Take(r) \/ Find(r) \/ CreateMember(r) \/ CreateSeat(r) \/ Fail(r) \/ AnswerBulk(r)
  PROVE  IInv'
<1>1. /\ req[r] \in ReqStates /\ Flow(req[r]) /\ Local(req[r])
      /\ req[r].at \in {"take"} \cup InTx =>
           req[r].ticket \in Tickets /\ ticket[req[r].ticket].state # "none"
  BY LocalFacts, RequestFacts
<1>2. UNCHANGED <<stage, org, ws, last, ticket>>
  BY DEF Take, Find, CreateMember, CreateSeat, Fail, AnswerBulk
<1>3. \A s \in Reqs \ {r} : req[r].at \in InTx => ~Holds(s, req[r].ticket)
  BY <1>1 DEF IInv, Locks, Holds
<1>4. CASE Take(r)
  <2>1. PICK at \in {"findMember", "failed"} :
          /\ req' = [req EXCEPT ![r].at = at]
          /\ at = "findMember" => /\ ticket[req[r].ticket].state = "open"
                                  /\ WithinCap(req[r].ticket)
    BY <1>4 DEF Take, Goto
  <2>2. TicketFree(req[r].ticket) /\ req[r].at = "take"
    BY <1>4 DEF Take
  <2> DEFINE x == [req[r] EXCEPT !.at = at]
  <2>3. x \in ReqStates /\ Flow(x) /\ Local(x)
    BY <1>1, <2>1, <2>2, OrgAssumption DEF ReqStates, Flow, Local, InTx, Ends, Idle
  <2>4. req' = [req EXCEPT ![r] = x]
    BY <2>1
  <2>5. /\ ~Admitted(x) /\ x.ticket = req[r].ticket /\ req[r].what \in {"accept", "redeem"}
        /\ x.invited = req[r].invited
    BY <1>1, <2>1, <2>2 DEF ReqStates, Admitted, Flow
  <2>6. QED
    BY <1>2, <2>2, <2>3, <2>4, <2>5, MoveStep DEF TicketFree, Ends, Visited
<1>5. CASE Find(r) \/ CreateMember(r) \/ CreateSeat(r)
  <2>1. PICK at \in {"createMember", "findSeat", "createSeat", "commit"}, new \in SUBSET {"org", "ws"} :
          /\ req' = [req EXCEPT ![r].at = at, ![r].new = new]
          /\ req[r].at = "findMember" =>
               /\ new = req[r].new
               /\ org[req[r].user] = "NONE" => at = "createMember"
               /\ org[req[r].user] # "NONE" => at = IF ticket[req[r].ticket].seat THEN "findSeat" ELSE "commit"
          /\ req[r].at = "createMember" =>
               /\ new = req[r].new \cup {"org"}
               /\ at = IF ticket[req[r].ticket].seat THEN "findSeat" ELSE "commit"
          /\ req[r].at = "findSeat" =>
               /\ new = req[r].new
               /\ at = IF ws[req[r].user] = "none" THEN "createSeat" ELSE "commit"
          /\ req[r].at = "createSeat" =>
               new = req[r].new \cup {"ws"} /\ at = "commit"
    BY <1>1, <1>5 DEF Find, CreateMember, CreateSeat, Goto, ReqStates, IInv, TypeOK
  <2>2. req[r].at \in {"findMember", "createMember", "findSeat", "createSeat"}
    BY <1>5 DEF Find, CreateMember, CreateSeat
  <2> DEFINE x == [req[r] EXCEPT !.at = at, !.new = new]
  <2>3. x \in ReqStates /\ x.at = at /\ x.new = new /\ x.user = req[r].user
        /\ x.ticket = req[r].ticket /\ x.what = req[r].what /\ x.invited = req[r].invited
    BY <1>1 DEF ReqStates, InTx
  <2>4. Flow(x)
    BY <1>1, <2>2, <2>3 DEF Flow, InTx
  <2>5. Local(x)
    BY <1>1, <2>1, <2>2, <2>3 DEF Local, InTx
  <2>6. req' = [req EXCEPT ![r] = x]
    BY <2>1
  <2>7. ~Admitted(x) /\ ~Visited(req[r]) /\ req[r].at \in InTx \ Ends
    BY <1>1, <2>2, <2>3 DEF Admitted, Visited, Flow, InTx, Ends
  <2>8. QED
    BY <1>2, <1>3, <2>3, <2>4, <2>5, <2>6, <2>7, MoveStep
<1>6. CASE Fail(r) \/ AnswerBulk(r)
  <2>1. PICK at \in {"failed", "done"} :
          /\ req' = [req EXCEPT ![r].at = at] /\ req[r].at \notin Ends
          /\ at = "done" => req[r].at = "invite"
    BY <1>6 DEF Fail, AnswerBulk, Goto, Ends
  <2> DEFINE x == [req[r] EXCEPT !.at = at]
  <2>2. /\ x \in ReqStates /\ x.at = at /\ x.user = req[r].user
        /\ x.ticket = req[r].ticket /\ x.what = req[r].what /\ x.invited = req[r].invited
    BY <1>1 DEF ReqStates, Ends
  <2>3. Flow(x) /\ Local(x) /\ ~Admitted(x) /\ x.at \notin InTx
    BY <1>1, <2>1, <2>2 DEF Flow, Local, Admitted, InTx
  <2>4. Visited(req[r]) => Visited(x)
    BY <2>2 DEF Visited
  <2>5. QED
    BY <1>2, <2>1, <2>2, <2>3, <2>4, MoveStep
<1>7. QED
  BY <1>4, <1>5, <1>6

-----------------------------------------------------------------------------
(* Steps of a request that change a table *)

\* Rows are only added, tickets keep their seat, and the ticket of another
\* transaction is left alone.
Grown(r) ==
  /\ \A u \in Users : /\ org[u] # "NONE" => org'[u] # "NONE"
                      /\ ws[u] # "none" => ws'[u] # "none"
  /\ \A t \in Tickets : ticket[t].state # "none" =>
       /\ ticket'[t].state # "none" /\ ticket'[t].seat = ticket[t].seat
       /\ ticket[t].state = "closed" => ticket'[t].state = "closed"
       /\ (\E s \in Reqs \ {r} : Holds(s, t)) => ticket'[t] = ticket[t]

\* What the rest of the invariant asks of the others then stays true.
LEMMA OthersStay ==
  ASSUME IInv, NEW r \in Reqs, Grown(r), \A s \in Reqs \ {r} : req'[s] = req[s],
         Flow(req[r])', Local(req[r])', Admitted(req[r])' => Spent',
         \A s \in Reqs \ {r} : Holds(r, req[s].ticket)' /\ Holds(s, req[s].ticket) => FALSE,
         req' \in [Reqs -> ReqStates], ticket' \in [Tickets -> TicketRows],
         org' \in [Users -> {"NONE", "MEMBER", "OWNER"}],
         ws' \in [Users -> {"none", "member", "admin"}],
         last' \subseteq Users, UNCHANGED stage
  PROVE  TypeOK' /\ Locks' /\ TicketOf' /\ Progress' /\ Spent'
<1>1. \A s \in Reqs \ {r} : /\ req[s] \in ReqStates /\ Flow(req[s]) /\ Local(req[s])
                            /\ req[s].at \in {"take"} \cup InTx =>
                                 req[s].user \in Users /\ req[s].ticket \in Tickets
                            /\ req[s].at = "remember" => req[s].user \in Users
  BY LocalFacts, RequestFacts
<1>2. TypeOK'
  <2>1. \A s \in Reqs : Flow(req[s])'
    BY <1>1 DEF Flow
  <2>2. QED
    BY <2>1 DEF IInv, TypeOK, ReqStates, Flow
<1>3. Locks'
  BY DEF IInv, Locks, Holds
<1>4. \A s \in Reqs \ {r} : Local(req[s])'
  <2> SUFFICES ASSUME NEW s \in Reqs \ {r}
               PROVE  Local(req[s])'
    OBVIOUS
  <2>1. req[s].ticket # None => req[s].ticket \in Tickets
    BY <1>1 DEF ReqStates
  <2>2. req[s].at \in InTx => ticket'[req[s].ticket] = ticket[req[s].ticket]
    BY <1>1, RequestFacts DEF Grown, Holds
  <2>3. req[s].ticket # None => ticket'[req[s].ticket].state # "none"
    BY <1>1, <2>1 DEF Grown, Local
  <2>4. QED
    BY <1>1, <2>1, <2>2, <2>3 DEF Grown, Local, WithinCap, InTx
<1>5. TicketOf' /\ Progress'
  BY <1>4 DEF TicketOf, Progress, Local
<1>6. Spent'
  <2>1. CASE Admitted(req[r])'
    BY <2>1
  <2>2. CASE ~Admitted(req[r])'
    BY <1>1, <2>2, OrgAssumption DEF IInv, Spent, Admitted, Grown, Flow, Tickets
  <2>3. QED
    BY <2>1, <2>2
<1>7. QED
  BY <1>2, <1>3, <1>5, <1>6

\* A step that admits nobody accounts for the rows it adds itself.
LEMMA AccountsStay ==
  ASSUME IInv, NEW r \in Reqs, Grown(r), \A s \in Reqs \ {r} : req'[s] = req[s],
         \A t \in Tickets : Admissions(t)' = Admissions(t), req[r].at \notin Ends,
         Visited(req[r]) /\ req[r].at # "idle" => Visited(req'[r]) /\ req'[r].user = req[r].user,
         last \subseteq last', UNCHANGED stage,
         req[r].invited \subseteq req'[r].invited,
         \A u \in Users : org'[u] # "NONE" /\ org[u] = "NONE" => u \in req'[r].invited,
         \A u \in Users : ws'[u] # "none" /\ ws[u] = "none" => Visited(req'[r]) /\ req'[r].user = u,
         \A u \in last' : ws'[u] # "none"
  PROVE  MembershipsAreAccountedFor'
<1>1. \A t \in Tickets : \A s \in Admissions(t) :
        /\ req'[s] = req[s] /\ req[s].user \in Users
        /\ ticket'[t].seat = ticket[t].seat
  BY RequestFacts DEF Admissions, Ends, Grown
<1>2. \A t \in Tickets : \A s \in Admissions(t)' :
        /\ org'[req'[s].user] # "NONE"
        /\ ticket'[t].seat => ws'[req'[s].user] # "none" /\ req'[s].user \in last'
  BY <1>1 DEF IInv, MembershipsAreAccountedFor, Grown
<1>3. \A u \in Users : org'[u] # "NONE" =>
        \/ u = Founder /\ stage' \notin {"none", "org"}
        \/ \E s \in Reqs : /\ req'[s].what \in {"accept", "redeem"}
                           /\ req'[s].at = "done" /\ req'[s].user = u
        \/ \E s \in Reqs : u \in req'[s].invited
  BY DEF IInv, MembershipsAreAccountedFor, Ends
<1>4. \A u \in Users : ws'[u] # "none" =>
        \/ u = Founder /\ stage' = "ready"
        \/ \E t \in Tickets : ticket'[t].seat /\ \E s \in Admissions(t)' : req'[s].user = u
        \/ \E s \in Reqs : req'[s].what = "visit" /\ req'[s].at # "seat" /\ req'[s].user = u
  <2>1. \A s \in Reqs : Visited(req[s]) => Visited(req'[s]) /\ req'[s].user = req[s].user
    BY LocalFacts DEF Visited, Flow, Idle
  <2>2. QED
    BY <1>1, <2>1 DEF IInv, MembershipsAreAccountedFor, Visited
<1>5. QED
  BY <1>2, <1>3, <1>4 DEF MembershipsAreAccountedFor

\* Decline, the workspace check and a bulk invite: one table each.
LEMMA PlainStep ==
  ASSUME IInv, NEW r \in Reqs, NEW u \in Users, NEW role \in {"MEMBER", "OWNER"},
         Decline(r) \/ Seat(r) \/ Remember(r) \/ BulkInvite(r, u, role)
  PROVE  IInv'
<1>1. req[r] \in ReqStates /\ Flow(req[r]) /\ Local(req[r])
  BY LocalFacts
<1>2. PICK x \in ReqStates :
        /\ req' = [req EXCEPT ![r] = x] /\ Flow(x)
        /\ x.what \in {"decline", "visit", "bulk"}
        /\ x.at \in {"done", "remember", "invite"}
        /\ req[r].invited \subseteq x.invited
        /\ BulkInvite(r, u, role) => u \in x.invited
        /\ x.at = "remember" => ws'[x.user] # "none"
        /\ x.ticket # None => x.ticket \in Tickets /\ ticket[x.ticket].state # "none"
        /\ req[r].what = "visit" => x.what = "visit" /\ x.user = req[r].user
  <2>1. CASE Decline(r) \/ Remember(r)
    <3> DEFINE x == [req[r] EXCEPT !.at = "done"]
    <3>1. req' = [req EXCEPT ![r] = x]
      BY <2>1 DEF Decline, Remember, Goto
    <3>2. req[r].at \in {"close", "remember"}
      BY <2>1 DEF Decline, Remember
    <3>3. /\ x \in ReqStates /\ x.at = "done" /\ x.user = req[r].user
          /\ x.ticket = req[r].ticket /\ x.what = req[r].what
      BY <1>1 DEF ReqStates, Ends
    <3>4. Flow(x) /\ x.what \in {"decline", "visit"} /\ x.invited = req[r].invited
      BY <1>1, <3>2, <3>3 DEF Flow, InTx, ReqStates
    <3>5. x.ticket # None => x.ticket \in Tickets /\ ticket[x.ticket].state # "none"
      BY <1>1, <3>3 DEF Local, ReqStates
    <3>6. ~BulkInvite(r, u, role)
      BY <3>2 DEF BulkInvite
    <3> HIDE DEF x
    <3>7. QED
      BY <3>1, <3>3, <3>4, <3>5, <3>6
  <2>2. CASE Seat(r)
    <3> DEFINE x == [req[r] EXCEPT !.at = "remember"]
    <3>1. req' = [req EXCEPT ![r] = x] /\ req[r].at = "seat"
      BY <2>2 DEF Seat, Goto
    <3>2. /\ x \in ReqStates /\ x.at = "remember" /\ x.user = req[r].user
          /\ x.ticket = req[r].ticket /\ x.what = req[r].what
      BY <1>1 DEF ReqStates
    <3>3. /\ Flow(x) /\ x.what = "visit" /\ req[r].user \in Users
          /\ x.invited = req[r].invited
      BY <1>1, <3>1, <3>2 DEF Flow, InTx, ReqStates
    <3>4. ws'[x.user] # "none"
      BY <2>2, <3>2, <3>3 DEF Seat, IInv, TypeOK
    <3>5. x.ticket # None => x.ticket \in Tickets /\ ticket[x.ticket].state # "none"
      BY <1>1, <3>2 DEF Local, ReqStates
    <3>6. ~BulkInvite(r, u, role)
      BY <3>1 DEF BulkInvite
    <3> HIDE DEF x
    <3>7. QED
      BY <3>1, <3>2, <3>3, <3>4, <3>5, <3>6
  <2>3. CASE BulkInvite(r, u, role)
    <3> DEFINE x == [req[r] EXCEPT !.invited = @ \cup {u}]
    <3>1. req' = [req EXCEPT ![r] = x] /\ req[r].at = "invite"
      BY <2>3 DEF BulkInvite
    <3>2. /\ x \in ReqStates /\ x.at = "invite" /\ x.what = req[r].what
          /\ x.ticket = req[r].ticket /\ x.user = req[r].user
          /\ x.invited = req[r].invited \cup {u}
      BY <1>1, <3>1 DEF ReqStates
    <3>3. Flow(x) /\ x.what = "bulk"
      BY <1>1, <3>1, <3>2 DEF Flow, InTx
    <3>4. x.ticket # None => x.ticket \in Tickets /\ ticket[x.ticket].state # "none"
      BY <1>1, <3>2 DEF Local, ReqStates
    <3> HIDE DEF x
    <3>5. QED
      BY <3>1, <3>2, <3>3, <3>4
  <2>4. QED
    BY <2>1, <2>2, <2>3
<1>3. req'[r] = x /\ \A s \in Reqs \ {r} : req'[s] = req[s]
  BY <1>2 DEF IInv, TypeOK
<1>4. /\ req[r].at \in {"close", "seat", "remember", "invite"} /\ req[r].at \notin InTx \cup Ends
      /\ req[r].at = "close" => req[r].ticket \in Invites
  BY <1>1 DEF Decline, Seat, Remember, BulkInvite, InTx, Ends, Flow
<1>5. /\ ticket' \in [Tickets -> TicketRows]
      /\ org' \in [Users -> {"NONE", "MEMBER", "OWNER"}]
      /\ ws' \in [Users -> {"none", "member", "admin"}]
      /\ last' \subseteq Users /\ UNCHANGED stage /\ last \subseteq last'
  BY <1>1, <1>4 DEF IInv, TypeOK, TicketRows, Decline, Seat, Remember, BulkInvite, Flow, Tickets
<1>6. Grown(r)
  <2>1. \A v \in Users : /\ org[v] # "NONE" => org'[v] # "NONE"
                         /\ ws[v] # "none" => ws'[v] # "none"
    BY <1>1, <1>4 DEF IInv, TypeOK, Decline, Seat, Remember, BulkInvite
  <2>2. CASE Decline(r)
    BY <1>4, <2>1, <2>2 DEF IInv, TypeOK, TicketRows, Decline, Grown, TicketFree
  <2>3. CASE UNCHANGED ticket
    BY <2>1, <2>3 DEF Grown
  <2>4. QED
    BY <2>2, <2>3 DEF Seat, Remember, BulkInvite
<1>7. Local(req[r])'
  <2>1. x.ticket # None => ticket'[x.ticket].state # "none"
    BY <1>2, <1>6 DEF Grown
  <2>2. QED
    BY <1>2, <1>3, <2>1 DEF Local, InTx
<1>8. Flow(req[r])' /\ ~Admitted(req[r])' /\ \A t \in Tickets \cup {None} : ~Holds(r, t)'
  BY <1>2, <1>3 DEF Flow, Admitted, Holds, InTx
<1>9. req' \in [Reqs -> ReqStates] /\ \A s \in Reqs : req[s].ticket \in Tickets \cup {None}
  BY <1>2 DEF IInv, TypeOK, ReqStates
<1>10. TypeOK' /\ Locks' /\ TicketOf' /\ Progress' /\ Spent'
  BY <1>3, <1>5, <1>6, <1>7, <1>8, <1>9, OthersStay
<1>11. Capped' /\ CountedUses' /\ \A t \in Tickets : Admissions(t)' = Admissions(t)
  <2>1. \A t \in Codes : ticket'[t].uses = ticket[t].uses
    BY <1>4, OrgAssumption
    DEF IInv, TypeOK, TicketRows, Decline, Seat, Remember, BulkInvite, Tickets
  <2>2. ~(req[r].at = "done")
    BY <1>4
  <2>3. QED
    BY <1>2, <1>3, <2>1, <2>2, SameCounts
<1>12. MembershipsAreAccountedFor'
  <2>1. Visited(req[r]) /\ req[r].at # "idle" => Visited(req'[r]) /\ req'[r].user = req[r].user
    BY <1>2, <1>3 DEF Visited
  <2>2. \A v \in Users : org'[v] # "NONE" /\ org[v] = "NONE" =>
          v \in req'[r].invited
    BY <1>2, <1>3 DEF IInv, TypeOK, Decline, Seat, Remember, BulkInvite
  <2>3. \A v \in Users : ws'[v] # "none" /\ ws[v] = "none" => Visited(req'[r]) /\ req'[r].user = v
    BY <1>1 DEF IInv, TypeOK, Decline, Seat, Remember, BulkInvite, Goto, Visited, Flow, ReqStates
  <2>4. \A v \in last' : ws'[v] # "none"
    BY <1>1, <1>6 DEF IInv, TypeOK, MembershipsAreAccountedFor, Decline, Seat, Remember, BulkInvite, Grown, Local
  <2>5. req[r].invited \subseteq req'[r].invited
    BY <1>2, <1>3
  <2>6. QED
    BY <1>3, <1>4, <1>5, <1>6, <1>11, <2>1, <2>2, <2>3, <2>4, <2>5, AccountsStay
<1>13. QED
  BY <1>10, <1>11, <1>12 DEF IInv

\* The commit of an acceptance or redemption: the one that holds the ticket.
LEMMA CommitStep ==
  ASSUME IInv, NEW r \in Reqs, Commit(r)
  PROVE  IInv'
<1> DEFINE u == req[r].user
           t == req[r].ticket
           x == [req[r] EXCEPT !.at = "done"]
<1>1. /\ req[r] \in ReqStates /\ Flow(req[r]) /\ Local(req[r])
      /\ u \in Users /\ t \in Tickets /\ req[r].what \in {"accept", "redeem"}
      /\ ticket[t].state = "open" /\ WithinCap(t) /\ req[r].at = "commit"
      /\ \A s \in Reqs \ {r} : ~Holds(s, t)
  <2>1. req[r].at = "commit"
    BY DEF Commit
  <2>2. u \in Users /\ t \in Tickets /\ req[r].what \in {"accept", "redeem"}
    BY <2>1, RequestFacts DEF InTx
  <2>3. Local(req[r]) /\ t # None
    BY <2>2, LocalFacts, OrgAssumption DEF Tickets
  <2>4. QED
    BY <2>1, <2>2, <2>3, LocalFacts DEF Local, InTx, IInv, Locks, Holds
<1>2. req'[r] = x /\ req' = [req EXCEPT ![r] = x] /\ \A s \in Reqs \ {r} : req'[s] = req[s]
  BY DEF Commit, Goto, IInv, TypeOK
<1>3. x \in ReqStates /\ x.at = "done" /\ x.user = u /\ x.ticket = t
      /\ x.what = req[r].what /\ x.new = req[r].new
  BY <1>1 DEF ReqStates, Ends
<1>4. /\ \A v \in Users \ {u} : org'[v] = org[v] /\ ws'[v] = ws[v]
      /\ org'[u] \in {"MEMBER", "OWNER"}
      /\ ws'[u] \in {"none", "member", "admin"} /\ (ws[u] # "none" => ws'[u] # "none")
      /\ ticket[t].seat => ws'[u] # "none"
      /\ ws'[u] # "none" /\ ws[u] = "none" => ticket[t].seat
      /\ org' \in [Users -> {"NONE", "MEMBER", "OWNER"}]
      /\ ws' \in [Users -> {"none", "member", "admin"}]
  BY <1>1 DEF Commit, IInv, TypeOK, Local
<1>5. /\ \A o \in Tickets \ {t} : ticket'[o] = ticket[o]
      /\ ticket'[t].seat = ticket[t].seat /\ ticket'[t].state # "none"
      /\ t \in Invites => ticket'[t].state = "closed" /\ ticket'[t].uses = ticket[t].uses
      /\ t \notin Invites => ticket'[t].uses = ticket[t].uses + 1
      /\ ticket' \in [Tickets -> TicketRows]
  BY <1>1 DEF Commit, IInv, TypeOK, TicketRows
<1>6. UNCHANGED stage /\ last' = IF ticket[t].seat THEN last \cup {u} ELSE last
  BY DEF Commit
<1>7. Grown(r)
  BY <1>1, <1>4, <1>5 DEF Grown
<1>8. Flow(req[r])' /\ Local(req[r])' /\ Admitted(req[r])'
  BY <1>1, <1>2, <1>3, <1>5 DEF Flow, Local, Admitted, InTx
<1>9. Spent'
  <2>1. req[r].what = "accept" => t \in Invites
    BY <1>1 DEF Flow
  <2>2. \A s \in Reqs \ {r} : req[s].what = "accept" /\ req[s].at = "done" =>
          req[s].ticket \in Tickets \ {t} /\ ticket[req[s].ticket].state = "closed"
    BY <1>1, RequestFacts DEF IInv, Spent
  <2>3. QED
    BY <1>2, <1>3, <1>5, <2>1, <2>2 DEF Spent
<1>10. TypeOK' /\ Locks' /\ TicketOf' /\ Progress'
  <2>1. \A o \in Tickets \cup {None} : ~Holds(r, o)'
    BY <1>2, <1>3 DEF Holds, InTx
  <2>2. req' \in [Reqs -> ReqStates] /\ \A s \in Reqs : req[s].ticket \in Tickets \cup {None}
    BY <1>2, <1>3 DEF IInv, TypeOK, ReqStates
  <2>3. last' \subseteq Users
    BY <1>1, <1>6 DEF IInv, TypeOK
  <2>4. QED
    BY <1>2, <1>4, <1>5, <1>6, <1>7, <1>8, <1>9, <2>1, <2>2, <2>3, OthersStay
<1>11. \A o \in Tickets : IF o = t THEN /\ Admissions(o)' = Admissions(o) \cup {r}
                                       /\ r \notin Admissions(o)
                                  ELSE Admissions(o)' = Admissions(o)
  <2>1. req'[r].what \in {"accept", "redeem"} /\ req'[r].at = "done" /\ req'[r].ticket = t
    BY <1>1, <1>2, <1>3
  <2>2. req[r].at # "done"
    BY <1>1
  <2>3. \A s \in Reqs \ {r} : req'[s] = req[s]
    BY <1>2
  <2>4. ASSUME NEW o \in Tickets, o = t
        PROVE  Admissions(o)' = Admissions(o) \cup {r} /\ r \notin Admissions(o)
    BY <2>1, <2>2, <2>3, <2>4 DEF Admissions
  <2>5. ASSUME NEW o \in Tickets, o # t
        PROVE  Admissions(o)' = Admissions(o)
    BY <2>1, <2>2, <2>3, <2>5 DEF Admissions
  <2>6. QED
    BY <2>4, <2>5
<1>12. CountedUses'
  <2>1. \A o \in Codes : o \in Tickets /\ o \notin Invites
    BY OrgAssumption DEF Tickets
  <2>2. \A o \in Tickets \ {t} : ticket'[o].uses = ticket[o].uses
    BY <1>5
  <2>3. ASSUME NEW o \in Codes
        PROVE  ticket'[o].uses = Cardinality(Admissions(o)')
    <3>1. CASE o = t
      <4>1. IsFiniteSet(Admissions(o))
        BY OrgAssumption, FS_Subset DEF Admissions
      <4>2. Cardinality(Admissions(o)') = Cardinality(Admissions(o)) + 1
        BY <1>11, <2>1, <3>1, <4>1, FS_AddElement
      <4>3. ticket'[o].uses = ticket[o].uses + 1
        BY <1>5, <2>1, <3>1
      <4>4. QED
        BY <4>2, <4>3 DEF IInv, CountedUses
    <3>2. CASE o # t
      <4>1. Admissions(o)' = Admissions(o) /\ ticket'[o].uses = ticket[o].uses
        BY <1>11, <2>1, <2>2, <3>2
      <4>2. ticket[o].uses = Cardinality(Admissions(o))
        BY DEF IInv, CountedUses
      <4>3. QED
        BY <4>1, <4>2
    <3>3. QED
      BY <3>1, <3>2
  <2>4. ASSUME NEW o \in Invites, o = t
        PROVE  Admissions(o) = {}
    <3>1. \A s \in Admissions(o) : req[s].what = "accept"
      BY LocalFacts, OrgAssumption DEF Admissions, Flow
    <3>2. QED
      BY <1>1, <2>4, <3>1 DEF IInv, Spent, Admissions
  <2>5. ASSUME NEW o \in Invites, NEW p \in Reqs, NEW s \in Reqs,
               p \in Admissions(o)', s \in Admissions(o)'
        PROVE  p = s
    <3>1. CASE o = t
      <4>1. o \in Tickets /\ Admissions(o) = {}
        BY <2>4, <3>1 DEF Tickets
      <4>2. Admissions(o)' = {r}
        BY <1>11, <3>1, <4>1
      <4>3. QED
        BY <2>5, <4>2
    <3>2. CASE o # t
      <4>1. p \in Admissions(o) /\ s \in Admissions(o)
        BY <1>11, <2>5, <3>2 DEF Tickets
      <4>2. QED
        BY <4>1 DEF IInv, CountedUses
    <3>3. QED
      BY <3>1, <3>2
  <2>6. QED
    BY <2>3, <2>5 DEF CountedUses
<1>13. Capped'
  BY <1>1, <1>5, OrgAssumption DEF IInv, TypeOK, TicketRows, Capped, Tickets, WithinCap
<1>14. MembershipsAreAccountedFor'
  <2>1. \A o \in Tickets : \A s \in Admissions(o)' :
          /\ org'[req'[s].user] # "NONE"
          /\ ticket'[o].seat => ws'[req'[s].user] # "none" /\ req'[s].user \in last'
    <3>1. \A o \in Tickets : \A s \in Admissions(o) :
            s # r /\ req[s].user \in Users /\ ticket'[o].seat = ticket[o].seat
      BY <1>1, <1>5, RequestFacts DEF Admissions
    <3>2. QED
      BY <1>1, <1>2, <1>3, <1>4, <1>5, <1>6, <1>11, <3>1 DEF IInv, MembershipsAreAccountedFor
  <2>2. \A v \in Users : org'[v] # "NONE" =>
          \/ v = Founder /\ stage' \notin {"none", "org"}
          \/ \E s \in Reqs : /\ req'[s].what \in {"accept", "redeem"}
                             /\ req'[s].at = "done" /\ req'[s].user = v
          \/ \E s \in Reqs : v \in req'[s].invited
    <3>1. req'[r].what \in {"accept", "redeem"} /\ req'[r].at = "done" /\ req'[r].user = u
      BY <1>1, <1>2, <1>3
    <3>2. \A v \in Users \ {u} : org'[v] # "NONE" =>
            \/ v = Founder /\ stage \notin {"none", "org"}
            \/ \E s \in Reqs : /\ req[s].what \in {"accept", "redeem"}
                               /\ req[s].at = "done" /\ req[s].user = v
            \/ \E s \in Reqs : v \in req[s].invited
      BY <1>4 DEF IInv, MembershipsAreAccountedFor
    <3>3. \A v \in Users : v = u =>
            \E s \in Reqs : /\ req'[s].what \in {"accept", "redeem"}
                            /\ req'[s].at = "done" /\ req'[s].user = v
      BY <3>1
    <3>4. \A s \in Reqs : req[s].at = "done" => req'[s] = req[s]
      BY <1>1, <1>2
    <3>5. \A v \in Users \ {u} :
            (\E s \in Reqs : /\ req[s].what \in {"accept", "redeem"}
                             /\ req[s].at = "done" /\ req[s].user = v)
            => \E s \in Reqs : /\ req'[s].what \in {"accept", "redeem"}
                               /\ req'[s].at = "done" /\ req'[s].user = v
      BY <3>4
    <3>6. \A s \in Reqs : req'[s].invited = req[s].invited
      BY <1>1, <1>2 DEF ReqStates
    <3> HIDE DEF u, t, x
    <3>7. QED
      BY <1>6, <3>2, <3>3, <3>5, <3>6
  <2>3. \A v \in Users : ws'[v] # "none" =>
          \/ v = Founder /\ stage' = "ready"
          \/ \E o \in Tickets : ticket'[o].seat /\ \E s \in Admissions(o)' : req'[s].user = v
          \/ \E s \in Reqs : req'[s].what = "visit" /\ req'[s].at # "seat" /\ req'[s].user = v
    <3> SUFFICES ASSUME NEW v \in Users, ws'[v] # "none"
                 PROVE  \/ v = Founder /\ stage' = "ready"
                        \/ \E o \in Tickets : ticket'[o].seat /\ \E s \in Admissions(o)' : req'[s].user = v
                        \/ \E s \in Reqs : req'[s].what = "visit" /\ req'[s].at # "seat" /\ req'[s].user = v
      OBVIOUS
    <3>1. CASE ws[v] = "none"
      <4>1. v = u /\ ticket'[t].seat
        BY <1>4, <1>5, <3>1
      <4>2. QED
        BY <1>1, <1>2, <1>3, <1>11, <4>1
    <3>2. CASE ws[v] # "none"
      <4>1. \A o \in Tickets : \A s \in Admissions(o) :
              s \in Admissions(o)' /\ req'[s].user = req[s].user /\ ticket'[o].seat = ticket[o].seat
        BY <1>1, <1>2, <1>5, <1>11 DEF Admissions
      <4>2. QED
        BY <1>1, <1>2, <1>6, <3>2, <4>1 DEF IInv, MembershipsAreAccountedFor
    <3>3. QED
      BY <3>1, <3>2
  <2>4. \A v \in last' : ws'[v] # "none"
    BY <1>1, <1>4, <1>6 DEF IInv, TypeOK, MembershipsAreAccountedFor
  <2>5. QED
    BY <2>1, <2>2, <2>3, <2>4 DEF MembershipsAreAccountedFor
<1>15. QED
  BY <1>9, <1>10, <1>12, <1>13, <1>14 DEF IInv

-----------------------------------------------------------------------------
LEMMA IInvStep == IInv /\ [Next]_vars => IInv'
<1> SUFFICES ASSUME IInv, [Next]_vars
             PROVE  IInv'
  OBVIOUS
<1>1. ASSUME UNCHANGED vars
      PROVE  IInv'
  <2>1. Capped' /\ CountedUses' /\ \A t \in Tickets : Admissions(t)' = Admissions(t)
    BY <1>1, RequestsUnchanged DEF vars
  <2>2. TypeOK' /\ Locks' /\ TicketOf' /\ Progress' /\ Spent'
    BY <1>1 DEF vars, IInv, TypeOK, Locks, Holds, TicketOf, WithinCap, Progress, Spent
  <2>3. MembershipsAreAccountedFor'
    BY <1>1, <2>1 DEF vars, IInv, MembershipsAreAccountedFor
  <2>4. QED
    BY <2>1, <2>2, <2>3 DEF IInv
<1>2. CASE CreateOrg \/ OwnOrg \/ CreateWorkspace \/ SeatCreator
  BY <1>2, FounderStep
<1>3. CASE \E t \in Tickets, seat \in BOOLEAN : MakeTicket(t, seat)
  BY <1>3, TicketStep
<1>4. CASE \E t \in Tickets : Expire(t) \/ Revoke(t)
  BY <1>4, TicketStep
<1>5. CASE \E r \in Reqs, u \in Users, t \in Tickets : BeginAdmission(r, u, t)
  BY <1>5, BeginStep
<1>6. CASE \E r \in Reqs, t \in Tickets : BeginDecline(r, t)
  BY <1>6, BeginStep
<1>7. CASE \E r \in Reqs, u \in Users : BeginVisit(r, u)
  BY <1>7, BeginStep
<1>8. CASE \E r \in Reqs : BeginBulk(r)
  BY <1>8, BeginStep
<1>9. CASE \E r \in Reqs, u \in Users, role \in {"MEMBER", "OWNER"} : BulkInvite(r, u, role)
  BY <1>9, PlainStep
<1>10. CASE \E r \in Reqs : Step(r)
  <2>1. PICK r \in Reqs : Step(r)
    BY <1>10
  <2>2. CASE Take(r) \/ Find(r) \/ CreateMember(r) \/ CreateSeat(r) \/ Fail(r)
           \/ AnswerBulk(r)
    BY <2>2, StatementStep
  <2>3. CASE Commit(r)
    BY <2>3, CommitStep
  <2>4. CASE Decline(r) \/ Seat(r) \/ Remember(r)
    BY <2>4, PlainStep, OrgAssumption
  <2>5. QED
    BY <2>1, <2>2, <2>3, <2>4 DEF Step
<1>11. CASE Settled
  BY <1>1, <1>11 DEF Settled
<1>12. QED
  BY <1>1, <1>2, <1>3, <1>4, <1>5, <1>6, <1>7, <1>8, <1>9, <1>10, <1>11 DEF Next

-----------------------------------------------------------------------------
LEMMA InvariantHolds == Spec => []IInv
BY InitIInv, IInvStep, PTL DEF Spec

\* In every reachable state the rows and the requests keep their types, and a
\* request stands only at a statement of the route it came by.
THEOREM OrgTypeCorrect == Spec => []TypeOK
<1>1. IInv => TypeOK
  BY DEF IInv
<1>2. QED
  BY <1>1, InvariantHolds, PTL

\* An invite admits one request at most, a join code as many as it counts and
\* never more than its cap, for any number of acceptances at the same time.
THEOREM TicketsNotOverspent == Spec => []TicketsAreNotOverspent
<1>1. IInv => TicketsAreNotOverspent
  BY DEF IInv, Capped, CountedUses, TicketsAreNotOverspent
<1>2. QED
  BY <1>1, InvariantHolds, PTL

\* Whoever was told to have joined has the rows, and every row has a request, or
\* the founding, that accounts for it.
THEOREM MembershipsAccounted == Spec => []MembershipsAreAccountedFor
<1>1. IInv => MembershipsAreAccountedFor
  BY DEF IInv
<1>2. QED
  BY <1>1, InvariantHolds, PTL

\* No transaction commits an admission by a ticket that has been closed.
THEOREM ClosedAdmitsNobody == Spec => ClosedTicketAdmitsNobody
<1>1. ASSUME IInv, NEW r \in Reqs, req[r].at = "commit"
      PROVE  ticket[req[r].ticket].state = "open"
  <2>1. req[r].ticket # None
    BY <1>1, RequestFacts, OrgAssumption DEF InTx, Tickets
  <2>2. QED
    BY <1>1, <2>1 DEF IInv, TicketOf, InTx
<1>2. IInv => [\A r \in Reqs : req[r].at = "commit" /\ req'[r].at = "done"
                 => ticket[req[r].ticket].state = "open"]_vars
  BY <1>1
<1>3. QED
  BY <1>2, InvariantHolds, PTL DEF ClosedTicketAdmitsNobody
=============================================================================
