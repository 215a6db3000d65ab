----------------------------- MODULE OrgAccess -----------------------------
(***************************************************************************)
(* Who belongs to an organization and to its workspace: invites and join   *)
(* codes (src/api/invites/invite-router.ts, src/api/orgs/org-router.ts),   *)
(* the workspace check of src/middleware/auth-middleware.ts and the        *)
(* creation of both (org-router.ts, src/api/workspaces/workspace-router).  *)
(*                                                                         *)
(* accept and redeem are one transaction each, under READ COMMITTED: a     *)
(* row it has written stays locked and unseen until it commits, an insert  *)
(* of a key that another transaction has inserted waits for that one and   *)
(* then fails on the unique index.  The other requests commit statement    *)
(* by statement.                                                           *)
(*                                                                         *)
(* The role a ticket carries is left out: who is admitted is a member.     *)
(***************************************************************************)
EXTENDS Naturals, FiniteSets

CONSTANTS Users,
          Founder,   \* the user who creates the organization and workspace
          Invites,
          Codes,     \* join codes
          MaxUses,   \* OrgJoinCode.maxUses; 0 stands for null, no limit
          Reqs,      \* requests, each made once
          None

ASSUME OrgAssumption == /\ Founder \in Users
                        /\ MaxUses \in Nat
                        /\ Invites \cap Codes = {}
                        /\ IsFiniteSet(Reqs)
                        /\ None \notin Users \cup Invites \cup Codes

VARIABLES
  stage,    \* what of organization and workspace exists
  org,      \* Membership.role by user; "NONE": no row
  ws,       \* WorkspaceMember.role by user; "none": no row
  last,     \* users whose lastWorkspaceId is the workspace
  ticket,   \* OrgInvite and OrgJoinCode rows
  req       \* the requests

vars == <<stage, org, ws, last, ticket, req>>

Tickets == Invites \cup Codes
Stages == {"none", "org", "owned", "workspace", "ready"}
\* state: "none" before it is made, "closed": consumedAt set or revoked.
TicketRows == [state : {"none", "open", "closed"}, seat : BOOLEAN,
               expired : BOOLEAN, uses : Nat]
Ends == {"done", "failed"}
InTx == {"findMember", "createMember", "findSeat", "createSeat", "commit"}
Kinds == {"none", "accept", "redeem", "decline", "visit", "bulk"}
\* new: the rows its transaction inserted; invited: whom a bulk invite has upserted.
Idle == [what |-> "none", at |-> "idle", user |-> None, ticket |-> None,
         new |-> {}, invited |-> {}]

Goto(r, at) == req' = [req EXCEPT ![r].at = at]
Start(r, what, at, u, t) ==
  /\ req[r] = Idle
  /\ req' = [req EXCEPT ![r] = [what |-> what, at |-> at, user |-> u, ticket |-> t,
                                new |-> {}, invited |-> {}]]

-----------------------------------------------------------------------------
(* Row locks of the transactions *)

\* r has written the ticket's row and not ended.
Holds(r, t) == req[r].at \in InTx /\ req[r].ticket = t
TicketFree(t) == \A r \in Reqs : ~Holds(r, t)
\* Nobody else has inserted the row of u in table and not ended.
KeyFree(r, u, table) ==
  \A s \in Reqs \ {r} : ~(req[s].at \in InTx /\ req[s].user = u /\ table \in req[s].new)

-----------------------------------------------------------------------------
(* The organization, its workspace, its tickets *)

\* POST /orgs and POST /workspaces: two statements each, without a transaction.
CreateOrg == stage = "none" /\ stage' = "org" /\ UNCHANGED <<org, ws, last, ticket, req>>
OwnOrg ==
  /\ stage = "org"
  /\ org[Founder] = "NONE"
  /\ \A r \in Reqs : KeyFree(r, Founder, "org")
  /\ stage' = "owned"
  /\ org' = [org EXCEPT ![Founder] = "OWNER"]
  /\ UNCHANGED <<ws, last, ticket, req>>
CreateWorkspace ==
  /\ stage = "owned"
  /\ stage' = "workspace"
  /\ UNCHANGED <<org, ws, last, ticket, req>>
SeatCreator ==
  /\ stage = "workspace"
  /\ ws[Founder] = "none"
  /\ \A r \in Reqs : KeyFree(r, Founder, "ws")
  /\ stage' = "ready"
  /\ ws' = [ws EXCEPT ![Founder] = "admin"]
  /\ \/ last' = last \cup {Founder}
     \/ UNCHANGED last                  \* the update's failure is ignored
  /\ UNCHANGED <<org, ticket, req>>

HasWorkspace == stage \in {"workspace", "ready"}

\* members/invite and join-codes: a member makes a ticket, with the workspace or not.
MakeTicket(t, seat) ==
  /\ ticket[t].state = "none"
  /\ \E u \in Users : org[u] # "NONE"
  /\ seat => HasWorkspace
  /\ ticket' = [ticket EXCEPT ![t].state = "open", ![t].seat = seat]
  /\ UNCHANGED <<stage, org, ws, last, req>>

\* The time of expiresAt comes.
Expire(t) ==
  /\ ticket[t].state # "none" /\ ~ticket[t].expired
  /\ ticket' = [ticket EXCEPT ![t].expired = TRUE]
  /\ UNCHANGED <<stage, org, ws, last, req>>

\* DELETE join-codes: one update, which waits for the row.
Revoke(t) ==
  /\ t \in Codes
  /\ ticket[t].state = "open"
  /\ TicketFree(t)
  /\ ticket' = [ticket EXCEPT ![t].state = "closed"]
  /\ UNCHANGED <<stage, org, ws, last, req>>

-----------------------------------------------------------------------------
(* accept an invite, redeem a join code *)

Usable(t) == ticket[t].state = "open" /\ ~ticket[t].expired
WithinCap(t) == t \in Codes /\ MaxUses > 0 => ticket[t].uses < MaxUses

\* The row is read and checked before the transaction begins.
BeginAdmission(r, u, t) ==
  /\ Usable(t)
  /\ WithinCap(t)
  /\ Start(r, IF t \in Invites THEN "accept" ELSE "redeem", "take", u, t)
  /\ UNCHANGED <<stage, org, ws, last, ticket>>

\* Checks only what the earlier read has shown.
TakeAsRead(r) ==
  /\ req[r].at = "take"
  /\ TicketFree(req[r].ticket)
  /\ Goto(r, "findMember")
  /\ UNCHANGED <<stage, org, ws, last, ticket>>

\* An increment without the where clause on useCount.
TakeUncapped(r) ==
  /\ req[r].at = "take"
  /\ TicketFree(req[r].ticket)
  /\ ticket[req[r].ticket].state = "open"
  /\ Goto(r, "findMember")
  /\ UNCHANGED <<stage, org, ws, last, ticket>>

\* updateMany: waits for the row and looks at it again; no row updated throws.
Take(r) ==
  /\ req[r].at = "take"
  /\ LET t == req[r].ticket
     IN  /\ TicketFree(t)
         /\ Goto(r, IF ticket[t].state = "open" /\ WithinCap(t) THEN "findMember" ELSE "failed")
  /\ UNCHANGED <<stage, org, ws, last, ticket>>

\* The two rows: looked up, then inserted unless one was found.
Find(r) ==
  /\ \/ /\ req[r].at = "findMember"
        /\ Goto(r, IF org[req[r].user] = "NONE" THEN "createMember"
                   ELSE IF ticket[req[r].ticket].seat THEN "findSeat" ELSE "commit")
     \/ /\ req[r].at = "findSeat"
        /\ Goto(r, IF ws[req[r].user] = "none" THEN "createSeat" ELSE "commit")
  /\ UNCHANGED <<stage, org, ws, last, ticket>>

CreateMember(r) ==
  /\ req[r].at = "createMember"
  /\ KeyFree(r, req[r].user, "org")
  /\ org[req[r].user] = "NONE"
  /\ req' = [req EXCEPT ![r].at = IF ticket[req[r].ticket].seat THEN "findSeat" ELSE "commit",
                        ![r].new = @ \cup {"org"}]
  /\ UNCHANGED <<stage, org, ws, last, ticket>>

CreateSeat(r) ==
  /\ req[r].at = "createSeat"
  /\ KeyFree(r, req[r].user, "ws")
  /\ ws[req[r].user] = "none"
  /\ req' = [req EXCEPT ![r].at = "commit", ![r].new = @ \cup {"ws"}]
  /\ UNCHANGED <<stage, org, ws, last, ticket>>

\* What the transaction wrote becomes visible: the consumed invite or the count,
\* the rows it inserted, lastWorkspaceId.
Commit(r) ==
  LET u == req[r].user
      t == req[r].ticket
  IN  /\ req[r].at = "commit"
      /\ org' = [org EXCEPT ![u] = IF "org" \in req[r].new THEN "MEMBER" ELSE @]
      /\ ws' = [ws EXCEPT ![u] = IF "ws" \in req[r].new THEN "member" ELSE @]
      /\ last' = IF ticket[t].seat THEN last \cup {u} ELSE last
      /\ ticket' = IF t \in Invites THEN [ticket EXCEPT ![t].state = "closed"]
                                    ELSE [ticket EXCEPT ![t].uses = @ + 1]
      /\ Goto(r, "done")
      /\ UNCHANGED stage

\* A failing request outside a transaction: the memberships it made are kept.
FailHalfway(r) ==
  /\ req[r].at \notin Ends \cup {"idle"}
  /\ Goto(r, "failed")
  /\ org' = [u \in Users |-> IF u = req[r].user /\ "org" \in req[r].new THEN "MEMBER" ELSE org[u]]
  /\ UNCHANGED <<stage, ws, last, ticket>>

\* A statement fails, on a unique index or otherwise, or the process ends: what
\* the transaction wrote is undone.
Fail(r) ==
  /\ req[r].at \notin Ends \cup {"idle"}
  /\ Goto(r, "failed")
  /\ UNCHANGED <<stage, org, ws, last, ticket>>

-----------------------------------------------------------------------------
(* decline, the workspace check, bulk invites *)

\* Closes the invite whatever its state and whoever asks.
BeginDecline(r, t) ==
  /\ t \in Invites
  /\ ticket[t].state # "none"
  /\ Start(r, "decline", "close", None, t)
  /\ UNCHANGED <<stage, org, ws, last, ticket>>
Decline(r) ==
  /\ req[r].at = "close"
  /\ TicketFree(req[r].ticket)
  /\ ticket' = [ticket EXCEPT ![req[r].ticket].state = "closed"]
  /\ Goto(r, "done")
  /\ UNCHANGED <<stage, org, ws, last>>

\* requireWorkspaceRole: whoever comes without a row gets one, then lastWorkspaceId.
BeginVisit(r, u) ==
  /\ HasWorkspace
  /\ Start(r, "visit", IF ws[u] = "none" THEN "seat" ELSE "remember", u, None)
  /\ UNCHANGED <<stage, org, ws, last, ticket>>
Seat(r) ==
  /\ req[r].at = "seat"
  /\ KeyFree(r, req[r].user, "ws")
  /\ ws[req[r].user] = "none"
  /\ ws' = [ws EXCEPT ![req[r].user] = "member"]
  /\ Goto(r, "remember")
  /\ UNCHANGED <<stage, org, last, ticket>>
Remember(r) ==
  /\ req[r].at = "remember"
  /\ \/ last' = last \cup {req[r].user}
     \/ UNCHANGED last                  \* the update's failure is ignored
  /\ Goto(r, "done")
  /\ UNCHANGED <<stage, org, ws, ticket>>

\* POST /orgs/:id/invites: one upsert after the other, without a check of the
\* caller and without a transaction: when one fails (Fail), the answer is 500 and
\* the earlier ones stay.
BeginBulk(r) ==
  /\ stage # "none"
  /\ Start(r, "bulk", "invite", None, None)
  /\ UNCHANGED <<stage, org, ws, last, ticket>>

\* An upsert that stores the role as it was sent.
BulkInviteRaw(r, u, role) ==
  /\ req[r].at = "invite"
  /\ KeyFree(r, u, "org")
  /\ org' = [org EXCEPT ![u] = IF role = "MEMBER" THEN "member" ELSE role]
  /\ req' = [req EXCEPT ![r].invited = @ \cup {u}]
  /\ UNCHANGED <<stage, ws, last, ticket>>

BulkInvite(r, u, role) ==
  /\ req[r].at = "invite"
  /\ KeyFree(r, u, "org")
  /\ org' = [org EXCEPT ![u] = role]
  /\ req' = [req EXCEPT ![r].invited = @ \cup {u}]
  /\ UNCHANGED <<stage, ws, last, ticket>>

AnswerBulk(r) ==
  /\ req[r].at = "invite"
  /\ Goto(r, "done")
  /\ UNCHANGED <<stage, org, ws, last, ticket>>

-----------------------------------------------------------------------------
Init ==
  /\ stage = "none"
  /\ org = [u \in Users |-> "NONE"]
  /\ ws = [u \in Users |-> "none"]
  /\ last = {}
  /\ ticket = [t \in Tickets |-> [state |-> "none", seat |-> FALSE, expired |-> FALSE, uses |-> 0]]
  /\ req = [r \in Reqs |-> Idle]

Settled == (\A r \in Reqs : req[r].at \in Ends) /\ UNCHANGED vars

Step(r) ==
  \/ Take(r) \/ Find(r) \/ CreateMember(r) \/ CreateSeat(r) \/ Commit(r) \/ Fail(r)
  \/ Decline(r) \/ Seat(r) \/ Remember(r) \/ AnswerBulk(r)

Next ==
  \/ CreateOrg \/ OwnOrg \/ CreateWorkspace \/ SeatCreator
  \/ \E t \in Tickets, seat \in BOOLEAN : MakeTicket(t, seat)
  \/ \E t \in Tickets : Expire(t) \/ Revoke(t)
  \/ \E r \in Reqs, u \in Users, t \in Tickets : BeginAdmission(r, u, t)
  \/ \E r \in Reqs, t \in Tickets : BeginDecline(r, t)
  \/ \E r \in Reqs, u \in Users : BeginVisit(r, u)
  \/ \E r \in Reqs : BeginBulk(r)
  \/ \E r \in Reqs, u \in Users, role \in {"MEMBER", "OWNER"} : BulkInvite(r, u, role)
  \/ \E r \in Reqs : Step(r)
  \/ Settled

Spec == Init /\ [][Next]_vars

-----------------------------------------------------------------------------
(* Properties *)

\* The variables keep their types, and a request between two statements is of
\* the route those statements belong to (the handlers' control flow).
TypeOK ==
  /\ stage \in Stages
  /\ org \in [Users -> {"NONE", "MEMBER", "OWNER"}]
  /\ ws \in [Users -> {"none", "member", "admin"}]
  /\ last \subseteq Users
  /\ ticket \in [Tickets -> TicketRows]
  /\ req \in [Reqs -> [what : Kinds, at : {"idle", "take", "close", "seat", "remember", "invite"} \cup InTx \cup Ends,
                       user : Users \cup {None}, ticket : Tickets \cup {None},
                       new : SUBSET {"org", "ws"}, invited : SUBSET Users]]
  /\ \A r \in Reqs :
       /\ req[r].at = "idle" => req[r] = Idle
       /\ req[r].what = "accept" => req[r].ticket \in Invites /\ req[r].user \in Users
       /\ req[r].what = "redeem" => req[r].ticket \in Codes /\ req[r].user \in Users
       /\ req[r].what = "visit" => req[r].user \in Users
       /\ req[r].at \in {"take"} \cup InTx => req[r].what \in {"accept", "redeem"}
       /\ req[r].at = "close" => req[r].what = "decline" /\ req[r].ticket \in Invites
       /\ req[r].at \in {"seat", "remember"} => req[r].what = "visit"
       /\ req[r].at = "invite" => req[r].what = "bulk"
       /\ req[r].invited # {} => req[r].what = "bulk"

Admissions(t) ==
  {r \in Reqs : req[r].what \in {"accept", "redeem"} /\ req[r].at = "done" /\ req[r].ticket = t}

\* An invite admits at most once, a join code as often as it counts and never
\* more often than its cap, whoever accepts and redeems at the same time
\* (invite-router.ts, "atomic compare-and-consume", "cap enforcement").
TicketsAreNotOverspent ==
  /\ \A t \in Invites, r, s \in Reqs : r \in Admissions(t) /\ s \in Admissions(t) => r = s
  /\ \A t \in Codes : /\ ticket[t].uses = Cardinality(Admissions(t))
                       /\ MaxUses > 0 => ticket[t].uses <= MaxUses

\* Who was told to have joined has the rows, and who has a row was told so or
\* got it on one of the other ways: an acceptance or redemption that failed has
\* left nothing, in whatever statement and beside whatever other request of the
\* same user (a bulk invite that failed has left the rows it had reached); and the
\* workspace computePostAuthRoute sends a user to is one of his own.
MembershipsAreAccountedFor ==
  /\ \A t \in Tickets : \A r \in Admissions(t) :
       /\ org[req[r].user] # "NONE"
       /\ ticket[t].seat => ws[req[r].user] # "none" /\ req[r].user \in last
  /\ \A u \in Users :
       /\ org[u] # "NONE" =>
            \/ u = Founder /\ stage \notin {"none", "org"}
            \/ \E r \in Reqs : /\ req[r].what \in {"accept", "redeem"}
                               /\ req[r].at = "done" /\ req[r].user = u
            \/ \E r \in Reqs : u \in req[r].invited
       /\ ws[u] # "none" =>
            \/ u = Founder /\ stage = "ready"
            \/ \E t \in Tickets : ticket[t].seat /\ \E r \in Admissions(t) : req[r].user = u
            \/ \E r \in Reqs : req[r].what = "visit" /\ req[r].at # "seat" /\ req[r].user = u
  /\ \A u \in last : ws[u] # "none"

\* Nobody joins by an invite once a decline of it, or another acceptance, has
\* been answered, nor by a join code once its revocation has: the check before
\* the transaction may be old, the update in it is not.
ClosedTicketAdmitsNobody ==
  [][\A r \in Reqs : req[r].at = "commit" /\ req'[r].at = "done"
                        => ticket[req[r].ticket].state = "open"]_vars
=============================================================================
