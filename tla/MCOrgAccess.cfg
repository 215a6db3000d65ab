\* Two users, two ways in, three requests: two that race and one more.
CONSTANTS
  Users = {f, u}
  Founder = f
  Invites = {i}
  Codes = {c}
  MaxUses = 1
  Reqs = {r1, r2, r3}
  None = None
SPECIFICATION Spec
SYMMETRY Symmetry
CONSTRAINT Mixes
INVARIANTS TypeOK TicketsAreNotOverspent MembershipsAreAccountedFor
PROPERTY ClosedTicketAdmitsNobody
