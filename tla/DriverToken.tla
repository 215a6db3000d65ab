---------------------------- MODULE DriverToken ----------------------------
(***************************************************************************)
(* What the driving right of a live session promises, without rows, roles, *)
(* locks or events: one indivisible token.  Somebody creates it, and from  *)
(* then on it moves only when the user who holds it has offered it to      *)
(* somebody and still holds it when the offer is taken.  There is no       *)
(* action that takes the token away from its holder.                       *)
(***************************************************************************)
CONSTANTS Users,    \* users that may hold the token
          NoUser,   \* "nobody"
          Offers    \* names of offers that may be open at the same time

VARIABLES holder,   \* who holds the token
          offer     \* offer[o]: the pair <<from, to>> of an open offer, or NoOffer

tokenVars == <<holder, offer>>

NoOffer == <<NoUser, NoUser>>

TokenInit == /\ holder = NoUser
             /\ offer = [o \in Offers |-> NoOffer]

\* The creator of the session takes the token nobody has held before.
Take(u) == /\ holder = NoUser
           /\ holder' = u
           /\ UNCHANGED offer

\* The holder, and nobody else, offers the token.
Offer(o, n) == /\ offer[o] = NoOffer
               /\ holder # NoUser
               /\ offer' = [offer EXCEPT ![o] = <<holder, n>>]
               /\ UNCHANGED holder

\* An offer may come to nothing.
Withdraw(o) == /\ offer[o] # NoOffer
               /\ offer' = [offer EXCEPT ![o] = NoOffer]
               /\ UNCHANGED holder

\* An offer is taken only while the user who made it is the holder.
Accept(o, n) == /\ offer[o] = <<holder, n>>
                /\ holder' = n
                /\ offer' = [offer EXCEPT ![o] = NoOffer]

TokenNext == \/ \E u \in Users : Take(u)
             \/ \E o \in Offers : \/ Withdraw(o)
                                  \/ \E n \in Users : Offer(o, n) \/ Accept(o, n)

TokenSpec == TokenInit /\ [][TokenNext]_tokenVars
=============================================================================
