---------------------------- MODULE MCOrgAccess ----------------------------
EXTENDS OrgAccess, TLC

Symmetry == Permutations(Reqs)

Of(kind) == {r \in Reqs : req[r].what = kind}

\* Acceptances and redemptions race with one another and with one visit, decline or
\* bulk invite, three that write different tables.  Only an invite expires, a code
\* is revoked; only the founder becomes an owner: no guard looks at the role.
Mixes ==
  /\ Cardinality(Of("visit") \cup Of("decline") \cup Of("bulk")) <= 1
  /\ \A t \in Codes : ~ticket[t].expired
  /\ \A u \in Users \ {Founder} : org[u] # "OWNER"
=============================================================================
