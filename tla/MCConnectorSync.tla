-------------------------- MODULE MCConnectorSync --------------------------
EXTENDS ConnectorSync, TLC

Nowhere == [f \in Files |-> {}]
OneFile == CHOOSE f \in Files : TRUE

\* A file with any path, two files with one path between them, or Slack.
MCSetups ==
  {[paths |-> [Nowhere EXCEPT ![OneFile] = Paths], slack |-> FALSE]}
  \cup {[paths |-> [f \in Files |-> {p}], slack |-> FALSE] : p \in Paths}
  \cup {[paths |-> Nowhere, slack |-> TRUE]}

\* No guard tells auth_failed from sync_failed.
OneFailure == slack.status # "auth_failed"

Symmetry == Permutations(Jobs) \cup Permutations(Paths)
            \cup Permutations(Rows) \cup Permutations(Channels)
=============================================================================
