---------------------------- MODULE MCSessionPage ----------------------------
EXTENDS SessionPage, TLC

Symmetry == Permutations(Pages) \cup Permutations(Jobs) \cup Permutations(Calls)

\* A handler that appends nothing may repeat an event without end: at most so
\* many messages wait for a page, and such a handler reads before the last event.
MaxQueue == 2
Waiting ==
  /\ \A p \in Pages : Len(queue[p]) <= MaxQueue
  /\ \A j \in Jobs : job[j].at = "read" /\ job[j].mine = {} => Len(history) < MaxEvents
=============================================================================
