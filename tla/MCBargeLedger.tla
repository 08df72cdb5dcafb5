---------------------------- MODULE MCBargeLedger ----------------------------
\* Two overlapping requests on two vessels; once there is a collection, on the
\* vessel that makes it and the shore.
EXTENDS BargeLedger, TLC

Collecting == \E c \in Collections : vessel[c] # NoVessel

WithinBounds ==
  /\ \A v \in Vessels :
       /\ rob[v] \in -1..MaxRob /\ Drift(v) \in -1..1
       /\ ~Collecting => Drift(v) = 0
       /\ Collecting /\ On(v) = {} =>
            /\ rob[v] = 0 /\ own[v] = 0
            /\ \A q \in Requests : v \notin {request[q].from, request[q].into}
  /\ \A c \in Collections : posted[c] <= MaxRob
  /\ Collecting => Cardinality({q \in Requests : request[q].kind = "discharge"}) <= 1

Symmetry == Permutations(Requests) \cup Permutations(Vessels)
=============================================================================
