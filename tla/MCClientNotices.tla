--------------------------- MODULE MCClientNotices ---------------------------
\* Licences: a PPDL, two BFLs, two requests, no vessel named yet.
\* Notices: one clearance, one vessel, two notices, two requests, over a licence
\* chain at rest.  The halves meet at the clearance and are explored in turn.
EXTENDS ClientNotices, TLC

NoticesUntouched ==
  /\ link = {} /\ live = Operations
  /\ \A v \in Vessels : ~eta[v]
  /\ \A n \in Notices : notice[n].status = "none"
  /\ \A q \in Requests : job[q] = Idle

\* One litre on one BFL, drawn by one clearance with one vessel.
LicencesSettled ==
  /\ \A q \in Requests : issuing[q] = NotIssuing /\ clearing[q] = <<>>
  /\ \A p \in Ppdls : allowance[p] = 1
  /\ \E b \in Bfls, c \in Clearances :
       /\ bfl[b].litres = 1 /\ drawn[c][b] = 1
       /\ \A other \in Bfls \ {b} : ~InTable(other)

\* Three litres are for one BFL, before any clearance: room for a cut, read before
\* a deeper one, to raise the BFL again.
AtMostTwo ==
  /\ \A p \in Ppdls : allowance[p] <= 2
  /\ \A b \in Bfls : bfl[b].litres <= 2
  /\ \A q \in Requests : issuing[q].litres <= 2 /\ \A i \in DOMAIN clearing[q] : clearing[q][i].litres <= 2
OneBfl ==
  /\ \A q \in Requests : clearing[q] = <<>>
  /\ \A c \in Clearances, b \in Bfls : drawn[c][b] = 0
  /\ Cardinality({b \in Bfls : InTable(b) \/ \E q \in Requests : issuing[q].bfl = b}) <= 1

InTurn == (NoticesUntouched /\ (AtMostTwo \/ OneBfl)) \/ LicencesSettled

Symmetry ==
  Permutations(Bfls) \cup Permutations(Requests) \cup Permutations(Notices)
=============================================================================
