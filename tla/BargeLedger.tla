---------------------------- MODULE BargeLedger ----------------------------
(***************************************************************************)
(* What moves the figure a vessel is said to have on board besides the      *)
(* reviews of delivery notes: ship-to-ship collections                      *)
(* (sts_collection_service), vessel discharge events                        *)
(* (vessel_discharge_service) and entries recorded by hand                  *)
(* (vessel_service.record_rob_entry).                                       *)
(*                                                                         *)
(* vessels.current_rob_mt is a total kept beside rob_entries.  A request    *)
(* reads its rows at its beginning and writes absolute values at its        *)
(* commit.  Stages, safety checklists and descriptive fields of a           *)
(* collection gate nothing and are left out.                                *)
(***************************************************************************)
EXTENDS Integers, FiniteSetsExt

CONSTANTS
  Vessels, NoVessel,
  Collections, NoCollection,
  Requests,
  MaxMt,     \* bound on the tonnage of one receipt or entry
  MaxRob     \* bound on the figure, either way

ASSUME BargeAssumption ==
  /\ NoVessel \notin Vessels /\ NoCollection \notin Collections
  /\ IsFiniteSet(Collections)
  /\ MaxMt \in Nat /\ MaxRob \in Nat

VARIABLES
  rob,      \* vessels.current_rob_mt
  status,   \* sts_collections.status; "none" before the row exists
  vessel,   \* sts_collections.vessel_id
  mt,       \* sts_collections.mt_vacuum; 0 before figures are submitted
  posted,   \* the sum of the rob_entries tagged with the collection's receipt number
  own,      \* the sum of a vessel's other rob_entries
  request   \* what each open request has read and is about to write

vars == <<rob, status, vessel, mt, posted, own, request>>

Statuses == {"none", "in_progress", "pending", "approved", "rejected", "cancelled"}
Tonnes == 1..MaxMt

Kinds == {"submit", "approve", "reject", "correct", "cancel"}
\* was, before, seen: the status, figure and vessel total read; goes: the new figure.
Request == [kind: Kinds \cup {"idle", "discharge"}, on: Collections \cup {NoCollection},
            was: Statuses, before: 0..MaxMt, goes: 0..MaxMt,
            from: Vessels \cup {NoVessel}, into: Vessels \cup {NoVessel},
            seen: [Vessels -> Int]]
Idle == [kind |-> "idle", on |-> NoCollection, was |-> "none", before |-> 0, goes |-> 0,
         from |-> NoVessel, into |-> NoVessel, seen |-> [v \in Vessels |-> 0]]

TypeOK ==
  /\ rob \in [Vessels -> Int]
  /\ status \in [Collections -> Statuses]
  /\ vessel \in [Collections -> Vessels \cup {NoVessel}]
  /\ mt \in [Collections -> 0..MaxMt]
  /\ posted \in [Collections -> Int]
  /\ own \in [Vessels -> Int]
  /\ request \in [Requests -> Request]

Init ==
  /\ rob = [v \in Vessels |-> 0]
  /\ status = [c \in Collections |-> "none"]
  /\ vessel = [c \in Collections |-> NoVessel]
  /\ mt = [c \in Collections |-> 0]
  /\ posted = [c \in Collections |-> 0]
  /\ own = [v \in Vessels |-> 0]
  /\ request = [q \in Requests |-> Idle]

\* The totals a request reads; it never looks at the others.
Read(vs) == [v \in Vessels |-> IF v \in vs THEN rob[v] ELSE 0]

-----------------------------------------------------------------------------
(* Entries recorded by hand.  The vessel's row is locked before it is read. *)

RecordUnchecked(v, x) ==
  /\ rob' = [rob EXCEPT ![v] = @ + x]
  /\ own' = [own EXCEPT ![v] = @ + x]
  /\ UNCHANGED <<status, vessel, mt, posted, request>>

\* Discharges are the entries with a negative quantity.
RecordRobEntry(v, x) ==
  /\ rob[v] + x >= 0 \/ x > 0
  /\ rob' = [rob EXCEPT ![v] = @ + x]
  /\ own' = [own EXCEPT ![v] = @ + x]
  /\ UNCHANGED <<status, vessel, mt, posted, request>>

-----------------------------------------------------------------------------
(* Ship-to-ship collections.                                                *)

CreateCollection(c, v) ==
  /\ status[c] = "none"
  /\ status' = [status EXCEPT ![c] = "in_progress"]
  /\ vessel' = [vessel EXCEPT ![c] = v]
  /\ UNCHANGED <<rob, mt, posted, own, request>>

AcceptsCancelled(kind) ==
  CASE kind = "submit"  -> {"in_progress", "rejected"}
    [] kind = "correct" -> {"pending", "approved", "rejected", "cancelled"}
    [] kind = "cancel"  -> {"in_progress", "pending", "approved", "rejected"}
    [] OTHER            -> {"pending"}

\* The statuses each handler accepts.
Accepts(kind) ==
  CASE kind = "submit"  -> {"in_progress", "rejected"}
    [] kind = "correct" -> {"pending", "approved", "rejected"}
    [] kind = "cancel"  -> {"in_progress", "pending", "approved", "rejected"}
    [] OTHER            -> {"pending"}

Begin(q, kind, c, x) ==
  /\ request[q] = Idle
  /\ status[c] \in Accepts(kind)
  /\ request' = [request EXCEPT ![q] =
       [kind |-> kind, on |-> c, was |-> status[c], before |-> mt[c],
        goes |-> IF kind \in {"submit", "correct"} THEN x ELSE mt[c],
        from |-> NoVessel, into |-> NoVessel, seen |-> Read({vessel[c]})]]
  /\ UNCHANGED <<rob, status, vessel, mt, posted, own>>

\* The figure a locked vessel is taken to have: SELECT ... FOR UPDATE returns the
\* present one, but the session holds the vessel it loaded with the collection,
\* and whether the mapper then renews it is not the code's to say.
Base(q, v) == {request[q].seen[v], rob[v]}

\* The column is written only when its value differs from the one read.
Figure(q) ==
  LET r == request[q] IN
  IF r.goes = r.before THEN mt ELSE [mt EXCEPT ![r.on] = r.goes]

CommitFigures(q) ==
  LET r == request[q] IN
  /\ \/ r.kind \in {"submit", "reject"}
     \/ r.kind \in {"correct", "cancel"} /\ r.was # "approved"
  /\ mt' = Figure(q)
  /\ status' = [status EXCEPT ![r.on] =
       CASE r.kind = "submit"  -> "pending"
         [] r.kind = "reject"  -> "rejected"
         [] r.kind = "cancel"  -> "cancelled"
         [] r.kind = "correct" -> @]
  /\ request' = [request EXCEPT ![q] = Idle]
  /\ UNCHANGED <<rob, vessel, posted, own>>

\* _credit_rob
CommitApproval(q) ==
  LET r == request[q]
      v == vessel[r.on]
  IN
  /\ r.kind = "approve"
  /\ \E base \in Base(q, v) : rob' = [rob EXCEPT ![v] = base + r.before]
  /\ posted' = [posted EXCEPT ![r.on] = @ + r.before]
  /\ status' = [status EXCEPT ![r.on] = "approved"]
  /\ request' = [request EXCEPT ![q] = Idle]
  /\ UNCHANGED <<vessel, mt, own>>

CorrectWithoutReversal(q) ==
  LET r == request[q]
      v == vessel[r.on]
  IN
  /\ r.kind = "correct" /\ r.was = "approved"
  /\ \E base \in Base(q, v) : rob' = [rob EXCEPT ![v] = base + r.goes]
  /\ posted' = [posted EXCEPT ![r.on] = @ + r.goes]
  /\ mt' = Figure(q)
  /\ request' = [request EXCEPT ![q] = Idle]
  /\ UNCHANGED <<status, vessel, own>>

\* _reverse_rob takes off whatever entries carry the receipt's number now;
\* _credit_rob adds the new figure.
CommitCorrection(q) ==
  LET r == request[q]
      v == vessel[r.on]
  IN
  /\ r.kind = "correct" /\ r.was = "approved"
  /\ \E base \in Base(q, v) : rob' = [rob EXCEPT ![v] = base - posted[r.on] + r.goes]
  /\ posted' = [posted EXCEPT ![r.on] = r.goes]
  /\ mt' = Figure(q)
  /\ request' = [request EXCEPT ![q] = Idle]
  /\ UNCHANGED <<status, vessel, own>>

CancelKeepingRob(q) ==
  LET r == request[q] IN
  /\ r.kind = "cancel" /\ r.was = "approved"
  /\ posted' = [posted EXCEPT ![r.on] = 0]
  /\ status' = [status EXCEPT ![r.on] = "cancelled"]
  /\ request' = [request EXCEPT ![q] = Idle]
  /\ UNCHANGED <<rob, vessel, mt, own>>

\* With no entry left to take off, the vessel is not written.
CommitCancellation(q) ==
  LET r == request[q]
      v == vessel[r.on]
  IN
  /\ r.kind = "cancel" /\ r.was = "approved"
  /\ IF posted[r.on] = 0 THEN UNCHANGED rob
     ELSE \E base \in Base(q, v) : rob' = [rob EXCEPT ![v] = base - posted[r.on]]
  /\ posted' = [posted EXCEPT ![r.on] = 0]
  /\ status' = [status EXCEPT ![r.on] = "cancelled"]
  /\ request' = [request EXCEPT ![q] = Idle]
  /\ UNCHANGED <<vessel, mt, own>>

-----------------------------------------------------------------------------
(* Discharge events.  No lock, and no floor.  The receiving vessel is read a *)
(* little later than here, after the first flush.                           *)

BeginDischarge(q, v, into, x) ==
  /\ request[q] = Idle
  /\ request' = [request EXCEPT ![q] =
       [kind |-> "discharge", on |-> NoCollection, was |-> "none", before |-> 0, goes |-> x,
        from |-> v, into |-> into, seen |-> Read({v, into})]]
  /\ UNCHANGED <<rob, status, vessel, mt, posted, own>>

\* A vessel may be named as its own destination: its row is in the session by then.
CommitDischarge(q) ==
  LET r == request[q]
      Change(v) == (IF v = r.into THEN r.goes ELSE 0) - (IF v = r.from THEN r.goes ELSE 0)
  IN
  /\ r.kind = "discharge"
  /\ rob' = [v \in Vessels |-> IF v \in {r.from, r.into} THEN r.seen[v] + Change(v) ELSE rob[v]]
  /\ own' = [v \in Vessels |-> own[v] + Change(v)]
  /\ request' = [request EXCEPT ![q] = Idle]
  /\ UNCHANGED <<status, vessel, mt, posted>>

\* The request fails: its session is rolled back.
Abandon(q) ==
  /\ request[q] # Idle
  /\ request' = [request EXCEPT ![q] = Idle]
  /\ UNCHANGED <<rob, status, vessel, mt, posted, own>>

-----------------------------------------------------------------------------

Next ==
  \/ \E v \in Vessels, x \in -MaxMt..MaxMt \ {0} : RecordRobEntry(v, x)
  \/ \E c \in Collections, v \in Vessels : CreateCollection(c, v)
  \/ \E q \in Requests, kind \in Kinds, c \in Collections, x \in Tonnes : Begin(q, kind, c, x)
  \/ \E q \in Requests : CommitFigures(q)
  \/ \E q \in Requests : CommitApproval(q)
  \/ \E q \in Requests : CommitCorrection(q)
  \/ \E q \in Requests : CommitCancellation(q)
  \/ \E q \in Requests, v \in Vessels, into \in Vessels \cup {NoVessel}, x \in Tonnes :
       BeginDischarge(q, v, into, x)
  \/ \E q \in Requests : CommitDischarge(q)
  \/ \E q \in Requests : Abandon(q)

Spec == Init /\ [][Next]_vars

-----------------------------------------------------------------------------
(* Properties.                                                              *)

On(v) == {c \in Collections : vessel[c] = v}
Booked(v) == own[v] + MapThenSumSet(LAMBDA c : posted[c], On(v))
Drift(v) == rob[v] - Booked(v)

Due(c) == IF status[c] = "approved" THEN mt[c] ELSE 0

Commits(q) == request[q] # Idle /\ request'[q] = Idle

\* No figure is lost to the approval of a receipt: whatever was recorded since the
\* approval read the barge, its total stays as far from its ledger as it was
\* (_credit_rob: "a figure staff record on the same barge at the same moment can't
\* be lost between read and write").
ApprovalLosesNothing ==
  [][\A q \in Requests : Commits(q) /\ request[q].kind = "approve" =>
       \A v \in Vessels : Drift(v)' = Drift(v)]_vars

\* What a total loses against its ledger is exactly what was recorded on the barge
\* since the request that writes it read it: no correction, cancellation or
\* destination counted twice adds to it (_credit_rob, _reverse_rob, create_event).
LosesWhatItMissed ==
  [][\A v \in Vessels : Drift(v)' # Drift(v) =>
       \E q \in Requests : Commits(q) /\ Drift(v)' - Drift(v) = request[q].seen[v] - rob[v]]_vars

FollowsStep ==
  \A c \in Collections : posted[c] = Due(c) /\ posted'[c] # Due(c)' =>
    \E q \in Requests :
      /\ Commits(q) /\ request[q].on = c
      /\ request[q].was # status[c] \/ request[q].before # mt[c]

\* The ledger holds for each collection its figure of record while it is approved
\* and nothing otherwise, unless two requests act on it at once: "ROB always
\* matches the figure of record" (approve, correct_figures, cancel).
LedgerFollowsReceipt == [][FollowsStep]_vars

CancelledStep ==
  \A c \in Collections : status[c] = "cancelled" =>
    /\ \A q \in Requests : request'[q].on = c => request[q].on = c
    /\ status'[c] # "cancelled" \/ posted'[c] # posted[c] =>
         \E q \in Requests : Commits(q) /\ request[q].on = c

\* A cancelled collection is taken up by no request, and comes back only by one
\* that had read it before (cancel; "cancelled, never deleted").
CancelledForGood == [][CancelledStep]_vars

BelowZeroStep ==
  \A v \in Vessels : rob[v] >= 0 /\ rob'[v] < 0 =>
    \E q \in Requests :
      /\ Commits(q)
      /\ \/ request[q].kind = "discharge"
         \/ request[q].kind \in {"correct", "cancel"} /\ request[q].was = "approved"
         \/ request[q].seen[v] # rob[v]

\* The figure is taken below zero only by a discharge event, by taking back a
\* receipt already used up, or by a write over a total that had moved: never by an
\* entry recorded by hand and never by an approval (record_rob_entry).
BelowZeroOnlyUnguarded == [][BelowZeroStep]_vars
=============================================================================
