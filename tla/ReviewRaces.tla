----------------------------- MODULE ReviewRaces -----------------------------
(***************************************************************************)
(* Reviews of one operation's BDNs by requests that overlap.  Each request  *)
(* is one database session under READ COMMITTED, without SELECT FOR UPDATE: *)
(* what it reads is what others have committed at that moment, what it      *)
(* writes is an absolute value, and a row it has flushed stays locked until *)
(* it commits.  A session that waits in a ring of others is aborted by the  *)
(* database.  VesselDelivery takes the same handlers as single steps; here  *)
(* they are cut at each statement another session can slip between.         *)
(***************************************************************************)
EXTENDS StateMachine, Integers, FiniteSetsExt

CONSTANTS
  OpType,
  Requests,
  Bdns,
  Deliveries,    \* live vessel runs, or live legs of a vessel-only operation
  Loading,       \* what a loading BDN is for: no delivery
  For,           \* For[b]: the delivery BDN b is for, or Loading
  Barges,
  Layouts,       \* which barge each BDN may be about: runs may use different ones
  Mt,            \* Mt[b]: its tonnage
  InitialRob,
  Free

ASSUME RacesAssumption ==
  /\ OpType \in {"full_operation", "vessel_only"}
  /\ Loading \notin Deliveries
  /\ For \in [Bdns -> Deliveries \cup {Loading}]
  /\ Layouts \subseteq [Bdns -> Barges]
  /\ Mt \in [Bdns -> Nat]
  /\ InitialRob \in Int
  /\ Free \notin Requests
  /\ Bdns \cap Barges = {} /\ "operation" \notin Bdns \cup Barges

\* A database holds finitely many rows.
ASSUME FiniteBdns == IsFiniteSet(Bdns)

VARIABLES
  on,       \* bdns.vessel_id
  status,   \* bdns.status, committed
  op,       \* operations.status, committed
  rob,      \* vessels.current_rob_mt, committed
  entries,  \* number of rob_entries each BDN has, committed
  lock,     \* the session that holds each row
  session   \* each request's session

vars == <<on, status, op, rob, entries, lock, session>>

Rows == Bdns \cup Barges \cup {"operation"}
Steps == {"idle", "flush bdn", "read operation", "read vessel", "flush vessel", "gate",
          "flush rest", "commit"}

Idle == [at |-> "idle", verdict |-> "none", bdn |-> "none", op |-> "none", rob |-> 0, to |-> "none"]

TypeOK ==
  /\ on \in [Bdns -> Barges]
  /\ status \in [Bdns -> {"pending", "approved", "rejected"}]
  /\ op \in OperationStatuses
  /\ rob \in [Barges -> Int]
  /\ entries \in [Bdns -> Nat]
  /\ lock \in [Rows -> Requests \cup {Free}]
  /\ session \in [Requests ->
       [at: Steps, verdict: {"none", "approved", "rejected"}, bdn: Bdns \cup {"none"},
        op: OperationStatuses \cup {"none"}, rob: Int, to: OperationStatuses \cup {"none"}]]

\* Every BDN has been submitted; an earlier rejection may have sent the
\* operation back to vessel_operations meanwhile.
Init ==
  /\ on \in Layouts
  /\ status = [b \in Bdns |-> "pending"]
  /\ op \in {"bdn_pending", "vessel_operations"}
  /\ rob = [v \in Barges |-> InitialRob]
  /\ entries = [b \in Bdns |-> 0]
  /\ lock = [row \in Rows |-> Free]
  /\ session = [q \in Requests |-> Idle]

-----------------------------------------------------------------------------

IsLoading(b) == For[b] = Loading
Posts(q) == OpType = "full_operation" /\ session[q].verdict = "approved"
Effect(b) == IF IsLoading(b) THEN Mt[b] ELSE -Mt[b]

Committed == <<on, status, op, rob, entries>>
Unlock(q) == lock' = [row \in Rows |-> IF lock[row] = q THEN Free ELSE lock[row]]
GoTo(q, step) == session' = [session EXCEPT ![q].at = step]

\* The handler reads the BDN and refuses one that is not pending.
Begin(q, b, verdict) ==
  /\ session[q].at = "idle"
  /\ status[b] = "pending"
  /\ session' = [session EXCEPT ![q] =
       [Idle EXCEPT !.verdict = verdict, !.bdn = b,
                    !.at = IF verdict = "approved" /\ ~IsLoading(b)
                             THEN "flush bdn" ELSE "read operation"]]
  /\ UNCHANGED <<Committed, lock>>

-----------------------------------------------------------------------------
(* Flushes.  approve_vessel_bdn flushes the BDN's new status at once;        *)
(* _apply_*_rob_* flush the figure and its entry, and with them a loading    *)
(* BDN's own status; the rest is flushed before the commit.                  *)

\* Variant the runs must reject: the operation is written with the figure.
DueWithOperation(q) ==
  LET s == session[q] IN
  CASE s.at = "flush bdn"    -> {s.bdn}
    [] s.at = "flush vessel" -> {s.bdn, on[s.bdn], "operation"}
    [] s.at = "flush rest"   -> {s.bdn} \cup IF s.to # s.op THEN {"operation"} ELSE {}
    [] OTHER                 -> {}

\* Variant the runs must reject: the new figure is not flushed before the gate
\* is counted, so the barge's row orders nobody.
DueWithoutVessel(q) ==
  LET s == session[q] IN
  CASE s.at = "flush bdn"    -> {s.bdn}
    [] s.at = "flush vessel" -> {s.bdn}
    [] s.at = "flush rest"   ->
         {s.bdn} \cup (IF Posts(q) THEN {on[s.bdn]} ELSE {})
                 \cup (IF s.to # s.op THEN {"operation"} ELSE {})
    [] OTHER                 -> {}

\* The rows the present flush writes.
Due(q) ==
  LET s == session[q] IN
  CASE s.at = "flush bdn"    -> {s.bdn}
    [] s.at = "flush vessel" -> {s.bdn, on[s.bdn]}
    [] s.at = "flush rest"   -> {s.bdn} \cup IF s.to # s.op THEN {"operation"} ELSE {}
    [] OTHER                 -> {}

Missing(q) == {row \in Due(q) : lock[row] # q}

\* The row whose UPDATE is next: a flush writes vessels and operations before the
\* BDNs that refer to them.
Wanted(q) == IF Missing(q) \subseteq Bdns THEN Missing(q) ELSE Missing(q) \ Bdns

After(step) ==
  CASE step = "flush bdn"    -> "read operation"
    [] step = "flush vessel" -> "gate"
    [] step = "flush rest"   -> "commit"

LockRow(q) ==
  /\ \E row \in Wanted(q) : lock[row] = Free /\ lock' = [lock EXCEPT ![row] = q]
  /\ UNCHANGED <<Committed, session>>

EndFlush(q) ==
  /\ session[q].at \in {"flush bdn", "flush vessel", "flush rest"}
  /\ Missing(q) = {}
  /\ GoTo(q, After(session[q].at))
  /\ UNCHANGED <<Committed, lock>>

-----------------------------------------------------------------------------

\* A move a session would make from the status it has read.
Valid(seen, to) == seen = "completed" \/ ValidateTransition(OpType, seen, to, "bunker_manager")
Target(seen, to) == IF seen = "completed" THEN seen ELSE to

\* reject_bdn insists on a valid move; reject_vessel_bdn lets "already there" be.
RejectValid(b, seen) ==
  Valid(seen, "vessel_operations") \/ (seen = "vessel_operations" /\ ~IsLoading(b))

\* Variant the runs must reject: a refused request leaves its session open.
RollbackKeepingLocks(q) ==
  /\ session' = [session EXCEPT ![q] = Idle]
  /\ UNCHANGED <<Committed, lock>>

Rollback(q) ==
  /\ Unlock(q)
  /\ session' = [session EXCEPT ![q] = Idle]
  /\ UNCHANGED Committed

ReadOperation(q) ==
  LET s == session[q] IN
  /\ s.at = "read operation"
  /\ \/ /\ s.verdict = "approved"
        /\ session' = [session EXCEPT ![q].op = op,
                         ![q].at = IF Posts(q) THEN "read vessel" ELSE "gate"]
        /\ UNCHANGED <<Committed, lock>>
     \/ /\ s.verdict = "rejected" /\ RejectValid(s.bdn, op)
        /\ session' = [session EXCEPT ![q].op = op, ![q].at = "flush rest",
                         ![q].to = Target(op, "vessel_operations")]
        /\ UNCHANGED <<Committed, lock>>
     \/ s.verdict = "rejected" /\ ~RejectValid(s.bdn, op) /\ Rollback(q)

ReadVessel(q) ==
  /\ session[q].at = "read vessel"
  /\ session' = [session EXCEPT ![q].rob = rob[on[session[q].bdn]], ![q].at = "flush vessel"]
  /\ UNCHANGED <<Committed, lock>>

\* Variant the runs must reject: whatever is not rejected counts.
Submitted(q) == {For[b] : b \in {c \in Bdns : status[c] # "rejected" \/ c = session[q].bdn}}

\* _approval_progress as this session sees it: its own BDN counts.
Approved(q) == {For[b] : b \in {c \in Bdns : status[c] = "approved" \/ c = session[q].bdn}}

GateCleared(q) ==
  /\ Deliveries \subseteq Approved(q)
  /\ Deliveries # {} \/ IsLoading(session[q].bdn)

CountAndMove(q) ==
  LET s    == session[q]
      move == GateCleared(q) /\ s.op # "bdn_approved"
  IN
  /\ s.at = "gate"
  /\ IF move /\ ~Valid(s.op, "bdn_approved")
       THEN Rollback(q)
       ELSE /\ session' = [session EXCEPT ![q].at = "flush rest",
                             ![q].to = IF move THEN Target(s.op, "bdn_approved") ELSE s.op]
            /\ UNCHANGED <<Committed, lock>>

\* Variant the runs must reject: the entry is written and the figure is not.
CommitEntryOnly(q) ==
  LET s == session[q] IN
  /\ s.at = "commit"
  /\ status' = [status EXCEPT ![s.bdn] = s.verdict]
  /\ op' = IF s.to # s.op THEN s.to ELSE op
  /\ entries' = IF Posts(q) THEN [entries EXCEPT ![s.bdn] = @ + 1] ELSE entries
  /\ Unlock(q)
  /\ session' = [session EXCEPT ![q] = Idle]
  /\ UNCHANGED <<on, rob>>

\* Every row written is published at once.
Commit(q) ==
  LET s == session[q] IN
  /\ s.at = "commit"
  /\ status' = [status EXCEPT ![s.bdn] = s.verdict]
  /\ op' = IF s.to # s.op THEN s.to ELSE op
  /\ rob' = IF Posts(q) THEN [rob EXCEPT ![on[s.bdn]] = s.rob + Effect(s.bdn)] ELSE rob
  /\ entries' = IF Posts(q) THEN [entries EXCEPT ![s.bdn] = @ + 1] ELSE entries
  /\ Unlock(q)
  /\ session' = [session EXCEPT ![q] = Idle]
  /\ UNCHANGED on

-----------------------------------------------------------------------------
(* The database ends one of the sessions that wait for each other in a ring; *)
(* its request fails and is rolled back.                                     *)

Awaits(p, q) == p # q /\ \E row \in Wanted(p) : lock[row] = q
Ring(S) ==
  /\ S # {}
  /\ \A p \in S : (\E q \in S : Awaits(p, q)) /\ (\E q \in S : Awaits(q, p))

BreakRing(q) ==
  /\ \E S \in SUBSET Requests : q \in S /\ Ring(S)
  /\ Rollback(q)

Step(q) ==
  \/ LockRow(q) \/ EndFlush(q) \/ ReadOperation(q) \/ ReadVessel(q)
  \/ CountAndMove(q) \/ Commit(q)

Next ==
  \/ \E q \in Requests : Step(q)
  \/ \E q \in Requests : BreakRing(q)
  \/ \E q \in Requests, b \in Bdns, verdict \in {"approved", "rejected"} : Begin(q, b, verdict)

Spec == Init /\ [][Next]_vars

\* The event loop runs every coroutine, a session waiting for a row lock queues for
\* it, so it gets a lock that is freed again and again, and the database's deadlock
\* detector leaves no ring standing.  Nobody is obliged to review.
FairSpec ==
  /\ Spec
  /\ \A q \in Requests : SF_vars(Step(q))
  /\ WF_vars(\E q \in Requests : BreakRing(q))

-----------------------------------------------------------------------------
(* Properties.                                                              *)

Quiescent == \A q \in Requests : session[q].at = "idle"

\* The tonnage a barge's entries add up to, and how far its figure has strayed.
About(v) == {b \in Bdns : on[b] = v}
Ledger(v) == InitialRob + MapThenSumSet(LAMBDA b : entries[b] * Effect(b), About(v))
Drift(v) == rob[v] - Ledger(v)

\* A barge's figure and its entries part only where another review has moved the
\* figure since the committing session read it (the lost update at
\* _apply_discharge_rob_debit and _apply_rob_credit): every other commit, rejection,
\* rollback and abort, in any order of overlapping sessions, leaves them agreeing.
DriftsOnlyUnseen ==
  [][\A v \in Barges : Drift(v)' # Drift(v) =>
       \E q \in Requests :
         /\ session[q].at = "commit" /\ session'[q].at = "idle" /\ Posts(q)
         /\ on[session[q].bdn] = v /\ session[q].rob # rob[v]]_vars

\* Once every delivery's BDN is approved and nothing is under review, the operation
\* is left at bdn_pending only if the approvals were on different barges: on one
\* barge its row orders them, so that the last one counts the others; across barges
\* no row does, and two that overlap may each leave the gate to the other.
LastApprovalOpensGate ==
  Quiescent /\ op = "bdn_pending" /\ (\A b \in Bdns : status[b] # "pending") =>
    \/ \E d \in Deliveries : \A b \in Bdns : For[b] = d => status[b] # "approved"
    \/ \E a, b \in Bdns : ~IsLoading(a) /\ ~IsLoading(b) /\ on[a] # on[b]
                          /\ status[a] = "approved" /\ status[b] = "approved"

\* A review lifts the operation to bdn_approved only over approved BDNs; one of them
\* may have been rejected since it was counted, by a review that found it pending
\* and overlapped its approval, and then its entry still stands in the ledger.
GateCountsOnlyApprovals ==
  [][op # "bdn_approved" /\ op' = "bdn_approved" =>
       \A d \in Deliveries : \E b \in Bdns :
         /\ For[b] = d
         /\ status'[b] = "approved" \/ (status'[b] = "rejected" /\ entries'[b] > 0)]_vars

\* Sessions wait for each other in a ring only when two of them review one BDN: the
\* approval holds the BDN and wants the operation, the rejection holds the operation
\* and wants the BDN.
RingsNeedOneBdn ==
  \A S \in SUBSET Requests : Ring(S) =>
    \E p, q \in S : p # q /\ session[p].bdn = session[q].bdn

\* Whatever rings form are broken, and no session keeps a row from the others for
\* good: each review ends.
ReviewsEnd == \A q \in Requests : session[q].at # "idle" ~> session[q].at = "idle"
=============================================================================
