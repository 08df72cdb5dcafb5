-------------------------- MODULE ReviewRacesProofs --------------------------
(***************************************************************************)
(* Proofs about reviews that overlap, for any number of requests, BDNs,     *)
(* deliveries and barges and any tonnages: what a session has read is still *)
(* good where the row locks say so, and the gate, the barges' figures and   *)
(* the rings of waiting sessions rest on no more than that.                 *)
(***************************************************************************)
EXTENDS ReviewRaces, SumTheorems

USE RacesAssumption DEF RacesAssumption

-----------------------------------------------------------------------------
(* The invariants.                                                          *)

Active(q) == session[q].at # "idle"

\* What a session has read, and when.
Progress(s) ==
  /\ s.at # "idle" => s.bdn \in Bdns /\ s.verdict \in {"approved", "rejected"}
  /\ s.at \in {"read vessel", "flush vessel", "gate", "flush rest", "commit"} =>
       s.op \in OperationStatuses
  /\ s.at \in {"flush rest", "commit"} =>
       IF s.verdict = "approved" THEN s.to \in {s.op, "bdn_approved"}
                                 ELSE s.to = Target(s.op, "vessel_operations")
  /\ s.at \in {"flush bdn", "read vessel", "flush vessel", "gate"} => s.verdict = "approved"

RacesTyped == TypeOK /\ \A q \in Requests : Progress(session[q])

\* A session holds no rows but those its own flushes have written so far.
Holds(q) ==
  /\ \A b \in Bdns : lock[b] = q => Active(q) /\ session[q].bdn = b
  /\ \A v \in Barges : lock[v] = q =>
       /\ session[q].at \in {"flush vessel", "gate", "flush rest", "commit"}
       /\ on[session[q].bdn] = v
  /\ lock["operation"] = q => session[q].at \in {"flush rest", "commit"}

LockInv == RacesTyped /\ \A q \in Requests : Holds(q)

\* A session that has posted keeps its barge's row until it ends: of the approvals
\* on one barge one at a time is between its flush and its commit, and the gate it
\* counts is still the gate when it commits, as far as that barge goes.
PostingHoldsVessel ==
  \A q \in Requests :
    session[q].at \in {"gate", "flush rest", "commit"} /\ Posts(q) =>
      lock[on[session[q].bdn]] = q

\* Of delivery d no BDN is approved.
Owed(d) == \A b \in Bdns : For[b] = d => status[b] # "approved"

\* A delivery's BDN that is approved, and one that is on another barge than b.
Stands(b) == ~IsLoading(b) /\ status[b] = "approved"
Spread == \E a, b \in Bdns : Stands(a) /\ Stands(b) /\ on[a] # on[b]

\* A session that counted the gate and leaves it shut knows a delivery that is owed
\* and that it does not document itself, unless an approval on another barge has come
\* between.
Expects(s) ==
  /\ s.at \in {"read vessel", "flush vessel", "gate", "flush rest", "commit"} =>
       s.op = "bdn_pending"
  /\ s.at \in {"flush rest", "commit"} /\ s.verdict = "approved" /\ s.to # "bdn_approved" =>
       \/ IsLoading(s.bdn)
       \/ \E d \in Deliveries : Owed(d) /\ For[s.bdn] # d
       \/ \E a \in Bdns : Stands(a) /\ on[a] # on[s.bdn]

\* As long as the operation waits at bdn_pending it has never left it: every session
\* has read it there, and a delivery is owed or the approvals are on several barges.
WaitsForSomething ==
  op = "bdn_pending" =>
    /\ (\E d \in Deliveries : Owed(d)) \/ Spread
    /\ \A q \in Requests : Expects(session[q])

GateInv == RacesTyped /\ PostingHoldsVessel /\ WaitsForSomething

\* On a full operation an approved BDN has an entry.  A session about to open the gate
\* saw approvals, and what has become of them leaves its mark.
ApprovedIsPosted == \A b \in Bdns : status[b] = "approved" => entries[b] > 0

Documents(b) == status[b] = "approved" \/ (status[b] = "rejected" /\ entries[b] > 0)

CountStands ==
  \A q \in Requests :
    LET s == session[q] IN
    s.at \in {"flush rest", "commit"} /\ s.to = "bdn_approved" /\ s.op # "bdn_approved" =>
      /\ s.verdict = "approved"
      /\ \A d \in Deliveries : \E b \in Bdns : For[b] = d /\ (Documents(b) \/ b = s.bdn)

ReviewInv == RacesTyped /\ ApprovedIsPosted /\ CountStands

-----------------------------------------------------------------------------
(* What each step does to its session.                                      *)

Session ==
  [at: Steps, verdict: {"none", "approved", "rejected"}, bdn: Bdns \cup {"none"},
   op: OperationStatuses \cup {"none"}, rob: Int, to: OperationStatuses \cup {"none"}]

LEMMA IdleTyped == Idle \in Session /\ Progress(Idle) /\ Idle.at = "idle"
BY DEF Idle, Session, Progress, Steps

LEMMA InitTyped == Init => RacesTyped
<1> SUFFICES ASSUME Init
             PROVE  RacesTyped
  OBVIOUS
<1>1. op \in OperationStatuses
  BY DEF Init, OperationStatuses
<1>2. session \in [Requests -> Session] /\ \A q \in Requests : Progress(session[q])
  BY IdleTyped DEF Init
<1>3. on \in [Bdns -> Barges] /\ rob \in [Barges -> Int]
  BY DEF Init
<1> QED
  BY <1>1, <1>2, <1>3 DEF Init, RacesTyped, TypeOK, Session, Rows

LEMMA TargetTyped ==
  ASSUME NEW seen \in OperationStatuses
  PROVE  /\ Target(seen, "vessel_operations") \in OperationStatuses
         /\ Target(seen, "bdn_approved") \in OperationStatuses \cap {seen, "bdn_approved"}
BY DEF Target, OperationStatuses

LEMMA RowTyped ==
  ASSUME RacesTyped, NEW q \in Requests
  PROVE  session[q] \in Session /\ Progress(session[q])
BY DEF RacesTyped, TypeOK, Session

\* Where a step that commits nothing takes its session.
Moved(q, new) == session' = [session EXCEPT ![q] = new] /\ UNCHANGED Committed

\* The session goes on with its review and locks nothing.
Goes(q, new) ==
  /\ Moved(q, new) /\ UNCHANGED lock
  /\ new \in Session /\ Progress(new)
  /\ new.at # "idle" /\ new.bdn = session[q].bdn /\ new.verdict = session[q].verdict

Verdicts == {"approved", "rejected"}

\* The session of a review that has begun.
Opened(b, verdict) ==
  [Idle EXCEPT !.verdict = verdict, !.bdn = b,
               !.at = IF verdict = "approved" /\ ~IsLoading(b)
                        THEN "flush bdn" ELSE "read operation"]

LEMMA OpenedTyped ==
  ASSUME NEW b \in Bdns, NEW verdict \in Verdicts
  PROVE  /\ Opened(b, verdict) \in Session /\ Progress(Opened(b, verdict))
         /\ Opened(b, verdict).bdn = b
         /\ Opened(b, verdict).at \in {"flush bdn", "read operation"}
<1> DEFINE new == Opened(b, verdict)
<1>1. /\ new \in Session /\ new.bdn = b /\ new.verdict = verdict
      /\ new.at = "read operation" \/ (new.at = "flush bdn" /\ verdict = "approved")
  BY IdleTyped DEF Opened, Session, Steps, Verdicts
<1> HIDE DEF new
<1>2. Progress(new)
  BY <1>1 DEF Progress, Verdicts
<1> QED
  BY <1>1, <1>2 DEF new

LEMMA BeginMoves ==
  ASSUME NEW q \in Requests, NEW b \in Bdns, NEW verdict \in Verdicts, Begin(q, b, verdict)
  PROVE  /\ Moved(q, Opened(b, verdict)) /\ UNCHANGED lock
         /\ session[q].at = "idle"
BY DEF Begin, Moved, Opened

LEMMA EndFlushMoves ==
  ASSUME RacesTyped, NEW q \in Requests, EndFlush(q)
  PROVE  \E new \in Session :
           /\ Goes(q, new) /\ new.op = session[q].op /\ new.to = session[q].to
           /\ \/ session[q].at = "flush bdn" /\ new.at = "read operation"
              \/ /\ session[q].at = "flush vessel" /\ new.at = "gate"
                 /\ lock[on[session[q].bdn]] = q
              \/ session[q].at = "flush rest" /\ new.at = "commit"
<1> DEFINE s == session[q]
           to == After(s.at)
           new == [s EXCEPT !.at = to]
<1>1. s \in Session /\ Progress(s) /\ s.at \in {"flush bdn", "flush vessel", "flush rest"}
  BY RowTyped DEF EndFlush
<1>2. \/ s.at = "flush bdn" /\ to = "read operation"
      \/ s.at = "flush vessel" /\ to = "gate"
      \/ s.at = "flush rest" /\ to = "commit"
  BY <1>1 DEF After
<1>3. s.at = "flush vessel" => lock[on[s.bdn]] = q
  <2> SUFFICES ASSUME s.at = "flush vessel"
               PROVE  lock[on[s.bdn]] = q
    OBVIOUS
  <2>1. on[s.bdn] \in Due(q)
    BY DEF Due
  <2> QED
    BY <2>1 DEF EndFlush, Missing
<1>4. Moved(q, new) /\ UNCHANGED lock
  BY <1>1 DEF EndFlush, GoTo, Moved
<1> HIDE DEF to
<1>5. new \in Session /\ new.at = to /\ new.bdn = s.bdn /\ new.verdict = s.verdict
      /\ new.op = s.op /\ new.to = s.to
  BY <1>1, <1>2 DEF Session, Steps
<1> HIDE DEF new
<1>6. Progress(new) /\ new.at # "idle"
  BY <1>1, <1>2, <1>5 DEF Progress
<1> QED
  BY <1>2, <1>3, <1>4, <1>5, <1>6 DEF Goes

\* The operation's status is read: an approval goes on, a rejection has its
\* target, or the request is refused.
LEMMA ReadOperationMoves ==
  ASSUME RacesTyped, NEW q \in Requests, ReadOperation(q), ~Rollback(q)
  PROVE  /\ session[q].at = "read operation"
         /\ \E new \in Session :
              /\ Goes(q, new) /\ new.op = op
              /\ \/ new.verdict = "approved" /\ new.at = "read vessel"
                 \/ new.verdict = "approved" /\ new.at = "gate" /\ ~Posts(q)
                 \/ new.verdict = "rejected" /\ new.at = "flush rest"
<1> DEFINE s == session[q]
<1>1. s \in Session /\ Progress(s) /\ op \in OperationStatuses
  BY RowTyped DEF RacesTyped, TypeOK
<1>2. CASE s.verdict = "approved"
  <2> DEFINE at == IF Posts(q) THEN "read vessel" ELSE "gate"
             new == [s EXCEPT !.op = op, !.at = at]
  <2>1. session' = [session EXCEPT ![q].op = op, ![q].at = at] /\ UNCHANGED <<Committed, lock>>
    BY <1>2 DEF ReadOperation
  <2>2. at \in Steps /\ (at = "read vessel" \/ (at = "gate" /\ ~Posts(q)))
    BY DEF Steps
  <2> HIDE DEF at
  <2>3. /\ new \in Session /\ new.bdn = s.bdn /\ new.verdict = s.verdict /\ new.op = op
        /\ new.at = at
    BY <1>1, <2>2 DEF Session
  <2>4. Moved(q, new)
    BY <2>1 DEF Moved, RacesTyped, TypeOK
  <2> HIDE DEF new
  <2>5. Progress(new) /\ new.at # "idle"
    BY <1>1, <1>2, <2>2, <2>3 DEF Progress, ReadOperation
  <2> QED
    BY <1>2, <2>1, <2>2, <2>3, <2>4, <2>5 DEF ReadOperation, Goes
<1>3. CASE s.verdict = "rejected"
  <2> DEFINE to == Target(op, "vessel_operations")
             new == [s EXCEPT !.op = op, !.at = "flush rest", !.to = to]
  <2>1. session' = [session EXCEPT ![q].op = op, ![q].at = "flush rest", ![q].to = to]
        /\ UNCHANGED <<Committed, lock>>
    BY <1>3 DEF ReadOperation
  <2>2. PICK t \in OperationStatuses : t = to
    BY <1>1, TargetTyped
  <2> HIDE DEF to
  <2>3. /\ new \in Session /\ new.bdn = s.bdn /\ new.verdict = s.verdict /\ new.op = op
        /\ new.at = "flush rest" /\ new.to = to
    BY <1>1, <2>2 DEF Session, Steps
  <2>4. Moved(q, new)
    BY <2>1 DEF Moved, RacesTyped, TypeOK
  <2> HIDE DEF new
  <2>5. Progress(new) /\ new.at # "idle"
    BY <1>1, <1>3, <2>2, <2>3 DEF Progress, ReadOperation, to
  <2> QED
    BY <1>3, <2>1, <2>2, <2>3, <2>4, <2>5 DEF ReadOperation, Goes
<1>4. s.at = "read operation" /\ s.verdict \in {"approved", "rejected"}
  BY <1>1 DEF ReadOperation, Progress
<1> QED
  BY <1>2, <1>3, <1>4

LEMMA ReadVesselMoves ==
  ASSUME RacesTyped, NEW q \in Requests, ReadVessel(q)
  PROVE  /\ session[q].at = "read vessel"
         /\ \E new \in Session :
              Goes(q, new) /\ new.at = "flush vessel" /\ new.op = session[q].op
<1> DEFINE seen == rob[on[session[q].bdn]]
           new == [session[q] EXCEPT !.rob = seen, !.at = "flush vessel"]
<1>1. /\ session[q] \in Session /\ Progress(session[q]) /\ session[q].at = "read vessel"
  BY RowTyped DEF ReadVessel
<1>2. PICK x \in Int : x = seen
  BY <1>1 DEF RacesTyped, TypeOK, Progress
<1>3. Moved(q, new) /\ UNCHANGED lock
  BY DEF ReadVessel, Moved, RacesTyped, TypeOK
<1> HIDE DEF seen
<1>4. /\ new \in Session /\ new.at = "flush vessel" /\ new.bdn = session[q].bdn
      /\ new.verdict = session[q].verdict /\ new.op = session[q].op
  BY <1>1, <1>2 DEF Session, Steps
<1> HIDE DEF new
<1>5. Progress(new) /\ new.at # "idle"
  BY <1>1, <1>4 DEF Progress
<1> QED
  BY <1>1, <1>3, <1>4, <1>5 DEF Goes

LEMMA CountMoves ==
  ASSUME RacesTyped, NEW q \in Requests, CountAndMove(q), ~Rollback(q)
  PROVE  /\ session[q].at = "gate"
         /\ \E new \in Session :
              /\ Goes(q, new) /\ new.op = session[q].op /\ new.at = "flush rest"
              /\ new.to = IF GateCleared(q) /\ new.op # "bdn_approved"
                            THEN Target(new.op, "bdn_approved") ELSE new.op
<1> DEFINE s == session[q]
           to == IF GateCleared(q) /\ s.op # "bdn_approved" THEN Target(s.op, "bdn_approved") ELSE s.op
           new == [s EXCEPT !.at = "flush rest", !.to = to]
<1>1. s \in Session /\ Progress(s)
  BY RowTyped
<1>2. s.at = "gate" /\ session' = [session EXCEPT ![q].at = "flush rest", ![q].to = to]
      /\ UNCHANGED <<Committed, lock>>
  BY DEF CountAndMove
<1>3. to \in OperationStatuses \cap {s.op, "bdn_approved"}
  BY <1>1, <1>2, TargetTyped DEF Progress
<1>4. PICK t : t = to
  OBVIOUS
<1>5. /\ new \in Session /\ new.bdn = s.bdn /\ new.verdict = s.verdict /\ new.op = s.op
      /\ new.at = "flush rest" /\ new.to = t
  BY <1>1, <1>3, <1>4 DEF Session, Steps
<1>6. Moved(q, new)
  BY <1>2 DEF Moved, RacesTyped, TypeOK
<1> HIDE DEF new
<1>7. Progress(new) /\ new.at # "idle"
  BY <1>1, <1>2, <1>3, <1>4, <1>5 DEF Progress
<1> QED
  BY <1>2, <1>4, <1>5, <1>6, <1>7 DEF Goes

\* A lock is taken on a row that was free.
LEMMA LockRowTakes ==
  ASSUME RacesTyped, NEW q \in Requests, LockRow(q)
  PROVE  \E row \in Rows :
           /\ row \in Due(q) /\ lock[row] = Free /\ lock' = [lock EXCEPT ![row] = q]
           /\ UNCHANGED <<Committed, session>>
<1>1. PICK row \in Wanted(q) : lock[row] = Free /\ lock' = [lock EXCEPT ![row] = q]
  BY DEF LockRow
<1>2. row \in Due(q)
  BY DEF Wanted, Missing
<1>3. session[q].at # "idle"
  BY <1>2 DEF Due
<1>4. session[q].bdn \in Bdns
  BY <1>3, RowTyped DEF Progress
<1>5. on[session[q].bdn] \in Barges
  BY <1>4 DEF RacesTyped, TypeOK
<1>6. Due(q) \subseteq {session[q].bdn, on[session[q].bdn], "operation"}
  BY DEF Due
<1>7. row \in Rows
  BY <1>2, <1>4, <1>5, <1>6 DEF Rows
<1> QED
  BY <1>1, <1>2, <1>7 DEF LockRow

LEMMA RollbackMoves ==
  ASSUME NEW q \in Requests, Rollback(q)
  PROVE  Moved(q, Idle) /\ Unlock(q)
BY DEF Rollback, Moved

\* Every step takes a lock, moves a session on, ends a review or begins one.
LEMMA StepKinds ==
  ASSUME [Next]_vars
  PROVE  \/ UNCHANGED vars
         \/ \E q \in Requests, b \in Bdns, verdict \in Verdicts : Begin(q, b, verdict)
         \/ \E q \in Requests : LockRow(q)
         \/ \E q \in Requests : EndFlush(q)
         \/ \E q \in Requests : ReadOperation(q) /\ ~Rollback(q)
         \/ \E q \in Requests : ReadVessel(q)
         \/ \E q \in Requests : CountAndMove(q) /\ ~Rollback(q)
         \/ \E q \in Requests : Rollback(q)
         \/ \E q \in Requests : Commit(q)
BY DEF Next, Step, BreakRing, Verdicts

-----------------------------------------------------------------------------
(* Type correctness.                                                        *)

\* One session moves on and the committed rows stay.
LEMMA SessionTyped ==
  ASSUME RacesTyped, NEW q \in Requests, NEW new \in Session, Progress(new),
         Moved(q, new), lock' \in [Rows -> Requests \cup {Free}]
  PROVE  RacesTyped'
BY DEF RacesTyped, TypeOK, Session, Moved, Committed, Progress, Target

LEMMA GoesTyped ==
  ASSUME RacesTyped, NEW q \in Requests, NEW new, Goes(q, new)
  PROVE  RacesTyped'
BY SessionTyped DEF Goes, RacesTyped, TypeOK

\* A commit publishes.
LEMMA CommitTyped ==
  ASSUME RacesTyped, NEW q \in Requests, Commit(q)
  PROVE  RacesTyped'
<1>1. session[q] \in Session /\ Progress(session[q]) /\ session[q].at = "commit"
  BY RowTyped DEF Commit
<1>2. op' \in OperationStatuses
  <2>1. session[q].op \in OperationStatuses /\ op \in OperationStatuses
    BY <1>1 DEF Progress, RacesTyped, TypeOK
  <2>2. session[q].to \in OperationStatuses
    BY <1>1, <2>1, TargetTyped DEF Progress, OperationStatuses
  <2> QED
    BY <2>1, <2>2 DEF Commit
<1>3. status' \in [Bdns -> {"pending", "approved", "rejected"}]
  BY <1>1 DEF Commit, RacesTyped, TypeOK, Progress
<1>4. entries' \in [Bdns -> Nat]
  <2>1. session[q].bdn \in Bdns
    BY <1>1 DEF Progress
  <2> QED
    BY <2>1 DEF Commit, RacesTyped, TypeOK
<1>5. rob' \in [Barges -> Int]
  <2>1. Effect(session[q].bdn) \in Int /\ session[q].rob \in Int
    BY <1>1 DEF Effect, Session, Progress
  <2>2. session[q].rob + Effect(session[q].bdn) \in Int
    BY <2>1
  <2> QED
    BY <2>2 DEF Commit, RacesTyped, TypeOK
<1>6. lock' \in [Rows -> Requests \cup {Free}] /\ on' = on
  BY DEF Commit, RacesTyped, TypeOK, Unlock
<1>7. session' = [session EXCEPT ![q] = Idle] /\ session \in [Requests -> Session]
  BY DEF Commit, RacesTyped, TypeOK, Session
<1>8. session' \in [Requests -> Session] /\ \A p \in Requests : Progress(session'[p])
  BY <1>7, IdleTyped DEF RacesTyped
<1>9. TypeOK'
  BY <1>2, <1>3, <1>4, <1>5, <1>6, <1>8 DEF RacesTyped, TypeOK, Session
<1> QED
  BY <1>8, <1>9 DEF RacesTyped, Progress, Target

LEMMA StepTyped == RacesTyped /\ [Next]_vars => RacesTyped'
<1> SUFFICES ASSUME RacesTyped, [Next]_vars
             PROVE  RacesTyped'
  OBVIOUS
<1>1. CASE UNCHANGED vars
  BY <1>1 DEF vars, RacesTyped, TypeOK, Progress, Target
<1>2. ASSUME NEW q \in Requests, NEW b \in Bdns, NEW verdict \in Verdicts, Begin(q, b, verdict)
      PROVE  RacesTyped'
  BY <1>2, BeginMoves, OpenedTyped, SessionTyped DEF RacesTyped, TypeOK
<1>3. ASSUME NEW q \in Requests, LockRow(q)
      PROVE  RacesTyped'
  <2>1. PICK row \in Rows : lock' = [lock EXCEPT ![row] = q] /\ UNCHANGED <<Committed, session>>
    BY <1>3, LockRowTakes
  <2>2. lock' \in [Rows -> Requests \cup {Free}]
    BY <2>1 DEF RacesTyped, TypeOK
  <2> QED
    BY <2>1, <2>2 DEF RacesTyped, TypeOK, Committed, Progress, Target
<1>4. ASSUME NEW q \in Requests, Rollback(q)
      PROVE  RacesTyped'
  <2>1. lock' \in [Rows -> Requests \cup {Free}]
    BY <1>4 DEF Rollback, Unlock, RacesTyped, TypeOK
  <2> QED
    BY <1>4, <2>1, RollbackMoves, IdleTyped, SessionTyped
<1> QED
  BY <1>1, <1>2, <1>3, <1>4, StepKinds, EndFlushMoves, ReadOperationMoves, ReadVesselMoves,
     CountMoves, GoesTyped, CommitTyped

\* Rows, locks and sessions keep their types, whichever reviews overlap.
THEOREM RacesTypeCorrect == Spec => []TypeOK
<1>1. RacesTyped => TypeOK
  BY DEF RacesTyped
<1> QED
  BY <1>1, InitTyped, StepTyped, PTL DEF Spec

-----------------------------------------------------------------------------
(* Rows are held by the sessions that wrote them.                           *)

\* The locks a step leaves a session, when no row becomes its own.
LEMMA KeepsHolding ==
  ASSUME RacesTyped, NEW q \in Requests, Holds(q), UNCHANGED on,
         \A row \in Rows : lock'[row] = q => lock[row] = q,
         Active(q) => Active(q)' /\ session'[q].bdn = session[q].bdn,
         session[q].at \in {"flush vessel", "gate", "flush rest", "commit"} =>
           session'[q].at \in {"flush vessel", "gate", "flush rest", "commit"},
         session[q].at \in {"flush rest", "commit"} => session'[q].at \in {"flush rest", "commit"}
  PROVE  Holds(q)'
<1>1. ASSUME NEW b \in Bdns, lock'[b] = q
      PROVE  Active(q)' /\ session'[q].bdn = b
  BY <1>1 DEF Rows, Holds
<1>2. ASSUME NEW v \in Barges, lock'[v] = q
      PROVE  /\ session'[q].at \in {"flush vessel", "gate", "flush rest", "commit"}
             /\ on'[session'[q].bdn] = v
  <2>1. lock[v] = q
    BY <1>2 DEF Rows
  <2>2. session[q].at \in {"flush vessel", "gate", "flush rest", "commit"} /\ on[session[q].bdn] = v
    BY <2>1 DEF Holds
  <2>3. Active(q)
    BY <2>2 DEF Active
  <2> QED
    BY <2>2, <2>3
<1>3. ASSUME lock'["operation"] = q
      PROVE  session'[q].at \in {"flush rest", "commit"}
  BY <1>3 DEF Rows, Holds
<1> QED
  BY <1>1, <1>2, <1>3 DEF Holds

\* A session that holds nothing.
LEMMA HoldsNothing ==
  ASSUME NEW q \in Requests, \A row \in Rows : lock'[row] # q
  PROVE  Holds(q)'
BY DEF Holds, Rows

\* A step of one session that takes no lock leaves the others what they hold.
LEMMA OthersHold ==
  ASSUME LockInv, NEW q \in Requests, NEW p \in Requests \ {q}, NEW new, Moved(q, new),
         UNCHANGED lock \/ Unlock(q)
  PROVE  Holds(p)'
<1>1. session'[p] = session[p]
  BY DEF Moved, LockInv, RacesTyped, TypeOK
<1>2. \A row \in Rows : lock'[row] = p => lock[row] = p
  BY DEF Unlock
<1>3. UNCHANGED on
  BY DEF Moved, Committed
<1>4. Active(p) => Active(p)'
  BY <1>1 DEF Active
<1> QED
  BY <1>1, <1>2, <1>3, <1>4, KeepsHolding DEF LockInv

LEMMA ReleasedHoldsNothing ==
  ASSUME NEW q \in Requests, Unlock(q)
  PROVE  \A row \in Rows : lock'[row] # q
BY DEF Unlock

\* A session that goes on keeps what it holds.
LEMMA GoesHolding ==
  ASSUME LockInv, NEW q \in Requests, NEW new, Goes(q, new), Active(q),
         session[q].at \in {"flush vessel", "gate", "flush rest", "commit"} =>
           new.at \in {"flush vessel", "gate", "flush rest", "commit"},
         session[q].at \in {"flush rest", "commit"} => new.at \in {"flush rest", "commit"}
  PROVE  \A p \in Requests : Holds(p)'
<1>1. session'[q] = new
  BY DEF Goes, Moved, LockInv, RacesTyped, TypeOK
<1>2. UNCHANGED on /\ Active(q)' /\ session'[q].bdn = session[q].bdn
  BY <1>1 DEF Goes, Moved, Committed, Active
<1>3. Holds(q)'
  BY <1>1, <1>2, KeepsHolding DEF LockInv, Goes
<1> QED
  BY <1>3, OthersHold DEF Goes

\* The row a session takes is one its present flush writes.
LEMMA TakerHolds ==
  ASSUME LockInv, NEW q \in Requests, LockRow(q)
  PROVE  \A p \in Requests : Holds(p)'
<1>1. PICK row \in Rows :
        /\ row \in Due(q) /\ lock[row] = Free /\ lock' = [lock EXCEPT ![row] = q]
        /\ UNCHANGED <<Committed, session>>
  BY LockRowTakes DEF LockInv
<1>2. UNCHANGED <<on, session>>
  BY <1>1 DEF Committed
<1>3. \A r \in Rows : lock'[r] = IF r = row THEN q ELSE lock[r]
  BY <1>1 DEF LockInv, RacesTyped, TypeOK
<1>4. ASSUME NEW p \in Requests \ {q}
      PROVE  Holds(p)'
  <2>1. \A r \in Rows : lock'[r] = p => lock[r] = p
    BY <1>3, <1>4
  <2> QED
    BY <1>2, <2>1, KeepsHolding DEF LockInv, Active
<1>5. /\ session[q].at \in {"flush bdn", "flush vessel", "flush rest"}
      /\ row = session[q].bdn
         \/ (row = on[session[q].bdn] /\ session[q].at = "flush vessel")
         \/ (row = "operation" /\ session[q].at = "flush rest")
  BY <1>1 DEF Due
<1>6. session[q].bdn \in Bdns /\ on[session[q].bdn] \in Barges
  BY <1>5, RowTyped DEF LockInv, RacesTyped, TypeOK, Progress
<1>7. Holds(q)
  BY DEF LockInv
<1>8. ASSUME NEW b \in Bdns, lock'[b] = q
      PROVE  Active(q)' /\ session'[q].bdn = b
  <2>1. CASE b = row
    BY <1>2, <1>5, <1>6, <2>1 DEF Active
  <2>2. CASE b # row
    BY <1>2, <1>3, <1>7, <1>8, <2>2 DEF Rows, Holds, Active
  <2> QED
    BY <2>1, <2>2
<1>9. ASSUME NEW v \in Barges, lock'[v] = q
      PROVE  /\ session'[q].at \in {"flush vessel", "gate", "flush rest", "commit"}
             /\ on'[session'[q].bdn] = v
  <2>1. CASE v = row
    BY <1>2, <1>5, <1>6, <2>1
  <2>2. CASE v # row
    BY <1>2, <1>3, <1>7, <1>9, <2>2 DEF Rows, Holds
  <2> QED
    BY <2>1, <2>2
<1>10. ASSUME lock'["operation"] = q
       PROVE  session'[q].at \in {"flush rest", "commit"}
  <2>1. CASE row = "operation"
    BY <1>2, <1>5, <1>6, <2>1
  <2>2. CASE row # "operation"
    BY <1>2, <1>3, <1>7, <1>10, <2>2 DEF Rows, Holds
  <2> QED
    BY <2>1, <2>2
<1>11. Holds(q)'
  BY <1>8, <1>9, <1>10 DEF Holds
<1> QED
  BY <1>4, <1>11

LEMMA StepHoldsRows == LockInv /\ [Next]_vars => \A p \in Requests : Holds(p)'
<1> SUFFICES ASSUME LockInv, [Next]_vars
             PROVE  \A p \in Requests : Holds(p)'
  OBVIOUS
<1>0. RacesTyped
  BY DEF LockInv
<1>1. CASE UNCHANGED vars
  BY <1>1 DEF vars, LockInv, Holds, Active
<1>2. ASSUME NEW q \in Requests, NEW b \in Bdns, NEW verdict \in Verdicts, Begin(q, b, verdict)
      PROVE  \A p \in Requests : Holds(p)'
  <2>1. Moved(q, Opened(b, verdict)) /\ UNCHANGED lock /\ ~Active(q)
    BY <1>2, BeginMoves DEF Active
  <2>2. \A row \in Rows : lock[row] # q
    BY <2>1 DEF LockInv, Holds, Rows, Active
  <2> QED
    BY <2>1, <2>2, OthersHold, HoldsNothing
<1>3. ASSUME NEW q \in Requests, EndFlush(q)
      PROVE  \A p \in Requests : Holds(p)'
  <2>1. PICK new \in Session :
          /\ Goes(q, new)
          /\ \/ session[q].at = "flush bdn"
             \/ session[q].at = "flush vessel" /\ new.at = "gate"
             \/ session[q].at = "flush rest" /\ new.at = "commit"
    BY <1>0, <1>3, EndFlushMoves
  <2> QED
    BY <2>1, GoesHolding DEF Active
<1>4. ASSUME NEW q \in Requests, ReadOperation(q), ~Rollback(q)
      PROVE  \A p \in Requests : Holds(p)'
  <2>1. PICK new \in Session : Goes(q, new) /\ session[q].at = "read operation"
    BY <1>0, <1>4, ReadOperationMoves
  <2> QED
    BY <2>1, GoesHolding DEF Active
<1>5. ASSUME NEW q \in Requests, ReadVessel(q)
      PROVE  \A p \in Requests : Holds(p)'
  <2>1. PICK new \in Session : Goes(q, new) /\ session[q].at = "read vessel"
    BY <1>0, <1>5, ReadVesselMoves
  <2> QED
    BY <2>1, GoesHolding DEF Active
<1>6. ASSUME NEW q \in Requests, CountAndMove(q), ~Rollback(q)
      PROVE  \A p \in Requests : Holds(p)'
  <2>1. PICK new \in Session :
          Goes(q, new) /\ session[q].at = "gate" /\ new.at = "flush rest"
    BY <1>0, <1>6, CountMoves
  <2> QED
    BY <2>1, GoesHolding DEF Active
<1>7. ASSUME NEW q \in Requests, Rollback(q)
      PROVE  \A p \in Requests : Holds(p)'
  BY <1>7, RollbackMoves, OthersHold, HoldsNothing, ReleasedHoldsNothing
<1>8. ASSUME NEW q \in Requests, Commit(q)
      PROVE  \A p \in Requests : Holds(p)'
  <2>1. Unlock(q) /\ UNCHANGED on /\ \A p \in Requests \ {q} : session'[p] = session[p]
    BY <1>0, <1>8 DEF Commit, RacesTyped, TypeOK
  <2>2. ASSUME NEW p \in Requests \ {q}
        PROVE  Holds(p)'
    <3>1. \A row \in Rows : lock'[row] = p => lock[row] = p
      BY <2>1, <2>2 DEF Unlock
    <3> QED
      BY <1>0, <2>1, <3>1, KeepsHolding DEF LockInv, Active
  <2> QED
    BY <2>1, <2>2, HoldsNothing, ReleasedHoldsNothing
<1> QED
  BY <1>1, <1>2, <1>3, <1>4, <1>5, <1>6, <1>7, <1>8, TakerHolds, StepKinds

THEOREM LocksSafe == Spec => []LockInv
<1>1. Init => LockInv
  <2> SUFFICES ASSUME Init
               PROVE  \A q \in Requests : Holds(q)
    BY InitTyped DEF LockInv
  <2> QED
    BY DEF Init, Holds, Rows
<1>2. LockInv /\ [Next]_vars => LockInv'
  BY StepTyped, StepHoldsRows DEF LockInv
<1> QED
  BY <1>1, <1>2, PTL DEF Spec

-----------------------------------------------------------------------------
(* Rings.                                                                   *)

\* What a session may wait for: its BDN, the barge it posts to or the operation.
LEMMA WaitingFor ==
  ASSUME LockInv, NEW p \in Requests, NEW row \in Wanted(p)
  PROVE  /\ session[p].bdn \in Bdns /\ on[session[p].bdn] \in Barges
         /\ \/ row = session[p].bdn /\ \A other \in Due(p) \ {row} : lock[other] = p
            \/ row = on[session[p].bdn] /\ session[p].at = "flush vessel" /\ lock[row] # p
            \/ row = "operation" /\ session[p].at = "flush rest" /\ lock[row] # p
<1>1. row \in Due(p) /\ lock[row] # p
  BY DEF Wanted, Missing
<1>2. session[p].bdn \in Bdns /\ on[session[p].bdn] \in Barges
  BY <1>1, RowTyped DEF Due, LockInv, RacesTyped, TypeOK, Progress
<1>3. row = session[p].bdn => \A other \in Due(p) \ {row} : lock[other] = p
  <2> SUFFICES ASSUME row = session[p].bdn, NEW other \in Due(p) \ {row}, lock[other] # p
               PROVE  FALSE
    OBVIOUS
  <2>1. other \notin Bdns
    BY <1>2 DEF Due
  <2>2. other \in Missing(p)
    BY DEF Missing
  <2> QED
    BY <1>2, <2>1, <2>2 DEF Wanted
<1> QED
  BY <1>1, <1>2, <1>3 DEF Due

\* A session that waits for another's BDN reviews the same one.
LEMMA SameBdnWaits ==
  ASSUME LockInv, NEW p \in Requests, NEW q \in Requests, lock[session[p].bdn] = q,
         session[p].bdn \in Bdns
  PROVE  session[q].bdn = session[p].bdn
BY DEF LockInv, Holds

\* A session that waits for the operation waits for one that wants only its BDN.
LEMMA OperationHolderWants ==
  ASSUME LockInv, NEW q \in Requests, NEW r \in Requests, lock["operation"] = q,
         Awaits(q, r)
  PROVE  session[r].bdn = session[q].bdn
<1>1. session[q].at \in {"flush rest", "commit"}
  BY DEF LockInv, Holds
<1>2. PICK row \in Wanted(q) : lock[row] = r
  BY DEF Awaits
<1>3. /\ session[q].bdn \in Bdns
      /\ \/ row = session[q].bdn
         \/ session[q].at = "flush vessel"
         \/ row = "operation" /\ lock[row] # q
  BY <1>2, WaitingFor
<1>4. row = session[q].bdn
  BY <1>1, <1>3
<1> QED
  BY <1>2, <1>3, <1>4, SameBdnWaits

\* A session that waits for a barge waits for one that wants its BDN or the operation.
LEMMA BargeHolderWants ==
  ASSUME LockInv, NEW q \in Requests, NEW r \in Requests, NEW v \in Barges, lock[v] = q,
         Awaits(q, r)
  PROVE  session[r].bdn = session[q].bdn \/ lock["operation"] = r
<1>1. on[session[q].bdn] = v
  BY DEF LockInv, Holds
<1>2. PICK row \in Wanted(q) : lock[row] = r
  BY DEF Awaits
<1>3. /\ session[q].bdn \in Bdns
      /\ \/ row = session[q].bdn
         \/ row = on[session[q].bdn] /\ lock[row] # q
         \/ row = "operation"
  BY <1>2, WaitingFor
<1>4. CASE row = session[q].bdn
  BY <1>2, <1>3, <1>4, SameBdnWaits
<1>5. CASE row = "operation"
  BY <1>2, <1>5
<1> QED
  BY <1>1, <1>3, <1>4, <1>5

\* Sessions wait for each other in a ring only when two of them review one BDN, for
\* any number of sessions, BDNs and barges: a barge is waited for only before the
\* operation, and the operation only before the session's own BDN.
THEOREM RingsShareABdn == Spec => []RingsNeedOneBdn
<1>1. LockInv => RingsNeedOneBdn
  <2> SUFFICES ASSUME LockInv, NEW S \in SUBSET Requests, Ring(S)
               PROVE  \E p, q \in S : p # q /\ session[p].bdn = session[q].bdn
    BY DEF RingsNeedOneBdn
  <2>1. PICK p \in S : TRUE
    BY DEF Ring
  <2>2. PICK q \in S : Awaits(p, q)
    BY DEF Ring
  <2>3. PICK r \in S : Awaits(q, r)
    BY DEF Ring
  <2>4. PICK t \in S : Awaits(r, t)
    BY DEF Ring
  <2>5. p # q /\ q # r /\ r # t
    BY <2>2, <2>3, <2>4 DEF Awaits
  <2>6. PICK row \in Wanted(p) : lock[row] = q
    BY <2>2 DEF Awaits
  <2>7. CASE row = session[p].bdn
    <3>1. session[q].bdn = session[p].bdn
      BY <2>6, <2>7, WaitingFor, SameBdnWaits
    <3> QED
      BY <2>5, <3>1
  <2>8. CASE row = "operation"
    <3>1. session[r].bdn = session[q].bdn
      BY <2>3, <2>6, <2>8, OperationHolderWants
    <3> QED
      BY <2>5, <3>1
  <2>9. CASE row = on[session[p].bdn]
    <3>1. on[session[p].bdn] \in Barges
      BY <2>6, WaitingFor
    <3>2. session[r].bdn = session[q].bdn \/ lock["operation"] = r
      BY <2>3, <2>6, <2>9, <3>1, BargeHolderWants
    <3>3. lock["operation"] = r => session[t].bdn = session[r].bdn
      BY <2>4, OperationHolderWants
    <3> QED
      BY <2>5, <3>2, <3>3
  <2> QED
    BY <2>6, <2>7, <2>8, <2>9, WaitingFor
<1> QED
  BY <1>1, LocksSafe, PTL

-----------------------------------------------------------------------------
(* The last approval opens the gate.                                        *)

LEMMA HoldsAfter ==
  ASSUME RacesTyped, PostingHoldsVessel, NEW q \in Requests, NEW new, Moved(q, new),
         \A p \in Requests \ {q}, v \in Barges : lock[v] = p => lock'[v] = p,
         new.at \in {"gate", "flush rest", "commit"} /\ OpType = "full_operation"
           /\ new.verdict = "approved" => lock'[on[new.bdn]] = q
  PROVE  PostingHoldsVessel'
<1>1. session'[q] = new /\ \A p \in Requests \ {q} : session'[p] = session[p]
  BY DEF Moved, RacesTyped, TypeOK
<1>2. on' = on
  BY DEF Moved, Committed
<1>3. ASSUME NEW p \in Requests \ {q}, session[p].at \in {"gate", "flush rest", "commit"},
             Posts(p)
      PROVE  lock'[on[session[p].bdn]] = p
  <2>1. session[p].bdn \in Bdns
    BY <1>3, RowTyped DEF Progress
  <2>2. on[session[p].bdn] \in Barges /\ lock[on[session[p].bdn]] = p
    BY <1>3, <2>1 DEF PostingHoldsVessel, RacesTyped, TypeOK
  <2> QED
    BY <2>2
<1> QED
  BY <1>1, <1>2, <1>3 DEF PostingHoldsVessel, Posts

LEMMA ReleaseKeepsOthers ==
  ASSUME RacesTyped, NEW q \in Requests, Unlock(q)
  PROVE  \A p \in Requests \ {q}, v \in Barges : lock[v] = p => lock'[v] = p
BY DEF Unlock, Rows

LEMMA StepHolds == RacesTyped /\ PostingHoldsVessel /\ [Next]_vars => PostingHoldsVessel'
<1> SUFFICES ASSUME RacesTyped, PostingHoldsVessel, [Next]_vars
             PROVE  PostingHoldsVessel'
  OBVIOUS
<1>1. CASE UNCHANGED vars
  BY <1>1 DEF vars, PostingHoldsVessel, Posts
<1>2. ASSUME NEW q \in Requests, NEW b \in Bdns, NEW verdict \in Verdicts, Begin(q, b, verdict)
      PROVE  PostingHoldsVessel'
  <2>1. Moved(q, Opened(b, verdict)) /\ UNCHANGED lock
    BY <1>2, BeginMoves
  <2> QED
    BY <2>1, OpenedTyped, HoldsAfter
<1>3. ASSUME NEW q \in Requests, LockRow(q) PROVE PostingHoldsVessel'
  <2>1. PICK row \in Rows :
          lock[row] = Free /\ lock' = [lock EXCEPT ![row] = q] /\ UNCHANGED <<Committed, session>>
    BY <1>3, LockRowTakes
  <2>2. UNCHANGED <<on, session>>
    BY <2>1 DEF Committed
  <2>3. ASSUME NEW p \in Requests, session[p].at \in {"gate", "flush rest", "commit"}, Posts(p)
        PROVE  lock'[on[session[p].bdn]] = p
    <3>1. lock[on[session[p].bdn]] = p /\ p # Free
      BY <2>3 DEF PostingHoldsVessel
    <3> QED
      BY <2>1, <3>1 DEF RacesTyped, TypeOK
  <2> QED
    BY <2>2, <2>3 DEF PostingHoldsVessel, Posts
<1>4. ASSUME NEW q \in Requests, EndFlush(q) PROVE PostingHoldsVessel'
  <2>1. PICK new \in Session :
          /\ Goes(q, new)
          /\ \/ new.at = "read operation"
             \/ new.at = "gate" /\ lock[on[session[q].bdn]] = q
             \/ session[q].at = "flush rest" /\ new.at = "commit"
    BY <1>4, EndFlushMoves
  <2>2. Moved(q, new) /\ UNCHANGED lock /\ new.bdn = session[q].bdn /\ new.verdict = session[q].verdict
    BY <2>1 DEF Goes
  <2>3. new.at = "commit" /\ OpType = "full_operation" /\ new.verdict = "approved" =>
          lock[on[new.bdn]] = q
    BY <2>1, <2>2 DEF PostingHoldsVessel, Posts
  <2>4. new.at \in {"gate", "flush rest", "commit"} /\ OpType = "full_operation"
          /\ new.verdict = "approved" => lock'[on[new.bdn]] = q
    BY <2>1, <2>2, <2>3
  <2> QED
    BY <2>2, <2>4, HoldsAfter
<1>5. ASSUME NEW q \in Requests, ReadOperation(q), ~Rollback(q) PROVE PostingHoldsVessel'
  <2>1. PICK new \in Session :
          /\ Goes(q, new)
          /\ \/ new.at = "read vessel"
             \/ new.at = "gate" /\ ~Posts(q)
             \/ new.verdict = "rejected"
    BY <1>5, ReadOperationMoves
  <2>2. Moved(q, new) /\ UNCHANGED lock /\ new.verdict = session[q].verdict
    BY <2>1 DEF Goes
  <2> QED
    BY <2>1, <2>2, HoldsAfter DEF Posts
<1>6. ASSUME NEW q \in Requests, ReadVessel(q) PROVE PostingHoldsVessel'
  <2>1. PICK new \in Session : Goes(q, new) /\ new.at = "flush vessel"
    BY <1>6, ReadVesselMoves
  <2>2. Moved(q, new) /\ UNCHANGED lock
    BY <2>1 DEF Goes
  <2> QED
    BY <2>1, <2>2, HoldsAfter
<1>7. ASSUME NEW q \in Requests, CountAndMove(q), ~Rollback(q) PROVE PostingHoldsVessel'
  <2>1. PICK new \in Session : Goes(q, new) /\ session[q].at = "gate"
    BY <1>7, CountMoves
  <2>2. Moved(q, new) /\ UNCHANGED lock /\ new.bdn = session[q].bdn /\ new.verdict = session[q].verdict
    BY <2>1 DEF Goes
  <2>3. OpType = "full_operation" /\ new.verdict = "approved" => lock[on[new.bdn]] = q
    BY <2>1, <2>2 DEF PostingHoldsVessel, Posts
  <2> QED
    BY <2>2, <2>3, HoldsAfter
<1>8. ASSUME NEW q \in Requests, Rollback(q) PROVE PostingHoldsVessel'
  BY <1>8, RollbackMoves, IdleTyped, ReleaseKeepsOthers, HoldsAfter
<1>9. ASSUME NEW q \in Requests, Commit(q) PROVE PostingHoldsVessel'
  <2>1. /\ session'[q] = Idle /\ (\A p \in Requests \ {q} : session'[p] = session[p])
        /\ on' = on /\ Unlock(q)
    BY <1>9 DEF Commit, RacesTyped, TypeOK
  <2>2. ASSUME NEW p \in Requests \ {q}, session[p].at \in {"gate", "flush rest", "commit"},
               Posts(p)
        PROVE  lock'[on[session[p].bdn]] = p
    <3>1. session[p].bdn \in Bdns
      BY <2>2, RowTyped DEF Progress
    <3>2. on[session[p].bdn] \in Barges /\ lock[on[session[p].bdn]] = p
      BY <2>2, <3>1 DEF PostingHoldsVessel, RacesTyped, TypeOK
    <3> QED
      BY <2>1, <3>2, ReleaseKeepsOthers
  <2> QED
    BY <2>1, <2>2, IdleTyped DEF PostingHoldsVessel, Posts
<1> QED
  BY <1>1, <1>2, <1>3, <1>4, <1>5, <1>6, <1>7, <1>8, <1>9, StepKinds

LEMMA ExpectsAfter ==
  ASSUME RacesTyped, WaitsForSomething, NEW q \in Requests, NEW new, Moved(q, new),
         op = "bdn_pending" => Expects(new)
  PROVE  WaitsForSomething'
<1>1. session'[q] = new /\ \A p \in Requests \ {q} : session'[p] = session[p]
  BY DEF Moved, RacesTyped, TypeOK
<1>2. /\ op' = op /\ on' = on /\ (\A d \in Deliveries : Owed(d)' <=> Owed(d))
      /\ \A b \in Bdns : Stands(b)' <=> Stands(b)
  BY DEF Moved, Committed, Owed, Stands
<1>3. ASSUME NEW x, NEW y, Expects(x), y = x
      PROVE  /\ y.at \in {"read vessel", "flush vessel", "gate", "flush rest", "commit"} =>
                  y.op = "bdn_pending"
             /\ y.at \in {"flush rest", "commit"} /\ y.verdict = "approved"
                  /\ y.to # "bdn_approved" =>
                  \/ IsLoading(y.bdn)
                  \/ \E d \in Deliveries : Owed(d)' /\ For[y.bdn] # d
                  \/ \E a \in Bdns : Stands(a)' /\ on'[a] # on'[y.bdn]
  BY <1>2, <1>3 DEF Expects
<1>4. ASSUME op' = "bdn_pending", NEW p \in Requests
      PROVE  Expects(session[p])'
  <2>1. PICK x : Expects(x) /\ session'[p] = x
    BY <1>1, <1>2, <1>4 DEF WaitsForSomething
  <2>2. /\ session'[p].at \in {"read vessel", "flush vessel", "gate", "flush rest", "commit"} =>
             session'[p].op = "bdn_pending"
        /\ session'[p].at \in {"flush rest", "commit"} /\ session'[p].verdict = "approved"
             /\ session'[p].to # "bdn_approved" =>
             \/ IsLoading(session'[p].bdn)
             \/ \E d \in Deliveries : Owed(d)' /\ For[session'[p].bdn] # d
             \/ \E a \in Bdns : Stands(a)' /\ on'[a] # on'[session'[p].bdn]
    BY <1>3, <2>1
  <2> QED
    BY <2>2 DEF Expects, IsLoading
<1>5. Spread' <=> Spread
  BY <1>2 DEF Spread
<1> QED
  BY <1>2, <1>4, <1>5 DEF WaitsForSomething

LEMMA IdleExpects == Expects(Idle)
BY IdleTyped DEF Expects

\* A shut gate lacks a delivery, and not the one of the session that counts.
LEMMA ShutGateOwes ==
  ASSUME NEW q \in Requests, ~GateCleared(q), Deliveries # {}, session[q].bdn \in Bdns
  PROVE  \E d \in Deliveries : Owed(d) /\ For[session[q].bdn] # d
<1>1. PICK d \in Deliveries : d \notin Approved(q)
  BY DEF GateCleared
<1> QED
  BY <1>1 DEF Approved, Owed

\* A commit that leaves the operation at bdn_pending is an approval that counted a
\* shut gate: a rejection takes the operation back.
LEMMA CommitWaits ==
  ASSUME GateInv, OpType = "full_operation", NEW q \in Requests, Commit(q)
  PROVE  WaitsForSomething'
<1> DEFINE s == session[q]
<1>1. s \in Session /\ Progress(s) /\ s.at = "commit"
  BY RowTyped DEF Commit, GateInv
<1>2. /\ session'[q] = Idle /\ \A p \in Requests \ {q} : session'[p] = session[p]
      /\ s.bdn \in Bdns /\ on' = on
      /\ \A b \in Bdns : status'[b] = IF b = s.bdn THEN s.verdict ELSE status[b]
      /\ op' = IF s.to # s.op THEN s.to ELSE op
  BY <1>1 DEF Commit, GateInv, RacesTyped, TypeOK, Progress
<1> SUFFICES ASSUME op' = "bdn_pending"
             PROVE  /\ (\E d \in Deliveries : Owed(d)') \/ Spread'
                    /\ \A p \in Requests : Expects(session[p])'
  BY DEF WaitsForSomething
<1>3. op = "bdn_pending" /\ Expects(s) /\ s.op = "bdn_pending"
  <2>1. s.to # s.op => s.to # "bdn_pending"
    BY <1>1 DEF Progress, Target
  <2>2. op = "bdn_pending"
    BY <1>2, <2>1
  <2>3. Expects(s)
    BY <2>2 DEF GateInv, WaitsForSomething
  <2> QED
    BY <1>1, <2>2, <2>3 DEF Expects
<1>4. s.verdict = "approved" /\ s.to # "bdn_approved"
  <2>1. s.verdict # "rejected"
    BY <1>1, <1>2, <1>3 DEF Progress, Target
  <2>2. s.verdict = "approved"
    BY <1>1, <2>1 DEF Progress
  <2> QED
    BY <1>2, <1>3, <2>2
<1>5. \A b \in Bdns : Stands(b) => Stands(b)'
  BY <1>2, <1>4 DEF Stands
<1>6. ASSUME NEW d \in Deliveries, Owed(d), For[s.bdn] # d
      PROVE  Owed(d)'
  BY <1>2, <1>6 DEF Owed
<1>7. PICK x \in Bdns : x = s.bdn
  BY <1>2
<1>8. ~IsLoading(x) => Stands(x)'
  BY <1>2, <1>4, <1>7 DEF Stands
<1>9. (\E d \in Deliveries : Owed(d)') \/ Spread'
  <2>1. CASE IsLoading(s.bdn)
    <3>1. \A d \in Deliveries : Owed(d) => Owed(d)'
      BY <1>6, <2>1 DEF IsLoading
    <3>2. Spread => Spread'
      BY <1>2, <1>5 DEF Spread
    <3> QED
      BY <1>3, <3>1, <3>2 DEF GateInv, WaitsForSomething
  <2>2. CASE \E d \in Deliveries : Owed(d) /\ For[s.bdn] # d
    BY <1>6, <2>2
  <2>3. CASE ~IsLoading(s.bdn) /\ \E a \in Bdns : Stands(a) /\ on[a] # on[s.bdn]
    <3>1. PICK a \in Bdns : Stands(a) /\ on[a] # on[x]
      BY <1>7, <2>3
    <3>2. Stands(a)' /\ Stands(x)' /\ on'[a] # on'[x]
      BY <1>2, <1>5, <1>7, <1>8, <2>3, <3>1
    <3> QED
      BY <3>2 DEF Spread
  <2> QED
    BY <1>1, <1>3, <1>4, <2>1, <2>2, <2>3 DEF Expects
<1>10. ASSUME NEW p \in Requests \ {q}
      PROVE  Expects(session[p])'
  <2>1. Expects(session[p]) /\ session'[p] = session[p]
    BY <1>2, <1>3 DEF GateInv, WaitsForSomething
  <2>2. ASSUME session[p].at \in {"flush rest", "commit"}, session[p].verdict = "approved",
               session[p].to # "bdn_approved"
        PROVE  \/ IsLoading(session[p].bdn)
               \/ \E d \in Deliveries : Owed(d)' /\ For[session[p].bdn] # d
               \/ \E a \in Bdns : Stands(a)' /\ on'[a] # on'[session[p].bdn]
    <3>1. on[s.bdn] # on[session[p].bdn]
      <4>1. lock[on[session[p].bdn]] = p /\ lock[on[s.bdn]] = q
        BY <1>1, <1>4, <2>2 DEF GateInv, PostingHoldsVessel, Posts
      <4> QED
        BY <4>1
    <3>2. CASE IsLoading(session[p].bdn)
      BY <3>2
    <3>3. CASE \E d \in Deliveries : Owed(d) /\ For[session[p].bdn] # d
      <4>1. PICK d \in Deliveries : Owed(d) /\ For[session[p].bdn] # d
        BY <3>3
      <4>2. CASE For[s.bdn] # d
        BY <1>6, <4>1, <4>2
      <4>3. CASE For[s.bdn] = d
        <5>1. Stands(x)' /\ on'[x] # on'[session[p].bdn]
          BY <1>2, <1>7, <1>8, <3>1, <4>3 DEF IsLoading
        <5> QED
          BY <5>1
      <4> QED
        BY <4>2, <4>3
    <3>4. CASE \E a \in Bdns : Stands(a) /\ on[a] # on[session[p].bdn]
      BY <1>2, <1>5, <3>4
    <3> QED
      BY <2>1, <2>2, <3>2, <3>3, <3>4 DEF Expects
  <2>3. session[p].at \in {"read vessel", "flush vessel", "gate", "flush rest", "commit"} =>
          session[p].op = "bdn_pending"
    BY <2>1 DEF Expects
  <2> QED
    BY <2>1, <2>2, <2>3 DEF Expects
<1> QED
  BY <1>2, <1>9, <1>10, IdleTyped DEF Expects

LEMMA StepWaits ==
  ASSUME OpType = "full_operation", Deliveries # {}, GateInv, [Next]_vars
  PROVE  WaitsForSomething'
<1>1. RacesTyped /\ WaitsForSomething
  BY DEF GateInv
<1>2. CASE UNCHANGED <<on, status, op, session>>
  <2>1. (\A d : Owed(d)' <=> Owed(d)) /\ \A b \in Bdns : Stands(b)' <=> Stands(b)
    BY <1>2 DEF Owed, Stands
  <2>2. \A q \in Requests : Expects(session[q])' <=> Expects(session[q])
    BY <1>2, <2>1 DEF Expects
  <2>3. Spread' <=> Spread
    BY <1>2, <2>1 DEF Spread
  <2> QED
    BY <1>1, <1>2, <2>1, <2>2, <2>3 DEF WaitsForSomething
<1>3. ASSUME NEW q \in Requests, NEW b \in Bdns, NEW verdict \in Verdicts, Begin(q, b, verdict)
      PROVE  WaitsForSomething'
  <2>1. Moved(q, Opened(b, verdict)) /\ Expects(Opened(b, verdict))
    BY <1>3, BeginMoves, OpenedTyped DEF Expects
  <2> QED
    BY <1>1, <2>1, ExpectsAfter
<1>4. ASSUME NEW q \in Requests, LockRow(q) PROVE UNCHANGED <<on, status, op, session>>
  BY <1>4 DEF LockRow, Committed
<1>5. ASSUME NEW q \in Requests, EndFlush(q) PROVE WaitsForSomething'
  <2>1. PICK new \in Session :
          /\ Goes(q, new) /\ new.op = session[q].op /\ new.to = session[q].to
          /\ \/ new.at = "read operation"
             \/ session[q].at = "flush vessel" /\ new.at = "gate"
             \/ session[q].at = "flush rest" /\ new.at = "commit"
    BY <1>1, <1>5, EndFlushMoves
  <2>2. Moved(q, new) /\ new.bdn = session[q].bdn /\ new.verdict = session[q].verdict
    BY <2>1 DEF Goes
  <2>3. op = "bdn_pending" => Expects(session[q])
    BY <1>1 DEF WaitsForSomething
  <2>4. op = "bdn_pending" => Expects(new)
    BY <2>1, <2>2, <2>3 DEF Expects
  <2> QED
    BY <1>1, <2>2, <2>4, ExpectsAfter
<1>6. ASSUME NEW q \in Requests, ReadOperation(q), ~Rollback(q) PROVE WaitsForSomething'
  <2>1. PICK new \in Session :
          /\ Goes(q, new) /\ new.op = op
          /\ new.at \in {"flush rest", "commit"} => new.verdict = "rejected"
    BY <1>1, <1>6, ReadOperationMoves
  <2> QED
    BY <1>1, <2>1, ExpectsAfter DEF Expects, Goes
<1>7. ASSUME NEW q \in Requests, ReadVessel(q) PROVE WaitsForSomething'
  <2>1. PICK new \in Session :
          Goes(q, new) /\ new.at = "flush vessel" /\ new.op = session[q].op
    BY <1>1, <1>7, ReadVesselMoves
  <2>2. session[q].at = "read vessel"
    BY <1>7 DEF ReadVessel
  <2>3. op = "bdn_pending" => Expects(new)
    BY <1>1, <2>1, <2>2 DEF Expects, WaitsForSomething
  <2> QED
    BY <1>1, <2>1, <2>3, ExpectsAfter DEF Goes
<1>8. ASSUME NEW q \in Requests, CountAndMove(q), ~Rollback(q) PROVE WaitsForSomething'
  <2>1. PICK new \in Session :
          /\ Goes(q, new) /\ new.op = session[q].op /\ new.at = "flush rest"
          /\ new.to = IF GateCleared(q) /\ new.op # "bdn_approved"
                        THEN Target(new.op, "bdn_approved") ELSE new.op
    BY <1>1, <1>8, CountMoves
  <2>2. session[q].at = "gate" /\ session[q].bdn \in Bdns
    BY <1>1, <1>8, RowTyped DEF CountAndMove, Progress
  <2>3. op = "bdn_pending" => new.op = "bdn_pending"
    BY <1>1, <2>1, <2>2 DEF WaitsForSomething, Expects
  <2>4. new.op = "bdn_pending" /\ new.to # "bdn_approved" => ~GateCleared(q)
    BY <2>1 DEF Target
  <2>5. op = "bdn_pending" => Expects(new)
    <3>1. new.bdn = session[q].bdn
      BY <2>1 DEF Goes
    <3> QED
      BY <2>2, <2>3, <2>4, <3>1, ShutGateOwes DEF Expects
  <2> QED
    BY <1>1, <2>1, <2>5, ExpectsAfter DEF Goes
<1>9. ASSUME NEW q \in Requests, Rollback(q) PROVE WaitsForSomething'
  BY <1>1, <1>9, RollbackMoves, IdleExpects, ExpectsAfter
<1>10. UNCHANGED vars => UNCHANGED <<on, status, op, session>>
  BY DEF vars
<1> QED
  BY <1>2, <1>3, <1>4, <1>5, <1>6, <1>7, <1>8, <1>9, <1>10, CommitWaits, StepKinds

\* On a full operation the gate is opened by the last approval, whichever reviews
\* overlap and however often a BDN is reviewed, unless the approvals were on different
\* barges: those on one barge are ordered by its row, so each counts what all before
\* it have published.  The operation leaves bdn_pending with that very commit, not
\* only when all is quiet.
THEOREM LastApprovalCounts ==
  ASSUME OpType = "full_operation", Deliveries # {}
  PROVE  Spec => []LastApprovalOpensGate
<1>1. Init => GateInv
  <2> SUFFICES ASSUME Init
               PROVE  PostingHoldsVessel /\ WaitsForSomething
    BY InitTyped DEF GateInv
  <2>1. \A q \in Requests : session[q] = Idle
    BY DEF Init
  <2> QED
    BY <2>1, IdleTyped, IdleExpects DEF Init, PostingHoldsVessel, WaitsForSomething, Owed
<1>2. GateInv /\ [Next]_vars => GateInv'
  BY StepTyped, StepHolds, StepWaits DEF GateInv
<1>3. GateInv => LastApprovalOpensGate
  BY DEF GateInv, WaitsForSomething, Owed, Spread, Stands, LastApprovalOpensGate
<1> QED
  BY <1>1, <1>2, <1>3, PTL DEF Spec


-----------------------------------------------------------------------------
(* The gate opens over approvals.                                           *)

\* What a session that opens the gate must have seen.
Covered(s) ==
  s.at \in {"flush rest", "commit"} /\ s.to = "bdn_approved" /\ s.op # "bdn_approved" =>
    /\ s.verdict = "approved"
    /\ \A d \in Deliveries : \E b \in Bdns : For[b] = d /\ (Documents(b) \/ b = s.bdn)

LEMMA AllCovered ==
  ASSUME \A p \in Requests : \E y : session'[p] = y /\ Covered(y),
         \A b \in Bdns : Documents(b) => Documents(b)'
  PROVE  CountStands'
<1>1. ASSUME NEW p \in Requests, session'[p].at \in {"flush rest", "commit"},
             session'[p].to = "bdn_approved", session'[p].op # "bdn_approved"
      PROVE  /\ session'[p].verdict = "approved"
             /\ \A d \in Deliveries :
                  \E b \in Bdns : For[b] = d /\ (Documents(b)' \/ b = session'[p].bdn)
  <2>1. PICK y : session'[p] = y /\ Covered(y)
    OBVIOUS
  <2>2. /\ y.verdict = "approved"
        /\ \A d \in Deliveries : \E b \in Bdns : For[b] = d /\ (Documents(b) \/ b = y.bdn)
    BY <1>1, <2>1 DEF Covered
  <2>3. \A d \in Deliveries : \E b \in Bdns : For[b] = d /\ (Documents(b)' \/ b = y.bdn)
    BY <2>2
  <2> QED
    BY <2>1, <2>2, <2>3
<1> QED
  BY <1>1 DEF CountStands

LEMMA StandsAfter ==
  ASSUME ReviewInv, NEW q \in Requests, NEW new, Moved(q, new), Covered(new)
  PROVE  ApprovedIsPosted' /\ CountStands'
<1>1. session'[q] = new /\ \A p \in Requests \ {q} : session'[p] = session[p]
  BY DEF Moved, ReviewInv, RacesTyped, TypeOK
<1>2. status' = status /\ entries' = entries
  BY DEF Moved, Committed
<1>3. ApprovedIsPosted'
  BY <1>2 DEF ReviewInv, ApprovedIsPosted
<1>4. \A b \in Bdns : Documents(b) => Documents(b)'
  BY <1>2 DEF Documents
<1>5. \A p \in Requests : Covered(session[p])
  BY DEF ReviewInv, CountStands, Covered
<1>6. \A p \in Requests : \E y : session'[p] = y /\ Covered(y)
  BY <1>1, <1>5
<1> QED
  BY <1>3, <1>4, <1>6, AllCovered

LEMMA ClearedGateIsDocumented ==
  ASSUME NEW q \in Requests, GateCleared(q), NEW d \in Deliveries
  PROVE  \E b \in Bdns : For[b] = d /\ (Documents(b) \/ b = session[q].bdn)
BY DEF GateCleared, Approved, Documents

\* What a commit makes of the BDNs: its own gets the verdict, and on a full operation
\* an approval adds an entry; what documents a delivery goes on documenting it.
LEMMA CommitDocuments ==
  ASSUME OpType = "full_operation", ReviewInv, NEW q \in Requests, Commit(q)
  PROVE  /\ ApprovedIsPosted'
         /\ \A b \in Bdns : Documents(b) => Documents(b)'
         /\ session[q].bdn \in Bdns /\ status'[session[q].bdn] = session[q].verdict
<1>1. Progress(session[q]) /\ session[q].at = "commit"
  BY RowTyped DEF Commit, ReviewInv
<1>2. PICK x \in Bdns : x = session[q].bdn
  BY <1>1 DEF Progress
<1>3. session[q].verdict \in Verdicts
  BY <1>1 DEF Progress, Verdicts
<1>4. /\ \A b \in Bdns : status'[b] = IF b = x THEN session[q].verdict ELSE status[b]
      /\ \A b \in Bdns : entries[b] \in Nat
      /\ \A b \in Bdns : entries'[b] = IF b = x /\ session[q].verdict = "approved"
                                         THEN entries[b] + 1 ELSE entries[b]
  BY <1>2 DEF Commit, ReviewInv, RacesTyped, TypeOK, Posts
<1>5. \A b \in Bdns : entries[b] > 0 => entries'[b] > 0
  BY <1>4
<1>6. ApprovedIsPosted'
  BY <1>3, <1>4, <1>5 DEF Verdicts, ReviewInv, ApprovedIsPosted
<1>7. ASSUME NEW b \in Bdns, Documents(b)
      PROVE  Documents(b)'
  <2>1. entries[b] > 0 /\ status[b] \in Verdicts
    BY <1>7 DEF Documents, Verdicts, ReviewInv, ApprovedIsPosted
  <2>2. entries'[b] > 0 /\ status'[b] \in Verdicts
    BY <1>3, <1>4, <1>5, <2>1
  <2> QED
    BY <2>2 DEF Documents, Verdicts
<1> QED
  BY <1>2, <1>4, <1>6, <1>7

LEMMA CommitStands ==
  ASSUME OpType = "full_operation", ReviewInv, NEW q \in Requests, Commit(q)
  PROVE  ApprovedIsPosted' /\ CountStands'
<1>1. session'[q] = Idle /\ \A p \in Requests \ {q} : session'[p] = session[p]
  BY DEF Commit, ReviewInv, RacesTyped, TypeOK
<1>2. \A p \in Requests : Covered(session[p])
  BY DEF ReviewInv, CountStands, Covered
<1>3. Covered(Idle)
  BY IdleTyped DEF Covered
<1>4. \A p \in Requests : \E y : session'[p] = y /\ Covered(y)
  BY <1>1, <1>2, <1>3
<1> QED
  BY <1>4, AllCovered, CommitDocuments

LEMMA StepStands ==
  ASSUME OpType = "full_operation", ReviewInv, [Next]_vars
  PROVE  ApprovedIsPosted' /\ CountStands'
<1>1. RacesTyped /\ \A q \in Requests : Covered(session[q])
  BY DEF ReviewInv, CountStands, Covered
<1>2. CASE UNCHANGED <<status, entries, session>>
  <2>1. \A b \in Bdns : Documents(b) => Documents(b)'
    BY <1>2 DEF Documents
  <2>2. \A p \in Requests : \E y : session'[p] = y /\ Covered(y)
    BY <1>1, <1>2
  <2>3. ApprovedIsPosted'
    BY <1>2 DEF ReviewInv, ApprovedIsPosted
  <2> QED
    BY <2>1, <2>2, <2>3, AllCovered
<1>3. ASSUME NEW q \in Requests, NEW b \in Bdns, NEW verdict \in Verdicts, Begin(q, b, verdict)
      PROVE  ApprovedIsPosted' /\ CountStands'
  <2>1. Moved(q, Opened(b, verdict)) /\ Covered(Opened(b, verdict))
    BY <1>3, BeginMoves, OpenedTyped DEF Covered
  <2> QED
    BY <2>1, StandsAfter
<1>4. ASSUME NEW q \in Requests, LockRow(q) PROVE UNCHANGED <<status, entries, session>>
  BY <1>4 DEF LockRow, Committed
<1>5. ASSUME NEW q \in Requests, EndFlush(q) PROVE ApprovedIsPosted' /\ CountStands'
  <2>1. PICK new \in Session :
          /\ Goes(q, new) /\ new.op = session[q].op /\ new.to = session[q].to
          /\ \/ new.at \notin {"flush rest", "commit"}
             \/ session[q].at = "flush rest"
    BY <1>1, <1>5, EndFlushMoves
  <2>2. Moved(q, new) /\ new.bdn = session[q].bdn /\ new.verdict = session[q].verdict
    BY <2>1 DEF Goes
  <2>3. PICK s : s = session[q] /\ Covered(s)
    BY <1>1
  <2>4. PICK x, v : x = s.bdn /\ v = s.verdict
    OBVIOUS
  <2>5. new.at \in {"flush rest", "commit"} /\ new.to = "bdn_approved" /\ new.op # "bdn_approved" =>
          /\ v = "approved"
          /\ \A d \in Deliveries : \E b \in Bdns : For[b] = d /\ (Documents(b) \/ b = x)
    BY <2>1, <2>3, <2>4 DEF Covered
  <2>6. x = new.bdn /\ v = new.verdict
    BY <2>2, <2>3, <2>4
  <2>7. Covered(new)
    BY <2>5, <2>6 DEF Covered
  <2> QED
    BY <2>2, <2>7, StandsAfter
<1>6. ASSUME NEW q \in Requests, ReadOperation(q), ~Rollback(q)
      PROVE  ApprovedIsPosted' /\ CountStands'
  <2>1. PICK new \in Session :
          /\ Goes(q, new)
          /\ new.at = "flush rest" => new.verdict = "rejected"
          /\ new.at # "commit"
    BY <1>1, <1>6, ReadOperationMoves
  <2>2. Moved(q, new) /\ Progress(new)
    BY <2>1 DEF Goes
  <2>3. Covered(new)
    BY <2>1, <2>2 DEF Covered, Progress, Target
  <2> QED
    BY <2>2, <2>3, StandsAfter
<1>7. ASSUME NEW q \in Requests, ReadVessel(q) PROVE ApprovedIsPosted' /\ CountStands'
  <2>1. PICK new \in Session : Goes(q, new) /\ new.at = "flush vessel"
    BY <1>1, <1>7, ReadVesselMoves
  <2> QED
    BY <2>1, StandsAfter DEF Goes, Covered
<1>8. ASSUME NEW q \in Requests, CountAndMove(q), ~Rollback(q)
      PROVE  ApprovedIsPosted' /\ CountStands'
  <2>1. PICK new \in Session :
          /\ Goes(q, new)
          /\ new.to = IF GateCleared(q) /\ new.op # "bdn_approved"
                        THEN Target(new.op, "bdn_approved") ELSE new.op
    BY <1>1, <1>8, CountMoves
  <2>2. session[q].verdict = "approved"
    BY <1>1, <1>8, RowTyped DEF CountAndMove, Progress
  <2>3. Moved(q, new) /\ new.bdn = session[q].bdn /\ new.verdict = "approved"
    BY <2>1, <2>2 DEF Goes
  <2>4. new.to = "bdn_approved" /\ new.op # "bdn_approved" => GateCleared(q)
    BY <2>1
  <2>5. ASSUME GateCleared(q), NEW d \in Deliveries
        PROVE  \E b \in Bdns : For[b] = d /\ (Documents(b) \/ b = new.bdn)
    BY <2>3, <2>5, ClearedGateIsDocumented
  <2>6. Covered(new)
    BY <2>3, <2>4, <2>5 DEF Covered
  <2> QED
    BY <2>3, <2>6, StandsAfter
<1>9. ASSUME NEW q \in Requests, Rollback(q) PROVE ApprovedIsPosted' /\ CountStands'
  <2>1. Moved(q, Idle) /\ Covered(Idle)
    BY <1>9, RollbackMoves, IdleTyped DEF Covered
  <2> QED
    BY <2>1, StandsAfter
<1>10. UNCHANGED vars => UNCHANGED <<status, entries, session>>
  BY DEF vars
<1> QED
  BY <1>2, <1>3, <1>4, <1>5, <1>6, <1>7, <1>8, <1>9, <1>10, CommitStands, StepKinds

\* Only a commit moves the operation.
LEMMA CommitsMove ==
  ASSUME [Next]_vars, ~UNCHANGED Committed
  PROVE  \E q \in Requests : Commit(q)
BY DEF Next, Step, BreakRing, vars, Begin, LockRow, EndFlush, ReadOperation, ReadVessel,
       CountAndMove, Rollback, Committed

LEMMA StepOpensGate ==
  ASSUME OpType = "full_operation", ReviewInv, [Next]_vars,
         op # "bdn_approved", op' = "bdn_approved"
  PROVE  \A d \in Deliveries : \E b \in Bdns :
           /\ For[b] = d
           /\ status'[b] = "approved" \/ (status'[b] = "rejected" /\ entries'[b] > 0)
<1>1. PICK q \in Requests : Commit(q)
  BY CommitsMove DEF Committed
<1>2. /\ session[q].at = "commit" /\ session[q].to = "bdn_approved"
      /\ session[q].op # "bdn_approved"
  BY <1>1 DEF Commit
<1>3. /\ session[q].verdict = "approved"
      /\ \A d \in Deliveries :
           \E b \in Bdns : For[b] = d /\ (Documents(b) \/ b = session[q].bdn)
  BY <1>2 DEF ReviewInv, CountStands
<1>4. \A b \in Bdns : Documents(b) => Documents(b)'
  BY <1>1, CommitDocuments
<1>5. status'[session[q].bdn] = "approved"
  BY <1>1, <1>3, CommitDocuments
<1> QED
  BY <1>3, <1>4, <1>5 DEF Documents

\* On a full operation a review never opens the gate over a delivery nobody approved,
\* however many reviews of one BDN overlap: what it counted and is not approved any
\* more was rejected by a review that had found it pending, and its entry still
\* stands in the ledger.
THEOREM GateRestsOnApprovals ==
  ASSUME OpType = "full_operation"
  PROVE  Spec => GateCountsOnlyApprovals
<1>1. Init => ReviewInv
  BY InitTyped, IdleTyped DEF Init, ReviewInv, ApprovedIsPosted, CountStands
<1>2. ReviewInv /\ [Next]_vars => ReviewInv'
  BY StepTyped, StepStands DEF ReviewInv
<1>3. ReviewInv /\ [Next]_vars =>
        (op # "bdn_approved" /\ op' = "bdn_approved" =>
           \A d \in Deliveries : \E b \in Bdns :
             /\ For[b] = d
             /\ status'[b] = "approved" \/ (status'[b] = "rejected" /\ entries'[b] > 0))
  BY StepOpensGate
<1> QED
  BY <1>1, <1>2, <1>3, PTL DEF Spec, GateCountsOnlyApprovals

-----------------------------------------------------------------------------
(* A barge's figure and its entries.                                        *)

\* What each BDN's entries come to, when it has e[b] of them.
Postings(e) == [b \in Bdns |-> e[b] * Effect(b)]

LEMMA PostingsAddUp ==
  ASSUME NEW e, NEW S \in SUBSET Bdns
  PROVE  MapThenSumSet(LAMBDA b : e[b] * Effect(b), S) = Total(Postings(e), S)
<1> DEFINE f == Postings(e)
           Adds(g) == g = [T \in SUBSET S |->
                            IF T = {} THEN 0
                            ELSE e[Pick(T)] * Effect(Pick(T)) + g[T \ {Pick(T)}]]
           g == CHOOSE g : Adds(g)
<1>1. MapThenSumSet(LAMBDA b : e[b] * Effect(b), S) = g[S]
  BY DEF MapThenSumSet, MapThenFoldSet, Pick
<1>2. ASSUME NEW h PROVE Adds(h) <=> Tabulates(h, f, S)
  <2>1. \A T \in SUBSET S : T # {} => f[Pick(T)] = e[Pick(T)] * Effect(Pick(T))
    BY PickIsIn DEF Postings
  <2> HIDE DEF f
  <2> QED
    BY <2>1 DEF Tabulates
<1>3. IsFiniteSet(S)
  BY FiniteBdns, FS_Subset DEF FiniteBdns
<1>4. Adds(g)
  <2> HIDE DEF Adds
  <2>1. \E h : Adds(h)
    BY <1>2, <1>3, TableExists
  <2> QED
    BY <2>1
<1> HIDE DEF g, Adds
<1> QED
  BY <1>1, <1>2, <1>3, <1>4, TotalOfTable

LEMMA LedgerIsTotal ==
  ASSUME NEW v \in Barges, on' = on
  PROVE  /\ Ledger(v) = InitialRob + Total(Postings(entries), About(v))
         /\ Ledger(v)' = InitialRob + Total(Postings(entries'), About(v))
<1>1. About(v) \in SUBSET Bdns /\ About(v)' = About(v)
  BY DEF About
<1>2. Ledger(v) = InitialRob + Total(Postings(entries), About(v))
  BY <1>1, PostingsAddUp DEF Ledger
<1>3. Ledger(v)' = InitialRob + MapThenSumSet(LAMBDA b : entries'[b] * Effect(b), About(v)')
  BY DEF Ledger, MapThenSumSet, MapThenFoldSet
<1>4. Ledger(v)' = InitialRob + Total(Postings(entries'), About(v))
  BY <1>1, <1>3, PostingsAddUp
<1> QED
  BY <1>2, <1>4

LEMMA PostingsTyped ==
  ASSUME NEW e \in [Bdns -> Nat]
  PROVE  \A b \in Bdns : Postings(e)[b] \in Int /\ Postings(e)[b] = e[b] * Effect(b)
<1>1. \A b \in Bdns : Effect(b) \in Int
  BY DEF Effect
<1> QED
  BY <1>1 DEF Postings

\* One entry more adds what it comes to, to any total it is part of.
LEMMA OneMore ==
  ASSUME NEW e \in [Bdns -> Nat], NEW h \in [Bdns -> Nat], NEW x \in Bdns,
         NEW S \in SUBSET Bdns,
         h[x] = e[x] + 1, \A y \in Bdns \ {x} : h[y] = e[y]
  PROVE  Total(Postings(h), S) = Total(Postings(e), S) + IF x \in S THEN Effect(x) ELSE 0
<1> DEFINE f == Postings(e)
           g == Postings(h)
<1>1. \A y \in S : f[y] \in Int /\ g[y] \in Int
  BY PostingsTyped
<1>2. \A y \in S \ {x} : f[y] = g[y]
  BY PostingsTyped
<1>3. f[x] = e[x] * Effect(x) /\ g[x] = (e[x] + 1) * Effect(x)
  BY PostingsTyped
<1>4. IsFiniteSet(S)
  BY FiniteBdns, FS_Subset DEF FiniteBdns
<1>5. (e[x] + 1) * Effect(x) = e[x] * Effect(x) + Effect(x)
      /\ e[x] * Effect(x) \in Int /\ Effect(x) \in Int
  <2>1. \A n \in Nat, k \in Int : (n + 1) * k = n * k + k /\ n * k \in Int
    OBVIOUS
  <2>2. e[x] \in Nat /\ Effect(x) \in Int
    BY DEF Effect
  <2> QED
    BY <2>1, <2>2
<1> HIDE DEF f, g
<1>6. Total(f, S) \in Int
  BY <1>1, <1>4, TotalType
<1>7. CASE x \in S
  <2>1. Total(f, S) = f[x] + Total(f, S \ {x}) /\ Total(g, S) = g[x] + Total(g, S \ {x})
    BY <1>1, <1>4, <1>7, TotalRemove
  <2>2. IsFiniteSet(S \ {x}) /\ \A y \in S \ {x} : f[y] \in Int
    BY <1>1, <1>4, FS_Subset, S \ {x} \in SUBSET S
  <2>3. Total(f, S \ {x}) = Total(g, S \ {x}) /\ Total(f, S \ {x}) \in Int
    BY <1>2, <2>2, TotalSame, TotalType
  <2>4. Total(g, S) = Total(f, S) + Effect(x)
    BY <1>3, <1>5, <2>1, <2>3
  <2> QED
    BY <1>7, <2>4 DEF f, g
<1>8. CASE x \notin S
  <2>1. Total(g, S) = Total(f, S)
    BY <1>2, <1>4, <1>8, TotalSame
  <2> QED
    BY <1>6, <1>8, <2>1 DEF f, g
<1> QED
  BY <1>7, <1>8

\* A commit that posts adds what the BDN comes to, to the figure it has read and
\* to the entries, on the BDN's barge and on no other.
LEMMA CommitPosts ==
  ASSUME RacesTyped, NEW q \in Requests, Commit(q), Posts(q), NEW v \in Barges
  PROVE  /\ session[q].rob \in Int /\ Effect(session[q].bdn) \in Int
         /\ IF on[session[q].bdn] = v
              THEN /\ rob'[v] = session[q].rob + Effect(session[q].bdn)
                   /\ Total(Postings(entries'), About(v))
                        = Total(Postings(entries), About(v)) + Effect(session[q].bdn)
              ELSE /\ rob'[v] = rob[v]
                   /\ Total(Postings(entries'), About(v)) = Total(Postings(entries), About(v)) + 0
<1>1. session[q] \in Session /\ Progress(session[q]) /\ session[q].at = "commit"
  BY RowTyped DEF Commit
<1>2. PICK x \in Bdns : x = session[q].bdn
  BY <1>1 DEF Progress
<1>3. /\ entries \in [Bdns -> Nat] /\ entries' \in [Bdns -> Nat]
      /\ entries'[x] = entries[x] + 1 /\ \A y \in Bdns \ {x} : entries'[y] = entries[y]
  BY <1>2 DEF Commit, RacesTyped, TypeOK
<1>4. About(v) \in SUBSET Bdns /\ (x \in About(v) <=> on[x] = v)
  BY DEF About
<1>5. Total(Postings(entries'), About(v))
        = Total(Postings(entries), About(v)) + IF on[x] = v THEN Effect(x) ELSE 0
  BY <1>3, <1>4, OneMore
<1>6. session[q].rob \in Int /\ Effect(x) \in Int
  BY <1>1 DEF Session, Effect
<1>7. rob'[v] = IF on[x] = v THEN session[q].rob + Effect(x) ELSE rob[v]
  BY <1>2 DEF Commit, RacesTyped, TypeOK
<1> QED
  BY <1>2, <1>5, <1>6, <1>7

LEMMA StepDrifts ==
  ASSUME RacesTyped, [Next]_vars, NEW v \in Barges, Drift(v)' # Drift(v)
  PROVE  \E q \in Requests :
           /\ session[q].at = "commit" /\ session'[q].at = "idle" /\ Posts(q)
           /\ on[session[q].bdn] = v /\ session[q].rob # rob[v]
<1>1. on' = on
  BY CommitsMove DEF Committed, Commit
<1>2. /\ Ledger(v) = InitialRob + Total(Postings(entries), About(v))
      /\ Ledger(v)' = InitialRob + Total(Postings(entries'), About(v))
  BY <1>1, LedgerIsTotal
<1>3. rob'[v] # rob[v] \/ entries' # entries
  BY <1>2 DEF Drift
<1>4. PICK q \in Requests : Commit(q)
  BY <1>3, CommitsMove DEF Committed
<1>5. Posts(q)
  BY <1>3, <1>4 DEF Commit
<1>6. session[q].at = "commit" /\ session'[q].at = "idle"
  BY <1>4, IdleTyped DEF Commit, RacesTyped, TypeOK
<1> DEFINE was == Total(Postings(entries), About(v))
           is == Total(Postings(entries'), About(v))
<1>7. rob[v] \in Int /\ was \in Int
  <2>1. About(v) \in SUBSET Bdns /\ IsFiniteSet(About(v)) /\ entries \in [Bdns -> Nat]
    BY FiniteBdns, FS_Subset, About(v) \in SUBSET Bdns DEF FiniteBdns, RacesTyped, TypeOK, About
  <2>2. \A b \in About(v) : Postings(entries)[b] \in Int
    BY <2>1, PostingsTyped
  <2> QED
    BY <2>1, <2>2, TotalType DEF RacesTyped, TypeOK
<1>8. Drift(v) = rob[v] - (InitialRob + was) /\ Drift(v)' = rob'[v] - (InitialRob + is)
  BY <1>2 DEF Drift
<1>9. /\ session[q].rob \in Int /\ Effect(session[q].bdn) \in Int
      /\ IF on[session[q].bdn] = v
           THEN rob'[v] = session[q].rob + Effect(session[q].bdn)
                /\ is = was + Effect(session[q].bdn)
           ELSE rob'[v] = rob[v] /\ is = was + 0
  BY <1>4, <1>5, CommitPosts
<1> HIDE DEF was, is
<1>10. on[session[q].bdn] = v
  BY <1>7, <1>8, <1>9
<1>11. session[q].rob # rob[v]
  BY <1>7, <1>8, <1>9, <1>10
<1> QED
  BY <1>5, <1>6, <1>10, <1>11

\* A barge's figure and the entries of its ledger part only at a commit over a figure
\* of that barge that moved after it was read, for any number of overlapping reviews
\* on any barges.
THEOREM DriftNeedsLostUpdate == Spec => DriftsOnlyUnseen
<1>1. RacesTyped /\ [Next]_vars =>
        \A v \in Barges : Drift(v)' # Drift(v) =>
          \E q \in Requests :
            /\ session[q].at = "commit" /\ session'[q].at = "idle" /\ Posts(q)
            /\ on[session[q].bdn] = v /\ session[q].rob # rob[v]
  BY StepDrifts
<1> QED
  BY <1>1, InitTyped, StepTyped, PTL DEF Spec, DriftsOnlyUnseen
=============================================================================
