-------------------------- MODULE BargeLedgerProofs --------------------------
(***************************************************************************)
(* Proofs about BargeLedger, for any vessels, collections and overlapping    *)
(* requests and any tonnages.                                                *)
(***************************************************************************)
EXTENDS BargeLedger, SumTheorems

-----------------------------------------------------------------------------
(* The invariant: what an open request remembers fits what it is about.     *)

\* A request on a collection was let in by the status it read, and the
\* collection is on a vessel.
Remembers(q) ==
  request[q].kind \in Kinds =>
    /\ request[q].on \in Collections
    /\ vessel[request[q].on] \in Vessels
    /\ request[q].was \in Accepts(request[q].kind)

\* A discharge event is about no collection, and knows its vessel.
Discharges(q) ==
  request[q].kind = "discharge" =>
    request[q].on = NoCollection /\ request[q].from \in Vessels

OnBoard == \A c \in Collections : status[c] # "none" => vessel[c] \in Vessels

BargeInv == TypeOK /\ OnBoard /\ \A q \in Requests : Remembers(q) /\ Discharges(q)

-----------------------------------------------------------------------------
(* Type correctness.                                                        *)

LEMMA IdleTyped == Idle \in Request
  BY BargeAssumption DEF Idle, Request, Statuses

LEMMA ReadTyped ==
  ASSUME TypeOK, NEW vs
  PROVE  Read(vs) \in [Vessels -> Int]
  BY DEF TypeOK, Read

LEMMA TonnesTyped == Tonnes \subseteq 0..MaxMt
  BY BargeAssumption DEF Tonnes

LEMMA InitTyped == Init => TypeOK
<1> SUFFICES ASSUME Init
             PROVE  TypeOK
  OBVIOUS
<1>1. request \in [Requests -> Request]
  BY IdleTyped DEF Init
<1> QED
  BY <1>1, BargeAssumption DEF Init, TypeOK, Statuses

\* The request that a step ends is idle again, and the others are as they were.
LEMMA EndsTyped ==
  ASSUME TypeOK, NEW q \in Requests, request' = [request EXCEPT ![q] = Idle]
  PROVE  request' \in [Requests -> Request]
  BY IdleTyped DEF TypeOK

LEMMA BeginTyped ==
  ASSUME TypeOK, NEW q \in Requests, NEW kind \in Kinds, NEW c \in Collections,
         NEW x \in Tonnes, Begin(q, kind, c, x)
  PROVE  TypeOK'
<1> DEFINE new == request'[q]
<1>1. request' = [request EXCEPT ![q] = new] /\ new.kind = kind /\ new \in Request
  <2>1. Read({vessel[c]}) \in [Vessels -> Int]
    BY ReadTyped
  <2>2. status[c] \in Statuses /\ mt[c] \in 0..MaxMt /\ x \in 0..MaxMt
    BY TonnesTyped DEF TypeOK
  <2> QED
    BY <2>1, <2>2 DEF Begin, TypeOK, Request
<1> QED
  BY <1>1 DEF Begin, TypeOK

LEMMA BeginDischargeTyped ==
  ASSUME TypeOK, NEW q \in Requests, NEW v \in Vessels, NEW into \in Vessels \cup {NoVessel},
         NEW x \in Tonnes, BeginDischarge(q, v, into, x)
  PROVE  TypeOK'
<1>1. request' \in [Requests -> Request]
  <2>1. Read({v, into}) \in [Vessels -> Int]
    BY ReadTyped
  <2>2. x \in 0..MaxMt /\ 0 \in 0..MaxMt
    BY TonnesTyped, BargeAssumption
  <2> QED
    BY <2>1, <2>2 DEF BeginDischarge, TypeOK, Request, Statuses
<1> QED
  BY <1>1 DEF BeginDischarge, TypeOK

LEMMA FigureTyped ==
  ASSUME TypeOK, NEW q \in Requests
  PROVE  Figure(q) \in [Collections -> 0..MaxMt]
<1>1. request[q].goes \in 0..MaxMt
  BY DEF TypeOK, Request
<1> QED
  BY <1>1 DEF TypeOK, Figure

LEMMA CommitTyped ==
  ASSUME TypeOK, NEW q \in Requests, Remembers(q),
         CommitFigures(q) \/ CommitApproval(q) \/ CommitCorrection(q) \/ CommitCancellation(q)
  PROVE  TypeOK'
<1>1. request' \in [Requests -> Request]
  BY EndsTyped DEF CommitFigures, CommitApproval, CommitCorrection, CommitCancellation
<1>2. /\ request[q].goes \in Int /\ request[q].before \in Int
      /\ request[q].seen \in [Vessels -> Int]
  BY DEF TypeOK, Request
<1>3. request[q].on \in Collections /\ vessel[request[q].on] \in Vessels
  BY DEF Remembers, Kinds, CommitFigures, CommitApproval, CommitCorrection, CommitCancellation
<1>4. posted[request[q].on] \in Int /\ \A base \in Base(q, vessel[request[q].on]) : base \in Int
  BY <1>2, <1>3 DEF TypeOK, Base
<1>5. Figure(q) \in [Collections -> 0..MaxMt]
  BY FigureTyped
<1>6. CASE CommitFigures(q)
  BY <1>6, <1>1, <1>5 DEF CommitFigures, TypeOK, Statuses
<1>7. CASE CommitApproval(q)
  BY <1>7, <1>1, <1>2, <1>3, <1>4 DEF CommitApproval, TypeOK, Statuses
<1>8. CASE CommitCorrection(q)
  <2>1. PICK base \in Base(q, vessel[request[q].on]) :
          rob' = [rob EXCEPT ![vessel[request[q].on]] = base - posted[request[q].on] + request[q].goes]
    BY <1>8 DEF CommitCorrection
  <2>2. base - posted[request[q].on] + request[q].goes \in Int
    BY <1>2, <1>4
  <2>3. rob' \in [Vessels -> Int]
    BY <2>1, <2>2, <1>3 DEF TypeOK
  <2>4. posted' \in [Collections -> Int]
    BY <1>8, <1>2, <1>3 DEF CommitCorrection, TypeOK
  <2> QED
    BY <1>8, <1>1, <1>5, <2>3, <2>4 DEF CommitCorrection, TypeOK
<1>9. CASE CommitCancellation(q)
  BY <1>9, <1>1, <1>2, <1>3, <1>4 DEF CommitCancellation, TypeOK, Statuses
<1> QED
  BY <1>6, <1>7, <1>8, <1>9

LEMMA DischargeTyped ==
  ASSUME TypeOK, NEW q \in Requests, CommitDischarge(q)
  PROVE  TypeOK'
<1>1. request' \in [Requests -> Request]
  BY EndsTyped DEF CommitDischarge
<1>2. request[q].goes \in Int /\ request[q].seen \in [Vessels -> Int]
  BY DEF TypeOK, Request
<1> QED
  BY <1>1, <1>2 DEF CommitDischarge, TypeOK

LEMMA StepTyped == BargeInv /\ [Next]_vars => TypeOK'
<1> SUFFICES ASSUME BargeInv, [Next]_vars
             PROVE  TypeOK'
  OBVIOUS
<1>0. TypeOK
  BY DEF BargeInv
<1>1. CASE UNCHANGED vars
  BY <1>0, <1>1 DEF TypeOK, vars
<1>2. ASSUME NEW v \in Vessels, NEW x \in -MaxMt..MaxMt \ {0}, RecordRobEntry(v, x)
      PROVE  TypeOK'
  <2>1. x \in Int
    BY BargeAssumption
  <2> QED
    BY <1>0, <1>2, <2>1 DEF RecordRobEntry, TypeOK
<1>3. ASSUME NEW c \in Collections, NEW v \in Vessels, CreateCollection(c, v)
      PROVE  TypeOK'
  BY <1>0, <1>3 DEF CreateCollection, TypeOK, Statuses
<1>4. CASE \E q \in Requests : CommitFigures(q) \/ CommitApproval(q) \/ CommitCorrection(q)
                               \/ CommitCancellation(q)
  BY <1>0, <1>4, CommitTyped DEF BargeInv
<1>5. ASSUME NEW q \in Requests, Abandon(q)
      PROVE  TypeOK'
  BY <1>0, <1>5, EndsTyped DEF Abandon, TypeOK
<1> QED
  BY <1>0, <1>1, <1>2, <1>3, <1>4, <1>5, BeginTyped, BeginDischargeTyped, DischargeTyped DEF Next

-----------------------------------------------------------------------------
(* What requests remember.                                                  *)

\* A request takes nothing up but what Begin lets in.
LEMMA Remember ==
  ASSUME BargeInv, [Next]_vars, NEW q \in Requests
  PROVE  Remembers(q)' /\ Discharges(q)'
<1>0. TypeOK /\ OnBoard /\ Remembers(q) /\ Discharges(q)
  BY DEF BargeInv
<1>1. \A c \in Collections : vessel[c] \in Vessels => vessel'[c] \in Vessels
  BY <1>0 DEF Next, vars, RecordRobEntry, CreateCollection, Begin, CommitFigures, CommitApproval,
              CommitCorrection, CommitCancellation, BeginDischarge, CommitDischarge, Abandon, TypeOK
<1>2. CASE request'[q] = request[q]
  BY <1>0, <1>1, <1>2 DEF Remembers, Discharges
<1>3. CASE request'[q] = Idle
  BY <1>3 DEF Remembers, Discharges, Idle, Kinds
<1>4. ASSUME NEW kind \in Kinds, NEW c \in Collections, NEW x \in Tonnes, Begin(q, kind, c, x)
      PROVE  Remembers(q)' /\ Discharges(q)'
  <2>1. request'[q].kind = kind /\ request'[q].on = c /\ request'[q].was = status[c]
    BY <1>0, <1>4 DEF Begin, TypeOK
  <2>2. status[c] \in Accepts(kind) /\ vessel'[c] \in Vessels
    BY <1>0, <1>1, <1>4 DEF Begin, OnBoard, Accepts, Kinds
  <2>3. kind # "discharge"
    BY DEF Kinds
  <2> QED
    BY <2>1, <2>2, <2>3 DEF Remembers, Discharges, Accepts
<1>5. ASSUME NEW v \in Vessels, NEW into \in Vessels \cup {NoVessel}, NEW x \in Tonnes,
             BeginDischarge(q, v, into, x)
      PROVE  Remembers(q)' /\ Discharges(q)'
  <2>1. request'[q].kind = "discharge" /\ request'[q].on = NoCollection /\ request'[q].from = v
    BY <1>0, <1>5 DEF BeginDischarge, TypeOK
  <2> QED
    BY <2>1 DEF Remembers, Discharges, Kinds
<1>6. \/ request'[q] = request[q] \/ request'[q] = Idle
      \/ \E kind \in Kinds, c \in Collections, x \in Tonnes : Begin(q, kind, c, x)
      \/ \E v \in Vessels, into \in Vessels \cup {NoVessel}, x \in Tonnes :
           BeginDischarge(q, v, into, x)
  <2>1. CASE \E p \in Requests, kind \in Kinds, c \in Collections, x \in Tonnes : Begin(p, kind, c, x)
    BY <1>0, <2>1 DEF Begin, TypeOK
  <2>2. CASE \E p \in Requests, v \in Vessels, into \in Vessels \cup {NoVessel}, x \in Tonnes :
               BeginDischarge(p, v, into, x)
    BY <1>0, <2>2 DEF BeginDischarge, TypeOK
  <2>3. CASE \E p \in Requests : \/ CommitFigures(p) \/ CommitApproval(p) \/ CommitCorrection(p)
                                 \/ CommitCancellation(p) \/ CommitDischarge(p) \/ Abandon(p)
    BY <1>0, <2>3 DEF CommitFigures, CommitApproval, CommitCorrection, CommitCancellation,
                      CommitDischarge, Abandon, TypeOK
  <2> QED
    BY <2>1, <2>2, <2>3 DEF Next, vars, RecordRobEntry, CreateCollection
<1> QED
  BY <1>2, <1>3, <1>4, <1>5, <1>6

LEMMA StaysOnBoard ==
  ASSUME BargeInv, [Next]_vars
  PROVE  OnBoard'
<1>0. TypeOK /\ OnBoard /\ \A q \in Requests : Remembers(q)
  BY DEF BargeInv
<1>1. ASSUME NEW c \in Collections, NEW v \in Vessels, CreateCollection(c, v)
      PROVE  OnBoard'
  BY <1>0, <1>1 DEF CreateCollection, OnBoard, TypeOK
<1>2. ASSUME NEW q \in Requests,
             CommitFigures(q) \/ CommitApproval(q) \/ CommitCorrection(q) \/ CommitCancellation(q)
      PROVE  OnBoard'
  <2>1. vessel[request[q].on] \in Vessels /\ vessel' = vessel
    BY <1>0, <1>2 DEF CommitFigures, CommitApproval, CommitCorrection, CommitCancellation,
                      Remembers, Kinds
  <2>2. \A c \in Collections : status'[c] = status[c] \/ c = request[q].on
    BY <1>0, <1>2 DEF CommitFigures, CommitApproval, CommitCorrection, CommitCancellation, TypeOK
  <2> QED
    BY <1>0, <2>1, <2>2 DEF OnBoard
<1>3. CASE UNCHANGED <<status, vessel>>
  BY <1>0, <1>3 DEF OnBoard
<1> QED
  BY <1>1, <1>2, <1>3 DEF Next, vars, RecordRobEntry, Begin, BeginDischarge, CommitDischarge, Abandon

THEOREM BargeSafe == Spec => []BargeInv
<1>1. Init => BargeInv
  <2> SUFFICES ASSUME Init
               PROVE  BargeInv
    OBVIOUS
  <2>1. OnBoard /\ \A q \in Requests : Remembers(q) /\ Discharges(q)
    BY DEF Init, OnBoard, Remembers, Discharges, Idle, Kinds
  <2> QED
    BY <2>1, InitTyped DEF BargeInv
<1>2. BargeInv /\ [Next]_vars => BargeInv'
  BY StepTyped, Remember, StaysOnBoard DEF BargeInv
<1> QED
  BY <1>1, <1>2, PTL DEF Spec

\* Every table keeps its types, whatever requests overlap.
THEOREM BargeTypeCorrect == Spec => []TypeOK
<1>1. BargeInv => TypeOK
  BY DEF BargeInv
<1> QED
  BY <1>1, BargeSafe, PTL

-----------------------------------------------------------------------------
(* The steps.                                                               *)

\* A request that takes effect was open, and is closed by it.
LEMMA Commitment ==
  ASSUME BargeInv, NEW q \in Requests,
         \/ CommitFigures(q) \/ CommitApproval(q) \/ CommitCorrection(q)
         \/ CommitCancellation(q) \/ CommitDischarge(q)
  PROVE  Commits(q)
<1>1. request'[q] = Idle
  BY DEF BargeInv, TypeOK, CommitFigures, CommitApproval, CommitCorrection, CommitCancellation,
         CommitDischarge
<1>2. request[q].kind # "idle"
  BY DEF CommitFigures, CommitApproval, CommitCorrection, CommitCancellation, CommitDischarge
<1> QED
  BY <1>1, <1>2 DEF Commits, Idle

\* What a request on a collection does to the collection's row and entries.
LEMMA CommitTouches ==
  ASSUME BargeInv, NEW q \in Requests,
         CommitFigures(q) \/ CommitApproval(q) \/ CommitCorrection(q) \/ CommitCancellation(q)
  PROVE  /\ request[q].on \in Collections
         /\ request[q].was \in Accepts(request[q].kind)
         /\ vessel[request[q].on] \in Vessels
         /\ \A c \in Collections \ {request[q].on} :
              status'[c] = status[c] /\ mt'[c] = mt[c] /\ posted'[c] = posted[c]
<1>1. request[q].kind \in Kinds
  BY DEF CommitFigures, CommitApproval, CommitCorrection, CommitCancellation, Kinds
<1>2. /\ request[q].on \in Collections /\ request[q].was \in Accepts(request[q].kind)
      /\ vessel[request[q].on] \in Vessels
  BY <1>1 DEF BargeInv, Remembers
<1>3. ASSUME NEW c \in Collections, c # request[q].on
      PROVE  status'[c] = status[c] /\ mt'[c] = mt[c] /\ posted'[c] = posted[c]
  BY <1>2, <1>3 DEF BargeInv, TypeOK, CommitFigures, CommitApproval, CommitCorrection,
                    CommitCancellation, Figure
<1> QED
  BY <1>2, <1>3

LEMMA CancelledStays == BargeInv /\ [Next]_vars => CancelledStep
<1> SUFFICES ASSUME BargeInv, [Next]_vars, NEW c \in Collections, status[c] = "cancelled"
             PROVE  /\ \A q \in Requests : request'[q].on = c => request[q].on = c
                    /\ status'[c] # "cancelled" \/ posted'[c] # posted[c] =>
                         \E q \in Requests : Commits(q) /\ request[q].on = c
  BY DEF CancelledStep
<1> USE DEF BargeInv, TypeOK
<1>1. CASE UNCHANGED <<request, status, posted>>
  BY <1>1
<1>2. ASSUME NEW d \in Collections, NEW v \in Vessels, CreateCollection(d, v)
      PROVE  d # c /\ UNCHANGED <<request, posted>> /\ status'[c] = status[c]
  BY <1>2 DEF CreateCollection
<1>3. ASSUME NEW q \in Requests, NEW kind \in Kinds, NEW d \in Collections, NEW x \in Tonnes,
             Begin(q, kind, d, x)
      PROVE  /\ \A p \in Requests : request'[p].on = c => request[p].on = c
             /\ status' = status /\ posted' = posted
  <2>1. d # c
    BY <1>3 DEF Begin, Accepts
  <2> QED
    BY <1>3, <2>1 DEF Begin
<1>4. NoCollection # c
  BY BargeAssumption
<1>5. ASSUME NEW q \in Requests,
             \/ CommitFigures(q) \/ CommitApproval(q) \/ CommitCorrection(q)
             \/ CommitCancellation(q)
      PROVE  /\ \A p \in Requests : request'[p].on = c => request[p].on = c
             /\ Commits(q)
             /\ status'[c] # "cancelled" \/ posted'[c] # posted[c] => request[q].on = c
  <2>1. request' = [request EXCEPT ![q] = Idle] /\ Idle.on # c
    BY <1>4, <1>5 DEF CommitFigures, CommitApproval, CommitCorrection, CommitCancellation, Idle
  <2> QED
    BY <1>5, <2>1, Commitment, CommitTouches
<1>6. ASSUME NEW q \in Requests, CommitDischarge(q) \/ Abandon(q)
      PROVE  /\ \A p \in Requests : request'[p].on = c => request[p].on = c
             /\ status' = status /\ posted' = posted
  BY <1>4, <1>6 DEF CommitDischarge, Abandon, Idle
<1>7. ASSUME NEW q \in Requests, NEW v \in Vessels, NEW into \in Vessels \cup {NoVessel},
             NEW x \in Tonnes, BeginDischarge(q, v, into, x)
      PROVE  /\ \A p \in Requests : request'[p].on = c => request[p].on = c
             /\ status' = status /\ posted' = posted
  BY <1>4, <1>7 DEF BeginDischarge
<1> QED
  BY <1>1, <1>2, <1>3, <1>5, <1>6, <1>7 DEF Next, vars, RecordRobEntry

\* A cancelled collection is taken up by no request, and comes back only by one
\* that had read it before.
THEOREM StaysCancelled == Spec => CancelledForGood
  BY CancelledStays, BargeSafe, PTL DEF Spec, CancelledForGood

\* The entries of a collection follow a request that still finds what it read.
LEMMA CommitFollows ==
  ASSUME BargeInv, NEW q \in Requests, NEW c \in Collections, request[q].on = c,
         request[q].was = status[c], request[q].before = mt[c], posted[c] = Due(c),
         CommitFigures(q) \/ CommitApproval(q) \/ CommitCorrection(q) \/ CommitCancellation(q)
  PROVE  posted'[c] = Due(c)'
<1> DEFINE r == request[q]
<1> USE DEF BargeInv, TypeOK
<1>0. /\ status[c] \in Accepts(r.kind) /\ r.before \in Int /\ r.goes \in Int
  BY CommitTouches DEF Request
<1>1. CASE CommitFigures(q)
  <2>1. status[c] # "approved" /\ status'[c] # "approved" /\ posted' = posted
    BY <1>0, <1>1 DEF CommitFigures, Accepts
  <2> QED
    BY <2>1 DEF Due
<1>2. CASE CommitApproval(q)
  <2>1. posted[c] = 0
    BY <1>0, <1>2 DEF CommitApproval, Accepts, Due
  <2>2. posted'[c] = mt[c] /\ status'[c] = "approved" /\ mt' = mt
    BY <1>0, <1>2, <2>1 DEF CommitApproval
  <2> QED
    BY <2>2 DEF Due
<1>3. CASE CommitCorrection(q)
  <2>1. posted'[c] = r.goes /\ status'[c] = "approved"
    BY <1>3 DEF CommitCorrection
  <2>2. mt'[c] = r.goes
    BY <1>3 DEF CommitCorrection, Figure
  <2> QED
    BY <2>1, <2>2 DEF Due
<1>4. CASE CommitCancellation(q)
  <2>1. posted'[c] = 0 /\ status'[c] = "cancelled"
    BY <1>4 DEF CommitCancellation
  <2> QED
    BY <2>1 DEF Due
<1> QED
  BY <1>1, <1>2, <1>3, <1>4

LEMMA LedgerFollows == BargeInv /\ [Next]_vars => FollowsStep
<1> SUFFICES ASSUME BargeInv, [Next]_vars, NEW c \in Collections,
                    posted[c] = Due(c), posted'[c] # Due(c)'
             PROVE  \E q \in Requests :
                      /\ Commits(q) /\ request[q].on = c
                      /\ request[q].was # status[c] \/ request[q].before # mt[c]
  BY DEF FollowsStep
<1>1. ~ UNCHANGED <<status, mt, posted>>
  BY DEF Due
<1>2. ASSUME NEW d \in Collections, NEW v \in Vessels, CreateCollection(d, v)
      PROVE  FALSE
  BY <1>2 DEF CreateCollection, Due, BargeInv, TypeOK
<1>3. ASSUME NEW q \in Requests,
             \/ CommitFigures(q) \/ CommitApproval(q) \/ CommitCorrection(q)
             \/ CommitCancellation(q)
      PROVE  /\ Commits(q) /\ request[q].on = c
             /\ request[q].was # status[c] \/ request[q].before # mt[c]
  <2>1. request[q].on = c
    BY <1>3, CommitTouches DEF Due
  <2> QED
    BY <1>3, <2>1, Commitment, CommitFollows
<1> QED
  BY <1>1, <1>2, <1>3 DEF Next, vars, RecordRobEntry, Begin, BeginDischarge, CommitDischarge, Abandon

\* The ledger holds each collection's figure of record while it is approved and
\* nothing otherwise, unless two requests act on it at once.
THEOREM RecordsFollowed == Spec => LedgerFollowsReceipt
  BY LedgerFollows, BargeSafe, PTL DEF Spec, LedgerFollowsReceipt

\* An approval that finds the total it read adds to it.
LEMMA ApprovalAdds ==
  ASSUME BargeInv, NEW q \in Requests, CommitApproval(q), NEW v \in Vessels,
         request[q].seen[v] = rob[v], rob[v] >= 0
  PROVE  rob'[v] >= 0
<1> USE DEF BargeInv, TypeOK
<1>1. request[q].before \in 0..MaxMt
  BY DEF Request
<1>2. CASE v = vessel[request[q].on]
  <2>1. PICK base \in Base(q, v) : rob' = [rob EXCEPT ![v] = base + request[q].before]
    BY <1>2 DEF CommitApproval
  <2>2. base = rob[v]
    BY DEF Base
  <2> QED
    BY <1>1, <2>1, <2>2, BargeAssumption
<1>3. CASE v # vessel[request[q].on]
  BY <1>3 DEF CommitApproval
<1> QED
  BY <1>2, <1>3

LEMMA BelowZero == BargeInv /\ [Next]_vars => BelowZeroStep
<1> SUFFICES ASSUME BargeInv, [Next]_vars, NEW v \in Vessels, rob[v] >= 0, rob'[v] < 0
             PROVE  \E q \in Requests :
                      /\ Commits(q)
                      /\ \/ request[q].kind = "discharge"
                         \/ request[q].kind \in {"correct", "cancel"} /\ request[q].was = "approved"
                         \/ request[q].seen[v] # rob[v]
  BY DEF BelowZeroStep
<1> USE DEF BargeInv, TypeOK
<1>1. rob' # rob
  OBVIOUS
<1>2. ASSUME NEW u \in Vessels, NEW x \in -MaxMt..MaxMt \ {0}, RecordRobEntry(u, x)
      PROVE  FALSE
  <2>1. x \in Int
    BY BargeAssumption
  <2> QED
    BY <1>2, <2>1 DEF RecordRobEntry
<1>3. ASSUME NEW q \in Requests, CommitApproval(q)
      PROVE  Commits(q) /\ request[q].seen[v] # rob[v]
  <2>1. rob'[v] \in Int
    BY StepTyped
  <2> QED
    BY <1>3, <2>1, Commitment, ApprovalAdds
<1>4. ASSUME NEW q \in Requests, CommitCorrection(q) \/ CommitCancellation(q)
      PROVE  /\ Commits(q)
             /\ request[q].kind \in {"correct", "cancel"} /\ request[q].was = "approved"
  BY <1>4, Commitment DEF CommitCorrection, CommitCancellation
<1>5. ASSUME NEW q \in Requests, CommitDischarge(q)
      PROVE  Commits(q) /\ request[q].kind = "discharge"
  BY <1>5, Commitment DEF CommitDischarge
<1> QED
  BY <1>1, <1>2, <1>3, <1>4, <1>5
     DEF Next, vars, CreateCollection, Begin, CommitFigures, BeginDischarge, Abandon

\* The figure is taken below zero only by what has no floor: a discharge event,
\* the reversal of a receipt, or a write over a total that had moved.
THEOREM FloorKept == Spec => BelowZeroOnlyUnguarded
  BY BelowZero, BargeSafe, PTL DEF Spec, BelowZeroOnlyUnguarded

-----------------------------------------------------------------------------
(* The figure and the ledger.                                               *)

\* A collection that is not there has no entries, and nobody is at work on it.
Fresh ==
  \A c \in Collections : status[c] = "none" =>
    posted[c] = 0 /\ \A q \in Requests : request[q].on # c

LEMMA StepFresh == BargeInv /\ Fresh /\ [Next]_vars => Fresh'
<1> SUFFICES ASSUME BargeInv, Fresh, [Next]_vars, NEW c \in Collections, status'[c] = "none"
             PROVE  posted'[c] = 0 /\ \A q \in Requests : request'[q].on # c
  BY DEF Fresh
<1> USE DEF BargeInv, TypeOK
<1>1. NoCollection # c
  BY BargeAssumption
<1>2. CASE UNCHANGED <<request, status, posted>>
  BY <1>2 DEF Fresh
<1>3. ASSUME NEW d \in Collections, NEW v \in Vessels, CreateCollection(d, v)
      PROVE  posted'[c] = 0 /\ \A q \in Requests : request'[q].on # c
  BY <1>3 DEF CreateCollection, Fresh
<1>4. ASSUME NEW q \in Requests, NEW kind \in Kinds, NEW d \in Collections, NEW x \in Tonnes,
             Begin(q, kind, d, x)
      PROVE  posted'[c] = 0 /\ \A p \in Requests : request'[p].on # c
  <2>1. d # c
    BY <1>4 DEF Begin, Accepts
  <2> QED
    BY <1>4, <2>1 DEF Begin, Fresh
<1>5. ASSUME NEW q \in Requests,
             \/ CommitFigures(q) \/ CommitApproval(q) \/ CommitCorrection(q)
             \/ CommitCancellation(q)
      PROVE  posted'[c] = 0 /\ \A p \in Requests : request'[p].on # c
  <2>1. request' = [request EXCEPT ![q] = Idle] /\ Idle.on # c
    BY <1>1, <1>5 DEF CommitFigures, CommitApproval, CommitCorrection, CommitCancellation, Idle
  <2>2. request[q].on # c
    <3>1. CASE status[c] = "none"
      BY <3>1 DEF Fresh
    <3>2. CASE status[c] # "none"
      BY <3>2, <1>5 DEF CommitFigures, CommitApproval, CommitCorrection, CommitCancellation
    <3> QED
      BY <3>1, <3>2
  <2>3. status[c] = "none" /\ posted'[c] = posted[c]
    BY <1>5, <2>2, CommitTouches
  <2> QED
    BY <2>1, <2>3 DEF Fresh
<1>6. ASSUME NEW q \in Requests, CommitDischarge(q) \/ Abandon(q)
      PROVE  posted'[c] = 0 /\ \A p \in Requests : request'[p].on # c
  BY <1>1, <1>6 DEF CommitDischarge, Abandon, Idle, Fresh
<1>7. ASSUME NEW q \in Requests, NEW v \in Vessels, NEW into \in Vessels \cup {NoVessel},
             NEW x \in Tonnes, BeginDischarge(q, v, into, x)
      PROVE  posted'[c] = 0 /\ \A p \in Requests : request'[p].on # c
  BY <1>1, <1>7 DEF BeginDischarge, Fresh
<1> QED
  BY <1>2, <1>3, <1>4, <1>5, <1>6, <1>7 DEF Next, vars, RecordRobEntry

\* The ledger's sum, before and after a step.
LEMMA BookedIsTotal ==
  ASSUME NEW v
  PROVE  /\ Drift(v) = rob[v] - (own[v] + Total(posted, On(v)))
         /\ Drift(v)' = rob'[v] - (own'[v] + Total(posted', On(v)'))
<1>1. Booked(v) = own[v] + Total(posted, On(v))
  BY TotalIsMapThenSumSet DEF Booked
<1>2. Booked(v)' = own'[v] + MapThenSumSet(LAMBDA c : posted'[c], On(v)')
  BY DEF Booked, MapThenSumSet, MapThenFoldSet
<1>3. Booked(v)' = own'[v] + Total(posted', On(v)')
  BY <1>2, TotalIsMapThenSumSet
<1> QED
  BY <1>1, <1>3 DEF Drift

LEMMA OnFinite ==
  ASSUME NEW v, TypeOK
  PROVE  IsFiniteSet(On(v)) /\ \A c \in On(v) : posted[c] \in Int
<1>1. On(v) \in SUBSET Collections
  BY DEF On
<1> QED
  BY <1>1, BargeAssumption, FS_Subset DEF BargeAssumption, TypeOK

\* Entries that change for one collection move the sum of its own vessel, and
\* by as much.
LEMMA BookedMoves ==
  ASSUME TypeOK, TypeOK', NEW v \in Vessels, NEW c \in Collections, vessel' = vessel,
         \A d \in Collections \ {c} : posted'[d] = posted[d]
  PROVE  /\ Total(posted, On(v)) \in Int
         /\ Total(posted', On(v)')
              = IF v = vessel[c] THEN Total(posted, On(v)) + posted'[c] - posted[c]
                ELSE Total(posted, On(v))
<1>1. On(v)' = On(v) /\ On(v) \in SUBSET Collections /\ (c \in On(v) <=> v = vessel[c])
  BY DEF On
<1>2. IsFiniteSet(On(v)) /\ \A d \in On(v) : posted[d] \in Int /\ posted'[d] \in Int
  BY OnFinite, <1>1 DEF TypeOK
<1>3. PICK S : S = On(v)
  OBVIOUS
<1>4. PICK f, g : f = posted /\ g = posted'
  OBVIOUS
<1>5. IsFiniteSet(S) /\ (\A d \in S : f[d] \in Int /\ g[d] \in Int)
      /\ \A d \in S \ {c} : f[d] = g[d]
  BY <1>1, <1>2, <1>3, <1>4
<1>6. CASE c \in S
  <2>1. Total(g, S) = Total(f, S) + g[c] - f[c]
    BY <1>5, <1>6, TotalChange
  <2> QED
    BY <1>1, <1>3, <1>4, <1>5, <1>6, <2>1, TotalType
<1>7. CASE c \notin S
  <2>1. Total(g, S) = Total(f, S)
    BY <1>5, <1>7, TotalSame
  <2> QED
    BY <1>1, <1>3, <1>4, <1>5, <1>7, <2>1, TotalType
<1> QED
  BY <1>6, <1>7

\* A collection that is created brings nothing along.
LEMMA CreationKeeps ==
  ASSUME BargeInv, Fresh, NEW c \in Collections, NEW u \in Vessels, CreateCollection(c, u),
         NEW v \in Vessels
  PROVE  Drift(v)' = Drift(v)
<1>1. posted[c] = 0 /\ posted' = posted /\ rob' = rob /\ own' = own
  BY DEF CreateCollection, Fresh
<1>2. On(v)' \ {c} = On(v) \ {c} /\ On(v)' \in SUBSET Collections /\ On(v) \in SUBSET Collections
  BY DEF On, CreateCollection, BargeInv, TypeOK
<1>3. IsFiniteSet(On(v)) /\ IsFiniteSet(On(v)')
  BY <1>2, BargeAssumption, FS_Subset DEF BargeAssumption
<1>4. \A d \in Collections : posted[d] \in Int
  BY DEF BargeInv, TypeOK
<1>5. Total(posted, On(v)) = Total(posted, On(v) \ {c})
  <2>1. \A d \in On(v) : posted[d] \in Int
    BY <1>2, <1>4
  <2> QED
    BY <1>1, <1>3, <2>1, TotalIgnores
<1>6. Total(posted, On(v)') = Total(posted, On(v)' \ {c})
  <2>1. \A d \in On(v)' : posted[d] \in Int
    BY <1>2, <1>4
  <2> QED
    BY <1>1, <1>3, <2>1, TotalIgnores
<1>7. Total(posted, On(v)') = Total(posted, On(v))
  BY <1>2, <1>5, <1>6
<1> QED
  BY <1>1, <1>7, BookedIsTotal

\* A step that enters in the ledger what it adds to the figure.
LEMMA BothMove ==
  ASSUME TypeOK, TypeOK', NEW v \in Vessels, vessel' = vessel, posted' = posted,
         NEW k \in Int, rob'[v] = rob[v] + k, own'[v] = own[v] + k
  PROVE  Drift(v)' = Drift(v)
<1>1. On(v)' = On(v) /\ Total(posted, On(v)) \in Int
  BY OnFinite, TotalType DEF On
<1>2. rob[v] \in Int /\ own[v] \in Int
  BY DEF TypeOK
<1>3. Total(posted', On(v)') = Total(posted, On(v))
  BY <1>1
<1> QED
  BY <1>1, <1>2, <1>3, BookedIsTotal

\* A figure and its ledger that move by the same amount part by what the figure
\* started from.
LEMMA Difference ==
  ASSUME NEW r \in Int, NEW base \in Int, NEW o \in Int, NEW t \in Int,
         NEW p \in Int, NEW n \in Int
  PROVE  /\ (base + (n - p)) - (o + (t + n - p)) - (r - (o + t)) = base - r
         /\ (base + (n - p)) - (o + (t + n - p)) = (r - (o + t)) + (base - r)
  OBVIOUS

\* A request on a collection loses nothing, or what it has not seen.
LEMMA CommitMisses ==
  ASSUME BargeInv, BargeInv', NEW q \in Requests, NEW v \in Vessels,
         CommitFigures(q) \/ CommitApproval(q) \/ CommitCorrection(q) \/ CommitCancellation(q)
  PROVE  Drift(v)' = Drift(v) \/ Drift(v)' - Drift(v) = request[q].seen[v] - rob[v]
<1> DEFINE c == request[q].on
<1>1. /\ c \in Collections /\ vessel[c] \in Vessels /\ vessel' = vessel /\ own' = own
      /\ \A d \in Collections \ {c} : posted'[d] = posted[d]
  BY CommitTouches DEF CommitFigures, CommitApproval, CommitCorrection, CommitCancellation
<1>2. /\ request[q].before \in Int /\ request[q].goes \in Int /\ request[q].seen[v] \in Int
      /\ rob[v] \in Int /\ own[v] \in Int /\ posted[c] \in Int /\ posted'[c] \in Int
  BY <1>1 DEF BargeInv, TypeOK, Request
<1>3. \E base \in Base(q, v) :
        rob'[v] = IF v = vessel[c] THEN base + (posted'[c] - posted[c]) ELSE rob[v]
  <2> USE DEF BargeInv, TypeOK
  <2>1. request[q].seen[v] \in Base(q, v) /\ rob[v] \in Base(q, v)
    BY DEF Base
  <2>2. CASE CommitFigures(q)
    <3>1. rob'[v] = rob[v] /\ posted'[c] = posted[c]
      BY <2>2 DEF CommitFigures
    <3>2. rob[v] + (posted'[c] - posted[c]) = rob[v]
      BY <1>2, <3>1
    <3>3. rob'[v] = IF v = vessel[c] THEN rob[v] + (posted'[c] - posted[c]) ELSE rob[v]
      BY <3>1, <3>2
    <3>4. rob[v] \in Base(q, v)
      BY <2>1
    <3> WITNESS rob[v] \in Base(q, v)
    <3> QED
      BY <3>3
  <2>3. CASE v # vessel[c]
    <3>1. rob'[v] = rob[v]
      BY <1>1, <2>3 DEF CommitFigures, CommitApproval, CommitCorrection, CommitCancellation
    <3> QED
      BY <2>1, <2>3, <3>1
  <2>4. CASE CommitApproval(q) /\ v = vessel[c]
    <3>1. PICK base \in Base(q, v) : rob' = [rob EXCEPT ![v] = base + request[q].before]
      BY <2>4 DEF CommitApproval
    <3>2. posted'[c] = posted[c] + request[q].before
      BY <1>1, <2>4 DEF CommitApproval
    <3>3. base + (posted'[c] - posted[c]) = base + request[q].before
      BY <1>2, <3>2 DEF Base
    <3> QED
      BY <2>4, <3>1, <3>3
  <2>5. CASE CommitCorrection(q) /\ v = vessel[c]
    <3>1. PICK base \in Base(q, v) : rob' = [rob EXCEPT ![v] = base - posted[c] + request[q].goes]
      BY <2>5 DEF CommitCorrection
    <3>2. posted'[c] = request[q].goes
      BY <1>1, <2>5 DEF CommitCorrection
    <3>3. base + (posted'[c] - posted[c]) = base - posted[c] + request[q].goes
      BY <1>2, <3>2 DEF Base
    <3> QED
      BY <2>5, <3>1, <3>3
  <2>6. CASE CommitCancellation(q) /\ v = vessel[c]
    <3>1. posted'[c] = 0
      BY <1>1, <2>6 DEF CommitCancellation
    <3>2. CASE posted[c] = 0
      <4>1. rob'[v] = rob[v]
        BY <2>6, <3>2 DEF CommitCancellation
      <4>2. rob[v] + (posted'[c] - posted[c]) = rob[v]
        BY <1>2, <3>1, <3>2
      <4>3. rob'[v] = IF v = vessel[c] THEN rob[v] + (posted'[c] - posted[c]) ELSE rob[v]
        BY <4>1, <4>2
      <4>4. rob[v] \in Base(q, v)
        BY <2>1
      <4> WITNESS rob[v] \in Base(q, v)
      <4> QED
        BY <4>3
    <3>3. CASE posted[c] # 0
      <4>1. PICK base \in Base(q, v) : rob' = [rob EXCEPT ![v] = base - posted[c]]
        BY <2>6, <3>3 DEF CommitCancellation
      <4>2. base + (posted'[c] - posted[c]) = base - posted[c]
        BY <1>2, <3>1 DEF Base
      <4> QED
        BY <2>6, <4>1, <4>2
    <3> QED
      BY <3>2, <3>3
  <2> QED
    BY <2>2, <2>3, <2>4, <2>5, <2>6
<1> DEFINE old == Total(posted, On(v))
<1>4. /\ old \in Int
      /\ Total(posted', On(v)') = IF v = vessel[c] THEN old + posted'[c] - posted[c] ELSE old
  BY <1>1, BookedMoves DEF BargeInv
<1>5. Drift(v) = rob[v] - (own[v] + old)
      /\ Drift(v)' = rob'[v] - (own'[v] + Total(posted', On(v)'))
  BY BookedIsTotal
<1>6. own'[v] = own[v]
  BY <1>1
<1>7. PICK base \in {request[q].seen[v], rob[v]} :
        rob'[v] = IF v = vessel[c] THEN base + (posted'[c] - posted[c]) ELSE rob[v]
  BY <1>3 DEF Base
<1> HIDE DEF old, c
<1>8. CASE v = vessel[c]
  <2>1. /\ rob'[v] = base + (posted'[c] - posted[c])
        /\ Total(posted', On(v)') = old + posted'[c] - posted[c]
    BY <1>4, <1>7, <1>8
  <2>2. base \in Int
    BY <1>2, <1>7
  <2>3. Drift(v)' - Drift(v) = base - rob[v] /\ Drift(v)' = Drift(v) + (base - rob[v])
    BY <1>2, <1>4, <1>5, <1>6, <2>1, <2>2, Difference
  <2>4. CASE base = rob[v]
    BY <1>2, <1>4, <1>5, <2>3, <2>4
  <2>5. CASE base = request[q].seen[v]
    BY <2>3, <2>5
  <2> QED
    BY <1>7, <2>4, <2>5
<1>9. CASE v # vessel[c]
  <2>1. Drift(v)' = Drift(v)
    BY <1>2, <1>4, <1>5, <1>6, <1>7, <1>9
  <2> QED
    BY <2>1
<1> QED
  BY <1>8, <1>9

\* A discharge event, which writes over the totals it has read.
LEMMA DischargeMisses ==
  ASSUME BargeInv, BargeInv', NEW q \in Requests, CommitDischarge(q), NEW v \in Vessels
  PROVE  Drift(v)' = Drift(v) \/ Drift(v)' - Drift(v) = request[q].seen[v] - rob[v]
<1> DEFINE r == request[q]
           k == (IF v = r.into THEN r.goes ELSE 0) - (IF v = r.from THEN r.goes ELSE 0)
<1>1. r.goes \in Int /\ r.seen[v] \in Int /\ rob[v] \in Int /\ own[v] \in Int
  BY DEF BargeInv, TypeOK, Request
<1>2. k \in Int /\ own'[v] = own[v] + k /\ vessel' = vessel /\ posted' = posted
  BY <1>1 DEF CommitDischarge
<1>3. rob'[v] = IF v \in {r.from, r.into} THEN r.seen[v] + k ELSE rob[v]
  BY DEF CommitDischarge
<1>4. v \notin {r.from, r.into} => k = 0
  OBVIOUS
<1>5. Total(posted', On(v)') = Total(posted, On(v)) /\ Total(posted, On(v)) \in Int
  BY <1>2, OnFinite, TotalType DEF On, BargeInv, TypeOK
<1>6. Drift(v) = rob[v] - (own[v] + Total(posted, On(v)))
      /\ Drift(v)' = rob'[v] - (own'[v] + Total(posted', On(v)'))
  BY BookedIsTotal
<1> HIDE DEF k, r
<1>7. PICK t \in Int : t = Total(posted, On(v)) /\ Total(posted', On(v)') = t
  BY <1>5
<1>8. Drift(v) = rob[v] - (own[v] + t) /\ Drift(v)' = rob'[v] - (own[v] + k + t)
  BY <1>2, <1>6, <1>7
<1>9. CASE v \in {r.from, r.into}
  <2>1. Drift(v)' = r.seen[v] + k - (own[v] + k + t)
    BY <1>1, <1>2, <1>3, <1>8, <1>9
  <2>2. Drift(v)' - Drift(v) = r.seen[v] - rob[v]
    BY <1>1, <1>2, <1>8, <2>1
  <2> QED
    BY <2>2 DEF r
<1>10. CASE v \notin {r.from, r.into}
  BY <1>1, <1>3, <1>4, <1>8, <1>10
<1> QED
  BY <1>9, <1>10

DriftStep ==
  \A v \in Vessels : Drift(v)' # Drift(v) =>
    \E q \in Requests : Commits(q) /\ Drift(v)' - Drift(v) = request[q].seen[v] - rob[v]

LEMMA StepDrifts == BargeInv /\ BargeInv' /\ Fresh /\ [Next]_vars => DriftStep
<1> SUFFICES ASSUME BargeInv, BargeInv', Fresh, [Next]_vars,
                    NEW v \in Vessels, Drift(v)' # Drift(v)
             PROVE  \E q \in Requests :
                      Commits(q) /\ Drift(v)' - Drift(v) = request[q].seen[v] - rob[v]
  BY DEF DriftStep
<1>1. ~ UNCHANGED <<rob, own, posted, vessel>>
  <2>1. ASSUME UNCHANGED <<rob, own, posted, vessel>>
        PROVE  Drift(v)' = Drift(v)
    <3>1. On(v)' = On(v)
      BY <2>1 DEF On
    <3> QED
      BY <2>1, <3>1, BookedIsTotal
  <2> QED
    BY <2>1
<1>2. ASSUME NEW u \in Vessels, NEW x \in -MaxMt..MaxMt \ {0}, RecordRobEntry(u, x)
      PROVE  FALSE
  <2>1. x \in Int
    BY BargeAssumption
  <2>2. CASE u = v
    <3>1. /\ rob'[v] = rob[v] + x /\ own'[v] = own[v] + x
          /\ vessel' = vessel /\ posted' = posted
      BY <1>2, <2>1, <2>2 DEF RecordRobEntry, BargeInv, TypeOK
    <3> QED
      BY <2>1, <3>1, BothMove DEF BargeInv
  <2>3. CASE u # v
    <3>1. /\ rob'[v] = rob[v] + 0 /\ own'[v] = own[v] + 0
          /\ vessel' = vessel /\ posted' = posted
      BY <1>2, <2>3 DEF RecordRobEntry, BargeInv, TypeOK
    <3> QED
      BY <3>1, BothMove DEF BargeInv
  <2> QED
    BY <2>2, <2>3
<1>3. ASSUME NEW c \in Collections, NEW u \in Vessels, CreateCollection(c, u)
      PROVE  FALSE
  BY <1>3, CreationKeeps
<1>4. ASSUME NEW q \in Requests,
             \/ CommitFigures(q) \/ CommitApproval(q) \/ CommitCorrection(q)
             \/ CommitCancellation(q)
      PROVE  Commits(q) /\ Drift(v)' - Drift(v) = request[q].seen[v] - rob[v]
  BY <1>4, Commitment, CommitMisses
<1>5. ASSUME NEW q \in Requests, CommitDischarge(q)
      PROVE  Commits(q) /\ Drift(v)' - Drift(v) = request[q].seen[v] - rob[v]
  BY <1>5, Commitment, DischargeMisses
<1> QED
  BY <1>1, <1>2, <1>3, <1>4, <1>5 DEF Next, vars, Begin, BeginDischarge, Abandon

\* What a total loses against its ledger is exactly what was recorded since the
\* request that writes it read it: the entry recorded by hand, the collection that is
\* created and every commit that finds what it read keep the two as far apart as they
\* were, for any number of requests at once.
THEOREM LossIsWhatWasMissed == Spec => LosesWhatItMissed
<1>1. Init => Fresh
  BY BargeAssumption DEF Init, Fresh, Idle, BargeAssumption
<1>2. BargeInv /\ BargeInv' /\ Fresh /\ [Next]_vars =>
        \A v \in Vessels : Drift(v)' # Drift(v) =>
          \E q \in Requests : Commits(q) /\ Drift(v)' - Drift(v) = request[q].seen[v] - rob[v]
  BY StepDrifts DEF DriftStep
<1> QED
  BY <1>1, <1>2, StepFresh, BargeSafe, PTL DEF Spec, LosesWhatItMissed
=============================================================================
