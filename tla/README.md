# Verification of the operations backend

TLA+ models, TLC runs and TLAPS proofs for the bunkering-operations backend
(FastAPI, SQLAlchemy, PostgreSQL) under `src/`. Modelled are the life of an
operation from its creation to its reopening or purge, the vessel and truck
deliveries it is made of and the delivery notes (BDNs) that gate it, the barges'
remaining-on-board (ROB) ledger with every path that posts to it, the money
(PFIs, invoices, vouchers), licences and naval clearances, the notices sent to
clients, push notifications, and user accounts with the identity service behind
them: as whole requests where a handler is one step for the others, and cut at
the statements another session can slip between where it is not.

## Inventory

| Part | State it keeps | Operations | Modelled |
| --- | --- | --- | --- |
| State machine (`services/state_machine.py`) | none | valid moves per operation type, moves per role | `StateMachine` |
| Access (`dependencies.py`, `permissions.py`) | none | who may call which route | `AccessControl` |
| Operations (`operation_service.py`, `scripts/delete_operations.py`) | status, type, version, root, pause, soft delete | create, update, transition, close, pause, resume, reopen, delete, purge | `OperationLifecycle` |
| Tasks (`task_service.py`) | assignments that drive the early statuses | create, update, cancel | `OperationLifecycle` |
| Vessel runs, legs (`vessel_activity_service.py`) | run status and stage, loading instants, legs with stages, readings | create, stage logs, loading, corrections, cancel and uncancel, readings | `VesselDelivery` (without the retired session flow) |
| Vessel BDNs (`vessel_bdn_service.py`) | BDNs of a run or a leg | submit, approve, reject, update, delete, gate | `VesselDelivery`, `ReviewRaces` |
| Loading BDNs (`bdn_service.py`) | BDNs of the barge's own loading | submit, approve, reject, update, delete | `VesselDelivery`, `ReviewRaces` |
| ROB ledger (`rob_entries`, `vessels.current_rob_mt`) | running total and entries | posted to by eight service paths | `VesselDelivery`, `ReviewRaces`, `TruckRoad`, `BargeLedger` |
| STS collections (`sts_collection_service.py`) | collections with status and figure of record | create, submit, approve, correct, cancel | `BargeLedger` (without stage logs) |
| Vessels, discharge events (`vessel_service.py`, `vessel_discharge_service.py`) | barge rows, manual entries, transfers | manual entry, discharge event | `BargeLedger` |
| Database session (`database.py`) | one transaction per request | commit, rollback, row locks, identity map | `ReviewRaces`, `BargeLedger`, `PushDelivery` |
| Trucks on an operation (`truck_service.py`) | truck rows with status, tonnage, barge and approval; feedback rounds | add, update, remove, transit, telemetry, discharge and correction, feedback and its review, addable trucks | `TruckRoad`, `TruckDelivery` |
| Truck BDNs (`truck_bdn_service.py`) | Truck BDNs of an operation | submit, approve, reject, update, delete | `TruckDelivery` |
| PFIs and payments (`pfi_service.py`) | PFIs, allocations, payments | create, edit, allocate, re-allocate, pay, confirm, delete | `Finance` |
| Invoices (`invoice_service.py`) | invoices per delivery note or operation | draft, send, mark paid, cancel | `Finance` |
| Vouchers (`voucher_service.py`) | expense vouchers | record, submit, approve, reject, attach receipt | `Finance` |
| Licences, clearances (`licence_service.py`) | PPDL allowance, BFLs, drawdowns, vessels on a clearance | issue, edit, delete, draw down, link, remove a vessel | `Licences`, `ClientNotices` |
| Client notices and ETAs (`client_notification_service.py`, `eta_service.py`) | queue of e-mails, log, ETA history | queue, approve, reject, send, set ETA | `ClientNotices` |
| Push notifications (`push_service.py`, `notification_service.py`) | per-session list, process-wide outbox, one drain task, subscriptions | stage, release, drop, drain, prune, subscribe | `PushDelivery`, `PushPromise` |
| Accounts (`routers/admin.py`, `routers/auth.py`, `auth_service.py`) | users here, identities at Supabase | register, create, reactivate, update, delete, bootstrap, act as | `Accounts` |
| Truck availability, terminal receipts, documents, KPI, reports, e-mail and WhatsApp senders, middleware, number generator | read models, files, messages | | not modelled, see the end |

How the parts meet. Nothing is shared but the database, the process-wide push
outbox and, for accounts, the identity service. A request runs in one session
that commits when the handler returns and rolls back when it raises
(`database.py`, `get_db`). Services call each other inside that session: the
vessel-activity and loading-BDN services ask the vessel-BDN service for the
approval progress, and all of them move the operation's status through private
copies of `_transition_operation`, which differ in what they leave alone.
In-app notifications are rows of the same transaction, their pushes leave after
its commit; client e-mails leave while it is still open; a new identity is made
before it and has to be taken back should it fail.

What is hard. The gate is *derived*: how many deliveries are live, how many
have an approved BDN. Its operands change in five services and it is re-checked
only where somebody remembered to. The ROB total is *denormalised*: every path
posts a difference and has to undo exactly that when it is corrected. Balances
(a PFI's, a BFL's, a PPDL's) and uniqueness (one invoice per note, one standing
BDN, one next revision, one last manager) are *checked, then written*, almost
never under a row lock, so overlapping requests see each other half-done. And
two things cannot be rolled back: an e-mail that left and an identity that was
made.

What makes each part correct. State machine: the moves that are offered are
the moves that are accepted. Lifecycle: no dead end, numbered revisions, closed
for good. Runs and legs: a status derived from stages is true when it is
written, and progress is not taken away from under a document. BDNs: at most
one standing per delivery; the gate opens exactly when none is owed. Ledger:
the total equals its entries, and the entries follow the documents. Sessions:
every review ends, and overlapping reviews add up. Trucks: live once on an
operation, offered again only when approved again, and credited where and as
much as their row says. Money and licences: what a check excludes happens only
through a request that had read before. Notices: nobody is written to before an
approval or again after settlement. Push: nothing before its commit, nothing
twice, nothing forgotten. Accounts: a manager remains, and no address is
blocked by an identity without an account.

## Modules

* **`StateMachine`** is a pure module: the three transition maps as sets of
  edges, `TRANSITION_PERMISSIONS` grouped by role, and the methods of the class.
  Edges whose list names `"system"` are open to every role, as
  `can_user_transition` has it.
* **`AccessControl`** is pure too: `require_roles` and its strict form, the
  effective role of a manager who acts as another, and the roles each route
  names; `May(caller, route)` is what a request of that caller meets, `Admitted`
  the roles a route lets in. The delivery modules guard their actions with roles of
  their own; `GuardsOfRoutes` in `MCVesselDelivery` and `MCTruckDelivery` assumes,
  and TLC checks, that these are the roles of the routes.
* **`OperationLifecycle`**: `op` is `operations` (one row per revision), `task`
  is `task_assignments`, `opening` what a request to reopen has counted.
  `ReopenCount` reads the family and picks the next number, `ReopenInsert`
  writes the row under the unique index on the number, `ReopenFail` is the
  refusal or the lost commit. `Purge` is the deletion script.
* **`VesselDelivery`** takes each handler as one committed transaction. `op` is
  `operations.status`; `run`, `leg` and `bdn` are the three tables; `rob`,
  `posted` and `recorded` are `current_rob_mt` and `rob_entries`, grouped by
  `source_description`, because every reversal finds its entries by that text.
  A refusal (4xx) rolls back and so is an action that is not enabled. The
  actions are named after the handlers: `AdvanceStage`, `CancelRun`, `AddLeg`,
  `AdvanceLegStage`, `CorrectLegTiming`, `CreateVesselBdn`, `ApproveVesselBdn`,
  `ApproveBdn`, `RecordQuantities`, `CloseOperation` and so on. The handlers'
  three copies of `_transition_operation` are `ActivityMove`, `VesselBdnMove`
  and `BdnMove`. Both BDN services act on any row of `bdn`: a row has both of the
  tonnages the services post (`mt` of `quantity_delivered_mt`, `vac` of
  `discharge_mt_vacuum`) and keeps which of them have handled it (`audit`, what the
  audit log knows).
* **`ReviewRaces`** cuts the review handlers at the statements another session
  can slip between: read the BDN, flush it, read the operation, read the barge,
  flush it, count, flush the rest, commit. Reads see what is committed, writes are
  absolute values. A flush locks its rows one by one (`LockRow`), in the order the
  mapper writes them, and each stays locked until the session ends; `BreakRing` is
  the database that ends one of the sessions waiting for each other. `on` says which
  barge each BDN is about, one of the `Layouts`.
* **`TruckRoad`** is the journey of the trucks of one operation: `row` is
  `truck_operations`, `rob` and `posted` the ledger grouped by row
  (`rob_entries.truck_operation_id`) and barge. Its actions are the handlers
  `AddTruckToOperation`, `UpdateTruckOperation`, `RemoveTruckFromOperation`,
  `StartTransit`, `EndTransit`, `StartDischarge`, `EndDischarge`,
  `EditDischargeRecord` and the telemetry milestones, none of which asks the
  operation's status.
* **`TruckDelivery`** extends it with what does: feedback rounds and their
  review, `Addable` (`addable_truck_ids`), Truck BDNs and the operation's status,
  moved through `StateMachine`.
* **`BargeLedger`** is the ledger seen from the barge: manual entries, discharge
  events between barges, and STS collections with the row lock their handlers
  take (`with_for_update`) and the identity map it does not refresh. `rob` is
  `current_rob_mt`, `own` the manual and transfer entries, `posted` what each
  collection has on the ledger, `Drift` the difference between total and entries.
* **`Finance`**, **`Licences`**, **`ClientNotices`** (which extends `Licences`,
  because clearances carry the vessels that notices are sent to) and
  **`Accounts`** cut each handler whose check can go stale into a `Begin...`
  that reads and checks and a `Commit...` that writes what was asked, whatever
  was committed meanwhile; a request between the two is a record of what it has
  read. Handlers that check nothing another could change are one action.
* **`PushDelivery`** is the push service: `staged` the list in `session.info`,
  `outbox` and `drain` the module's globals, and the listeners, the drain's
  sleep, batch, query, sends and pruning as actions; crash and restart of the
  worker empty the globals. **`PushPromise`** is the abstract specification, the
  promise of the module's docstring: a push is announced when its row is
  committed and goes to each device at most once or is given up. `PushDelivery`
  is shown to implement it under the mapping named in `Promise`.
* **`...Proofs`** modules hold the theorems: `VesselDeliveryProofs`,
  `ReviewRacesProofs`, `BargeLedgerProofs` and `OperationLifecycleProofs` about
  the module they are named after, `TruckDeliveryProofs` about `TruckRoad` and
  `TruckDelivery`, `BackOfficeProofs` about `Finance` and `Accounts`,
  `NotificationProofs` about `Licences`, `ClientNotices` and `PushDelivery`.
  **`SumTheorems`** holds what they need about sums over finite sets.
  **`MC...`** modules are the small instances.

Where two modules are proved about side by side, the names of one carry its own
prefix (`PushInit`, `PushSpec`, `AccountsNext`, `AccountsTypeOK` ...), and the
requests of `Accounts` are `Calls`.

How the modules compose. `TruckDelivery` extends `TruckRoad`, `ClientNotices`
extends `Licences`, `Accounts` rests on `AccessControl`, and everything that
moves an operation on `StateMachine`. `VesselDelivery` and `TruckDelivery` start
where `OperationLifecycle`'s early statuses end; the three share the status
column, and the lifecycle's manual transitions stand for the deliveries' own
moves, which use the same edges.

Operators named as variants the runs must reject (`PendingBdn`,
`ApproveBdnJumpsGate`, `BilledOpenly`, ...) are plausible faults of the definition
that follows them: each property has one that breaks it.

### Modelling decisions

* The two BDN services share a table and load a BDN by its id alone; `list_bdns`
  shows vessel BDNs too. So either route may be called with either kind, which has
  consequences: a vessel BDN approved by `approve_bdn` is credited where it should
  be debited; one approved by one service and deleted by the other leaves its entry
  on the ledger. `RobFollowsApprovals` says what holds all the same, and more of a
  BDN that one service alone has handled. The slot of a deleted BDN that the ledger
  still names is not handed out again.
* `approve_bdn` flushes the approval with the credit it posts; on a vessel-only
  operation it posts none and counts the gate before the flush (`CountedBdns`). A
  leg's BDN approved there is therefore not counted, and may leave the operation
  waiting: `ReviewNeverStrands` excepts it by name (`Misrouted`).
* The six-stage tracker is meant for full operations, loading instants and legs are
  for vessel-only ones. The handlers refuse the latter on a full operation, but
  `advance_stage` takes a run of either type and lifts a vessel-only operation to
  `pending_completion` by its run stages, legs or no legs
  (`PendingCompletionMeansDelivered` keeps the two sources apart).
* The retired single-run session flow (start, receipt, bunkering, discharge,
  complete) is left out, and `record_complete` with it.
* One barge in `VesselDelivery`: an entry's source is of one barge, so for the
  ledger of whole requests this loses nothing. `ReviewRaces` has several, because a
  full operation's runs may use different barges and the barge's row is what orders
  approvals.
* A deleted BDN frees its slot; numbers are unique, so a slot that is used
  again stands for another BDN. Rows that a request in flight still names are
  not handed out again: keys are never reused.
* The caller's role is the one `acting_role` yields. Reopening an operation
  creates a new revision and leaves the old one as it is, so it is no action of
  the delivery modules.
* Timestamps are compared in one place only: a removed truck is offered again by a
  round submitted after the last `updated_at` of its rows. A row's `later` is the
  set of rounds submitted since then; writing the row empties it.
* A truck row's `approved` is `discharge_approved is True`. Nothing writes `False`
  any more, so `approve_discharge`, which asks for it, cannot be reached, and
  `FALSE` stands for `None`.
* `POST /operations/{id}/submit-completion` asks `TruckLoadingQuantityService` for
  a method only `TruckService` has, so every completion report fails and changes
  nothing: it is no action. The manual transition covers what it would do.
* Ending a discharge asks whether the row is completed and nothing else; a
  correction from a zero tonnage to a barge fails on an unbound label and rolls
  back, which the guard of `EditDischargeRecord` says.
* One product on a licence and on a PFI: the code keeps a balance per product
  and never mixes them.
* Tonnages and litres are integers (the columns are fixed-point decimals); the
  tracker's length is a constant, since the handlers only compare positions.
* Supabase is external. It refuses a second identity for an address and may
  fail a deletion; the code swallows that failure.
* A mail's outcome is a choice: the mailer answers false when it is not
  configured or the call failed, and the answer is not looked at.

## Runs

Each run is one question.

| Run | Instance | Shows |
| --- | --- | --- |
| `deliveries` | full or vessel-only, 2 runs, 2 legs, 3 BDNs, 2 stages each, tonnages 1 and 2 | one standing BDN per run or leg, resting on a finished one; the ledger follows the approvals, by whichever service, and balances over readings, corrections and the close-out; the gate, pending completion and closure; no review and no cancelled run strands the operation |
| `race_full` | full operation, 2 sessions, 2 vessel BDNs on one barge or two and 1 loading BDN | overlapping reviews: the gate counts approvals only, the last approval on a barge opens it, rings of locks need one BDN under two reviews, every review ends, and a barge's total strays from its entries by the lost update alone |
| `trucks` | truck-only, 1 truck, 2 rows, 2 barges, 2 rounds, 2 Truck BDNs, tonnages 0 and 2 | one standing Truck BDN, trucks offered by approvals only, reviews move on; live twice only by reviving a removed row; the ledger follows the row but for the named ways out |
| `lifecycle` | 1 family of 3 rows, 2 types, 1 task, 2 reopens | no dead end; revisions numbered apart on a root that is there; closed for good |
| `finance` | 1 PFI with 2 allocations, 2 invoices of 1 note, 2 vouchers, 2 officers, 2 requests | overdrawn, billed twice or changed after settlement only through a request that had read before |
| `accounts` | 2 people, 2 requests, 3 identities, 1 fault | the last manager is lost only by stale counts, an address only by a fault |
| `clearances` | 1 PPDL with up to 3 litres, 2 BFLs, 1 clearance, 1 vessel, 2 notices, 2 requests | balances overdrawn only unseen or by one form that names a BFL twice; mails only after approval, not again after settlement; ETA history kept |
| `barge` | 2 barges, 1 collection, 2 requests, tonnages 1 and 2 | a total loses against its ledger exactly what was recorded since the request had read it; the ledger holds the figure of record; cancelled for good; below zero only where nothing guards |
| `push` | 2 sessions, 2 pushes, 2 users, 2 devices | implements `PushPromise`; a sleeping drain takes all; what one leaves behind goes with the next commit |
| `leg_cancel_strands` | vessel-only, 1 run, 2 legs | **violated**: finding 1 |
| `push_stranded` | as `push` | **violated**: finding 2 |
| `barge_loss` | 1 barge, 1 collection, 2 requests, tonnage 1 | **violated**: finding 3 |

`CHECK_DEADLOCK FALSE` is said where the system may really stop: an archived
operation and a family with no free row have no further move, callers may stay
away, and in `accounts` identities and faults are bounded. In the other runs
some request or commit is always possible.

Many properties have the form *only unseen*: the bad thing happens in no step
but the commit of a request whose reads no longer hold. That is the strongest
statement the code supports, since it checks and then writes without a lock,
and it says two things a test does not reach: requests that do not overlap
never get there, whatever their order, and no other step does either. They are
broken by dropping the check, by counting the wrong rows, or by one more path
that writes without it.

Why the bounds are enough. A standing document can be threatened by its own
delivery, by a second document or by a second delivery, and the gate by one
delivery that is finished and one that is not: two runs (or legs) and one BDN
more than that. Two stages are the least with one that is not the last. Two
tonnages tell a correction from its original, and BDN slots are reused after a
deletion, so chains of any length occur. A race of reviews needs two sessions: a
lost update has one that reads and one that overtakes it, a missed count two that
count, a ring of locks at least two that wait. The theorems about `ReviewRaces`
cover any number; what only the run shows is that each review ends.

Some instances explore areas that share no guard one after the other, by a
state constraint each MC module explains: `Bounds` of `MCVesselDelivery` (on a full
operation one BDN is corrected while it is alone and one crosses to the other
service beside one more; on a vessel-only one two legs meet with their BDNs, one leg
meets the stage log, the loading BDNs, the BDNs that cross over and two readings at
a time), `OneThingAtATime` (two truck rows
meet with the operation at rest, one row meets the barges or the reviews),
`OneAreaAtATime` (PFIs, invoices, vouchers), `InTurn` (licences, then notices
over a settled licence; three litres for one BFL before any clearance, two for
several), `WithinBounds` (two barges without a collection, or one
barge and the shore), `OneFamily` (revisions are followed until they can be
reopened, their course being the root's) and `FewMinted`. What they cut off is
the product of the areas, not a behaviour of either. Counters are capped by
`MaxPosted`, `MaxRob`, `MaxLitres`, `MaxMt`, `MaxDrawdowns`, `MaxMinted` and
`MaxFaults`; mails are counted up to two, which stands for more.

Two rows are the least with which a truck can be there twice, and the handlers
look at one row of the truck or at all of them alike. For the ledger rows do not
meet at all, so one is enough, with two barges to move a delivery between and
tonnages 0 and 2, of which 0 is the one the code treats apart. What a row may
post on a barge is bounded by `MaxPosted` (`PostedBound`), because repeated
discharges of one row could post without end; 4 lets the tonnage be posted twice.

`LedgerFollowsRow` says of each step that a row in agreement with its postings
stays so, except when an approved row is discharged again (`Redelivered`), when a
free-text delivery is given a barge of the fleet (`LateAssigned`), and when an
approved row is written with nothing posted (`Overwritten`). The last is the plain
update; the property cannot tell it from a correction that posts nothing.

Fairness. Safety runs assume none. `ReviewsEnd` uses `SF_vars(Step(q))` for each
session: the event loop resumes every coroutine, and a session that waits for a
row queues for it in PostgreSQL, which hands a freed lock to the queue in order,
so that a lock freed again and again is obtained. Nobody is obliged to begin a
review. An approval and a rejection of one BDN lock it and the operation in opposite
orders; `WF_vars` of the deadlock detector says that PostgreSQL ends one of the
sessions of such a ring. In `PushDelivery` the drain is a task of the
event loop, which runs it on: weak fairness of its own steps (wake, look, send,
prune); sessions need not commit and workers need not restart.

## Findings

1. **Cancelling a receiving vessel strands the operation.** `cancel()` re-checks
   the BDN gate because it used to leave the operation "stuck at bdn_pending
   with nothing left to approve"; `cancel_leg` only re-derives
   `pending_completion`, so the same happens with legs.
2. **A push released during the send phase is left behind.** The docstring of
   `_schedule_drain` says it "re-schedules at the end"; but the drain's own call,
   in its `finally` block, finds itself as the task that is not done and schedules
   nothing. The push waits for some later commit that stages another, which
   `LeftBehindUntilNextCommit` shows to be the only wait, and is lost if the worker
   stops before.

3. **An STS approval loses what was recorded beside it.** `_credit_rob` says that
   with the vessel's row locked "a figure staff record on the same barge at the same
   moment can't be lost between read and write". But the collection was loaded
   together with its vessel, so the session holds that row already, and the locked
   read does not renew what it holds (it does not ask for `populate_existing`): the
   approval adds to the figure of the first read. In the run a manual entry is
   recorded in between and disappears from the total; the ledger keeps it.
   `LosesWhatItMissed` shows that such a loss is exactly what the request missed.

Races that the models contain and the properties name as their exceptions, with
no text that promises otherwise, so that they are no findings:

* the lost update of a barge's total by two approvals of BDNs, which take no lock
  before they read (`DriftsOnlyUnseen`);
* a cut of a BFL, which is not held against the PPDL's balance, that commits after a
  deeper cut and so raises the BFL unchecked (`PpdlOverissuedOnlyUnseen`; three
  litres are the least that shows it);
* two approvals of one BDN, which post twice, and a rejection of a BDN that an
  approval counted at the gate meanwhile (`GateCountsOnlyApprovals` names its entry,
  which stays);
* two approvals on different barges, or on a vessel-only operation, each counting the
  other's BDN as pending (`LastApprovalOpensGate`): no row orders them;
* a voucher put back to submitted by a submission that read it as a draft
  (`FinalChangesOnlyUnseen`);
* a removed truck that comes back beside its replacement (`LiveOnceUnlessRevived`);
* PFIs, BFLs and PPDLs overdrawn, notes billed twice, two managers demoting each
  other, by requests that overlap.

One more divergence has no run of its own, because `RobFollowsApprovals` states what
is left of the promise: `delete_bdn` says that deleting "never leaves a phantom amount
on the vessel's ledger" and `delete_vessel_bdn` that it never leaves the "ROB
permanently short", which holds of a BDN that its own service approved and not of one
that the other did.

Other things met on the way are listed as hazards in `PROJECT.json`, with a note
where no property covers them.

## Theorems

Proved by TLAPS for every value of the constants, from the named assumptions of
each module alone: any sets of runs, legs, BDNs, stages and tonnages and both
operation types; any trucks, rows, barges and rounds; any families, users, tasks
and requests; any PFIs, invoices, vouchers, licences, notices, vessels and devices.
Where something is added up or counted the tables are assumed finite
(`FiniteTables`, `FiniteBdns`, `IsFiniteSet` in `FinanceAssumption`,
`LicencesAssumption`, `BargeAssumption`, `AccountsAssumption`), which every
database is. Every safety property that a passing run checks is a theorem.

| Theorem | Establishes |
| --- | --- |
| `TypeCorrect` | `Spec => []TypeOK` of `VesselDelivery` |
| `DeliveriesDocumentedOnce`, `BdnsStandOnDeliveries` | `OneActiveBdnPerDelivery` and `BdnRestsOnFinishedDelivery` always hold |
| `LedgerFollowsApprovals`, `LedgerBalances` | `RobFollowsApprovals` and `RobBalances` always hold |
| `ClosedForGood` | `CompletedStaysClosed` |
| `GateNeedsEveryApproval`, `ReviewsLeadOn` | `GateOpensOnlyWhenNothingOwed`, `ReviewNeverStrands` |
| `ReadyOnlyWhenDelivered` | `PendingCompletionMeansDelivered` |
| `RacesTypeCorrect` | types of `ReviewRaces` |
| `RingsShareABdn` | `RingsNeedOneBdn` always holds |
| `LastApprovalCounts` | `LastApprovalOpensGate` always holds, on a full operation with a delivery |
| `GateRestsOnApprovals` | `GateCountsOnlyApprovals`, on a full operation |
| `DriftNeedsLostUpdate` | `DriftsOnlyUnseen` |
| `RoadTypeCorrect`, `TruckTypeCorrect` | types of `TruckRoad` and `TruckDelivery` |
| `LiveOnce`, `LedgerAgrees` | `LiveOnceUnlessRevived`, `LedgerFollowsRow` of `TruckRoad` |
| `LiveOnceOnOperation`, `LedgerAgreesOnOperation` | the same of a whole operation, as the run checks them |
| `TruckDocumentedOnce`, `OfferedByApproval`, `ReviewsMoveOn` | `OneActiveTruckBdn`, `OfferedOnlyByApproval`, `TruckReviewMovesOn` |
| `LifecycleTypeCorrect` | types of `OperationLifecycle` |
| `AlwaysAWayOn`, `FamiliesNumbered`, `ClosedStaysClosed` | `NeverStranded`, `RevisionsNumbered`, `ClosedForGood` |
| `BargeTypeCorrect` | types of `BargeLedger` |
| `RecordsFollowed`, `StaysCancelled`, `FloorKept`, `LossIsWhatWasMissed` | `LedgerFollowsReceipt`, `CancelledForGood`, `BelowZeroOnlyUnguarded`, `LosesWhatItMissed` |
| `FinanceTypeCorrect` | types of `Finance` |
| `BilledOnce`, `SettledForGood`, `OverdraftNeedsStaleRoom` | `BilledForGood`, `FinalChangesOnlyUnseen`, `OverdrawnOnlyUnseen` |
| `AccountsTypeCorrect` | types of `Accounts` |
| `LastManagerNeedsStaleCount`, `OrphansComeOfFaults` | `LastManagerLeavesOnlyStale`, `OrphansNeedAFault` |
| `OverdrawnNeedsStaleBalance`, `OverissueNeedsStaleFigures` | `BflOverdrawnOnlyUnseen`, `PpdlOverissuedOnlyUnseen` |
| `ApprovedFirst`, `SettledStays`, `HistoryStays` | `MailedWasApproved`, `SettledNoticeIsFinal`, `EtaHistoryKept` |
| `PushTypeCorrect` | types of `PushDelivery` |
| `OnlyCommittedLeave`, `SentOnce`, `PromiseKept` | nothing before its commit, nothing twice, and the refinement `KeepsPromise` |

Two theorems have hypotheses, and each marks where the code stops working.
`LastApprovalCounts` and `GateRestsOnApprovals` are about full operations: on a
vessel-only one no barge row orders the approvals and no entry records what was
counted. The first also asks for a delivery, without which nothing is ever owed and
the gate is not what closes the operation.

### The argument

*Vessel deliveries.* Type correctness is inductive as it stands, with a lemma for
each group of handlers. The two document properties are not: creating a run
resets its row, and only because a run that was never created carries no progress
(`Untouched`) can that not take the loading away from under a BDN. `DeliveryInv`
adds it. `RobFollowsApprovals` needs `TypeOK` and one fact about sources: those of
different BDNs never coincide (`PostingsApart`); a BDN that changes hands is followed
through the entries of both services. `RobBalances` is about the sum of
all of them: each handler is shown to add to the total what it adds to the
entries it touches. The action properties need no invariant beyond types, but a
case for every handler that may move the operation: `CompletedEdges` collects
what the state machine allows after completion, and the gate's three openers are
shown to have counted on the rows they leave behind.

*Reviews that overlap.* `RacesTyped` says, beside types, what a session at each of
its statements has read so far (`Progress`). Then three inductive invariants.
`LockInv`: a session holds only rows its statement has come to, a barge before the
operation and the operation before the BDN it writes last (`Holds`). A ring would
have to go against that order somewhere, which only the BDN that two reviews share
allows. `GateInv`: a session that has posted holds its barge's row until it ends, so
that on a full operation what it counts at the gate of BDNs on its barge is still so
when it commits; and while the operation waits at `bdn_pending` a delivery is owed,
or the approvals were on different barges, and a session that counted and leaves the
gate shut knows a delivery that is owed and that it does not document itself.
`ReviewInv`: an approved BDN has its entry (`ApprovedIsPosted`), and what a count has
seen approved stands until it commits or was rejected with its entry in place
(`CountStands`).

*Trucks.* `LiveOnce` and `LedgerAgrees` are step properties that need types only.
The ledger's argument is per handler: a handler that posts nothing keeps an
unapproved row in agreement, since such a row has nothing on the ledger
(`UnapprovedPostsNothing`); a first discharge posts on an empty ledger
(`EndDischargeAgrees`); a correction reverses exactly what agreement says was posted
(`EditAgrees`); and the other rows are left alone (`OthersUntouched`). The rounds
and Truck BDNs of an operation leave the ledger alone, and the rows but for their
age against the rounds (`OffRoad`), so both carry over to the whole of it.
`OfferedByApproval` is not a matter of types: a row not in use must carry no truck
(`Unused`, the inductive part), and a handler that writes a row makes it newer than
every round (`WrittenRow`), so that no write can make an old nomination good.

*Lifecycle.* `RevisionsNumbered` needs one thing beyond types: a request to reopen
holds a row and a number from two up (`Settled`), so that what it inserts is never
taken for a root. That the row is still there and the number still free is what
the foreign key and the unique index see to at the insert. `NeverStranded` has one
case per handler, over facts about the transition maps that are checked edge by
edge.

*Barges.* `BargeInv` says that an open request is about a collection on a vessel, in
a status its kind accepts, and that a discharge event is about none. Each commit is
then followed through its reversal and its new posting. For what a total loses
a collection that is not there must have no entries and nobody at work on it
(`Fresh`), or creating one would move the sum without moving the total.

*Back office.* `MoneyInv` says that an invoice under way has a row of its own that is
not there yet, and that a decision under way is about one row that is: commits then
meet what they mean. A submission is such a decision too: it read the voucher as a
draft, and may commit over one decided since. `DrawInv` says what a request on an allocation holds: it asks
for no more than the room it read, a new row is its own, and a row it edits is of
the same PFI still or gone; a commit whose room is still there therefore leaves the
PFI covered. `AccountsInv` says that a call keeps the guard it passed, in terms of
what it saw (`CallMeant`), and that an identity in the making is known to one call
alone: no row, no other call and no other making names its number (`MadeApart`), so
that taking it back takes back nobody else's.

*Licences and notices.* `LicencesInv` says that a request on a BFL fits the figures
it read, by the balance or as a cut, that a new BFL is its own, and that each line
of a clearance form alone fits what it found left. An overdraft is then a sum that
no longer is what it was read to be, or two lines of one form. The attempt to
prove this corrected the property: it used to compare the balance together with
the BFL's own quantity to what a request had read, and a cut overtaken by a deeper
cut slips through that, since the two move against each other. A request now keeps
both figures. In `NoticesInv` an approved notice is never unapproved, so a request
that has read it as approved may be late but never early.

*Push.* `PushInv` says where a push may be: staged in one session, or in the outbox,
or in the drain's batch or jobs, and never both on its way and sent to the same
device; from the outbox on only with its row saved. From it every step of
`PushDelivery` is a step of `PushPromise` under the mapping or leaves it alone,
which is the refinement.

*Sums.* The models add up with `MapThenSumSet`, a fold over the subsets of a set,
and what a sum does needs induction over the set. The induction theorems of the
library take a predicate as a parameter, which the installed provers cannot
instantiate; `SumTheorems` goes round this. The sets for which a claim fails are
collected in a set of sets, the strict subset ordering on the subsets of a finite
set is well-founded, so a bad set would have a smallest one (`SmallestBad`), and
the claim is proved of that one from the smaller. On this rest that the recursive
table exists and is unique (`TableExists`, `TablesAgree`), that an element can be
taken out in any order (`TotalRemove`), that a total of naturals is one
(`TotalNat`), and what the proofs cite: `TotalChange` for an entry that changes,
`TotalMoves` for one that enters, leaves or changes. `TotalIsMapThenSumSet`,
`LitresAddUp` and `ColumnAddsUp` lead from the models' sums to these.

### Only model-checked

`ReviewsEnd`, `SleeperTakesAll` and `LeftBehindUntilNextCommit` say that something
happens in the end; reasoning about fairness, and about what is enabled, is out of
the installed provers' reach. The three properties a run refutes (`LegCancelNeverStrands`, `NeverLeftBehind`,
`ApprovalLosesNothing`) have no theorem, as they do not hold.

## Not modelled

* **Truck availability**: a pure read of live rows over all operations, with no
  lock and no refusal; its comment allows a truck on two operations.
* **Terminal receipts**: rows that are inserted and summed; nothing is refused or
  moved by them.
* **Documents**: files in object storage, read by no other part.
* **KPI, reports, analytics**: read-only aggregation, a daily snapshot, page layout.
* **E-mail and WhatsApp senders, milestones**: messages that leave after the commit
  and never fail a request. The client e-mails that leave before it are in
  `ClientNotices`.
* **Middleware, number generator, schemas, migrations**: filters per request;
  counters under an advisory lock, so that numbers never collide; shapes and ranges.
* **Of modelled parts**: the retired single-run session flow and the delete routes of
  `vessel_activity_service`, HSE and comment records, trucks named on the creation
  form, who is shown which operation, the fleet register with its audits, waivers
  and issues, the stage logs of STS collections, particulars of vessels, uploaded
  files of licences, login and tokens. No guard of a modelled handler reads them.
* **Overlapping submissions of BDNs**: the check for a standing one and the insert are
  separate statements with nothing between them, for vessel and Truck BDNs alike; two
  that overlap leave two standing, and no property could say more.
* **The connection pool** (two connections and three of overflow, `database.py`): a
  request that finds none waits and fails; no state is shared through it.

## Plan

What would add most next, in this order: an abstract specification of the gate
(a count of what is owed, opened by whoever brings it to nothing) that
`VesselDelivery` and `TruckDelivery` both implement, with the implementation proved;
an abstract ledger (a total and its entries, moved together or apart by a stale
write) that every posting path implements; the retired session flow, should it be used again.
