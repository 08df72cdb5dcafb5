---------------------------- MODULE PushDelivery ----------------------------
(***************************************************************************)
(* Web push on one worker (push_service, notification_service.notify and    *)
(* routers/push): pushes are staged in the session of a request, released   *)
(* to the worker's outbox when it commits, and sent by a drain task of      *)
(* which at most one runs.  Workers share nothing but the subscriptions.    *)
(*                                                                         *)
(* The drain holds no database session while it sends, so commits and       *)
(* subscriptions go on between any two of its steps.  A push that is        *)
(* nowhere any more may be used again for a new notification.               *)
(***************************************************************************)
EXTENDS FiniteSets

CONSTANTS Sessions, Pushes, Users, Nobody, Devices

ASSUME PushAssumption == Nobody \notin Users

VARIABLES
  staged,  \* session.info["raoms_push_queue"], per session
  saved,   \* the pushes whose notifications row is committed
  to,      \* the user a push is for
  outbox,  \* _outbox
  drain,   \* _drain_task: where it is and its local variables
  owner,   \* push_subscriptions.user_id, per endpoint; Nobody when there is no row
  ours,    \* the endpoints whose row carries the VAPID key the server has now
  sent     \* <<push, device>> pairs handed to the push service

pushVars == <<staged, saved, to, outbox, drain, owner, ours, sent>>

Phases == {"none", "asleep", "looking", "sending"}
Drain == [phase: Phases, batch: SUBSET Pushes, jobs: SUBSET (Pushes \X Devices),
          dead: SUBSET Devices]
NoDrain == [phase |-> "none", batch |-> {}, jobs |-> {}, dead |-> {}]
Asleep == [phase |-> "asleep", batch |-> {}, jobs |-> {}, dead |-> {}]
Looking(batch) == [phase |-> "looking", batch |-> batch, jobs |-> {}, dead |-> {}]
SendingTo(jobs, dead) == [phase |-> "sending", batch |-> {}, jobs |-> jobs, dead |-> dead]

PushTypeOK ==
  /\ staged \in [Sessions -> SUBSET Pushes]
  /\ saved \subseteq Pushes
  /\ to \in [Pushes -> Users]
  /\ outbox \subseteq Pushes
  /\ drain \in Drain
  /\ owner \in [Devices -> Users \cup {Nobody}]
  /\ ours \subseteq Devices
  /\ sent \subseteq Pushes \X Devices

PushInit ==
  /\ staged = [s \in Sessions |-> {}]
  /\ saved = {}
  /\ to \in [Pushes -> Users]
  /\ outbox = {}
  /\ drain = NoDrain
  /\ owner = [e \in Devices |-> Nobody]
  /\ ours = {}
  /\ sent = {}

-----------------------------------------------------------------------------
(* Requests.                                                                *)

InFlight(p) ==
  \/ \E s \in Sessions : p \in staged[s]
  \/ p \in outbox \cup drain.batch
  \/ \E e \in Devices : <<p, e>> \in drain.jobs

\* notify adds the notifications row and stages the push.
Notify(s, p, u) ==
  /\ ~InFlight(p)
  /\ staged' = [staged EXCEPT ![s] = @ \cup {p}]
  /\ saved' = saved \ {p}
  /\ to' = [to EXCEPT ![p] = u]
  /\ sent' = {d \in sent : d[1] # p}
  /\ UNCHANGED <<outbox, drain, owner, ours>>

\* _schedule_drain: nothing while a task is not done.
Scheduled(d) == IF d.phase = "none" THEN Asleep ELSE d

\* The commit of the session and the after_commit listener.
Commit(s) ==
  /\ staged[s] # {}
  /\ saved' = saved \cup staged[s]
  /\ outbox' = outbox \cup staged[s]
  /\ drain' = Scheduled(drain)
  /\ staged' = [staged EXCEPT ![s] = {}]
  /\ UNCHANGED <<to, owner, ours, sent>>

ReleaseOnRollback(s) ==
  /\ staged[s] # {}
  /\ outbox' = outbox \cup staged[s]
  /\ drain' = Scheduled(drain)
  /\ staged' = [staged EXCEPT ![s] = {}]
  /\ UNCHANGED <<saved, to, owner, ours, sent>>

\* The session is rolled back, or its commit fails.
Rollback(s) ==
  /\ staged[s] # {}
  /\ staged' = [staged EXCEPT ![s] = {}]
  /\ UNCHANGED <<saved, to, outbox, drain, owner, ours, sent>>

-----------------------------------------------------------------------------
(* The drain.  When it ends, its finally block calls _schedule_drain for    *)
(* what has arrived meanwhile; but it still runs inside the task, which is  *)
(* therefore not done, and nothing is scheduled.                            *)

WakeKeeping ==
  /\ drain.phase = "asleep"
  /\ drain' = IF outbox = {} THEN NoDrain
              ELSE Looking(outbox)
  /\ UNCHANGED <<staged, saved, to, outbox, owner, ours, sent>>

WakeForOne ==
  /\ drain.phase = "asleep"
  /\ drain' = IF outbox = {} THEN NoDrain
              ELSE Looking({CHOOSE p \in outbox : TRUE})
  /\ outbox' = outbox \ drain'.batch
  /\ UNCHANGED <<staged, saved, to, owner, ours, sent>>

\* After a quarter of a second it takes all there is.
Wake ==
  /\ drain.phase = "asleep"
  /\ drain' = IF outbox = {} THEN NoDrain
              ELSE Looking(outbox)
  /\ outbox' = {}
  /\ UNCHANGED <<staged, saved, to, owner, ours, sent>>

Jobs == {d \in drain.batch \X Devices : owner[d[2]] = to[d[1]] /\ d[2] \in ours}

\* One query for the subscriptions of every user in the batch.
Look ==
  /\ drain.phase = "looking"
  /\ drain' = IF Jobs = {} THEN NoDrain ELSE SendingTo(Jobs, {})
  /\ UNCHANGED <<staged, saved, to, outbox, owner, ours, sent>>

\* No connection can be had, or the query fails: logged, and the batch is lost.
LookFails ==
  /\ drain.phase = "looking"
  /\ drain' = NoDrain
  /\ UNCHANGED <<staged, saved, to, outbox, owner, ours, sent>>

\* One job; the push service says that the subscription is gone, or not.
Send(p, e, gone) ==
  /\ drain.phase = "sending"
  /\ <<p, e>> \in drain.jobs
  /\ drain' = SendingTo(drain.jobs \ {<<p, e>>}, drain.dead \cup {x \in {e} : gone})
  /\ sent' = sent \cup {<<p, e>>}
  /\ UNCHANGED <<staged, saved, to, outbox, owner, ours>>

\* The rows of the dead endpoints are deleted, unless that fails too.
Prune(succeeds) ==
  /\ drain.phase = "sending"
  /\ drain.jobs = {}
  /\ succeeds \/ drain.dead # {}
  /\ owner' = [e \in Devices |-> IF succeeds /\ e \in drain.dead THEN Nobody ELSE owner[e]]
  /\ drain' = NoDrain
  /\ UNCHANGED <<staged, saved, to, outbox, ours, sent>>

\* The worker starts anew, perhaps with another VAPID key; what was in memory is lost.
Restart(rekeyed) ==
  /\ staged' = [s \in Sessions |-> {}]
  /\ outbox' = {}
  /\ drain' = NoDrain
  /\ ours' = IF rekeyed THEN {} ELSE ours
  /\ UNCHANGED <<saved, to, owner, sent>>

-----------------------------------------------------------------------------
(* Subscriptions.  An endpoint is a browser profile: the last user to       *)
(* subscribe it has it.                                                     *)

Subscribe(e, u) ==
  /\ owner' = [owner EXCEPT ![e] = u]
  /\ ours' = ours \cup {e}
  /\ UNCHANGED <<staged, saved, to, outbox, drain, sent>>

Unsubscribe(e, u) ==
  /\ owner[e] = u
  /\ owner' = [owner EXCEPT ![e] = Nobody]
  /\ UNCHANGED <<staged, saved, to, outbox, drain, ours, sent>>

\* The browser has replaced its endpoint.  When the new one has a row already
\* the unique index makes the request fail.
Rotate(old, new) ==
  /\ owner[old] # Nobody
  /\ old # new => owner[new] = Nobody
  /\ owner' = [owner EXCEPT ![old] = Nobody, ![new] = owner[old]]
  /\ ours' = ours \cup {new}
  /\ UNCHANGED <<staged, saved, to, outbox, drain, sent>>

-----------------------------------------------------------------------------

DrainStep ==
  \/ Wake
  \/ Look
  \/ LookFails
  \/ \E p \in Pushes, e \in Devices, gone \in BOOLEAN : Send(p, e, gone)
  \/ \E succeeds \in BOOLEAN : Prune(succeeds)

PushNext ==
  \/ \E s \in Sessions, p \in Pushes, u \in Users : Notify(s, p, u)
  \/ \E s \in Sessions : Commit(s)
  \/ \E s \in Sessions : Rollback(s)
  \/ DrainStep
  \/ \E rekeyed \in BOOLEAN : Restart(rekeyed)
  \/ \E e \in Devices, u \in Users : Subscribe(e, u)
  \/ \E e \in Devices, u \in Users : Unsubscribe(e, u)
  \/ \E old, new \in Devices : Rotate(old, new)

\* The event loop goes on running the drain task; requests may stop at any time.
Fairness == WF_pushVars(DrainStep)

PushSpec == PushInit /\ [][PushNext]_pushVars /\ Fairness

-----------------------------------------------------------------------------
(* Properties.                                                              *)

\* A push leaves the request only with the committed row it announces: nothing in
\* the outbox, on its way or sent belongs to a transaction that was rolled back or
\* is still open (the incident of BDN-000027, after_commit and after_rollback).
NothingBeforeCommit ==
  /\ outbox \cup drain.batch \subseteq saved
  /\ \A d \in drain.jobs \cup sent : d[1] \in saved

\* A push is sent to a device once at most, whatever commits and drains overlap:
\* what has been sent is nowhere on the way again (_drain empties the outbox).
AtMostOnce ==
  \A d \in sent : d[1] \notin outbox \cup drain.batch /\ d \notin drain.jobs

\* The pushes on their way: released, and not yet given to every device or lost.
Released == outbox \cup drain.batch \cup {d[1] : d \in drain.jobs}

Promise == INSTANCE PushPromise WITH announced <- Released

\* Sessions, outbox and drain together keep the promise of the module's docstring:
\* nothing sets out before its commit, and no device gets a push twice.
KeepsPromise == Promise!Spec

\* The drain that sleeps takes every push that is in the outbox, those that came
\* while it slept too (_drain).
SleeperTakesAll ==
  \A p \in Pushes : drain.phase = "asleep" /\ p \in outbox ~> p \notin outbox

\* As long as requests that notify somebody keep committing, no push stays in the
\* outbox: the next commit after a drain has ended sends what it left behind
\* (_release_on_commit, _schedule_drain).
LeftBehindUntilNextCommit ==
  ([]<><<\E s \in Sessions : Commit(s)>>_pushVars) =>
     \A p \in Pushes : p \in outbox ~> p \notin outbox

\* "anything added during its send phase re-schedules at the end" (_schedule_drain):
\* while the outbox holds something, a drain is there that will come to it.
NeverLeftBehind == outbox # {} => drain.phase # "none"
=============================================================================
