---------------------------- MODULE ClientNotices ----------------------------
(***************************************************************************)
(* Who is told about a delivery: the client vessels on the clearances an    *)
(* operation is linked to, their ETAs, and the emails a bunker manager      *)
(* queues, approves and sends (client_notification_service, eta_service,    *)
(* and the vessel half of licence_service).                                 *)
(*                                                                         *)
(* An email leaves while the request that sends it is still open: it cannot *)
(* be taken back when the session is rolled back.  Rows are read once, at   *)
(* the beginning of a request, and written as absolute values at its end.   *)
(***************************************************************************)
EXTENDS Licences

CONSTANTS
  Operations,
  Vessels,       \* rows of naval_clearance_vessels
  NoClearance,
  CastOff,       \* a recipient typed in at cast off, on no clearance
  Notices        \* rows of pending_client_notifications

ASSUME NoticesAssumption ==
  /\ IsFiniteSet(Notices)
  /\ NoClearance \notin Clearances
  /\ CastOff \notin Vessels

VARIABLES
  live,    \* operations that are not soft-deleted
  link,    \* operation_naval_clearances
  aboard,  \* the clearance each vessel row is on
  eta,     \* whether the vessel has rows in vessel_etas
  notice,  \* pending_client_notifications
  log,     \* the notices that have rows in client_notification_logs
  mail,    \* number of emails that went out, per notice; two stands for more
  job      \* a request that approves, rejects or sends notices or removes a vessel

noticeVars == <<live, link, aboard, eta, notice, log, mail, job>>
vars == <<licenceVars, noticeVars>>

Statuses == {"pending_approval", "approved", "sent", "rejected"}
Notice == [status: Statuses \cup {"none"}, on: Operations \cup {"none"},
           to: Vessels \cup {CastOff}]

\* rows: what it still has to do; seen: the rows it has read as approved;
\* done: those it has mailed.
Job == [kind: {"idle", "approve", "reject", "send", "remove"}, rows: SUBSET Notices,
        seen: SUBSET Notices, done: SUBSET Notices, vessel: Vessels \cup {CastOff}]
Idle == [kind |-> "idle", rows |-> {}, seen |-> {}, done |-> {}, vessel |-> CastOff]
Removing(v) == [kind |-> "remove", rows |-> {}, seen |-> {}, done |-> {}, vessel |-> v]
Reviewing(kind, rows) ==
  [kind |-> kind, rows |-> rows, seen |-> {}, done |-> {}, vessel |-> CastOff]
Sending(rows, seen, done) ==
  [kind |-> "send", rows |-> rows, seen |-> seen, done |-> done, vessel |-> CastOff]

TypeOK ==
  /\ LicencesTypeOK
  /\ live \subseteq Operations
  /\ link \subseteq Operations \X Clearances
  /\ aboard \in [Vessels -> Clearances \cup {NoClearance}]
  /\ eta \in [Vessels -> BOOLEAN]
  /\ notice \in [Notices -> Notice]
  /\ log \subseteq Notices
  /\ mail \in [Notices -> 0..2]
  /\ job \in [Requests -> Job]

NoNotice == [status |-> "none", on |-> "none", to |-> CastOff]

Init ==
  /\ LicencesInit
  /\ live = Operations
  /\ link = {}
  /\ aboard = [v \in Vessels |-> NoClearance]
  /\ eta = [v \in Vessels |-> FALSE]
  /\ notice = [n \in Notices |-> NoNotice]
  /\ log = {}
  /\ mail = [n \in Notices |-> 0]
  /\ job = [q \in Requests |-> Idle]

More(count) == IF count = 2 THEN 2 ELSE count + 1

\* An operation is soft-deleted by operation_service.
SoftDeleteOperation(o) ==
  /\ o \in live
  /\ live' = live \ {o}
  /\ UNCHANGED <<licenceVars, link, aboard, eta, notice, log, mail, job>>

-----------------------------------------------------------------------------
(* Clearances, their vessels and the operations they are linked to.         *)

Exists(c) == \E b \in Bfls : drawn[c][b] # 0

\* Nobody has the key of a vessel row that is not there.
Unused(v) ==
  /\ aboard[v] = NoClearance /\ ~eta[v]
  /\ \A n \in Notices : notice[n].to # v
  /\ \A q \in Requests : job[q].vessel # v

CreateNavalClearance(q, c, vs) ==
  /\ vs # {} /\ \A v \in vs : Unused(v)
  /\ CommitClearance(q, c)
  /\ aboard' = [v \in Vessels |-> IF v \in vs THEN c ELSE aboard[v]]
  /\ UNCHANGED <<live, link, eta, notice, log, mail, job>>

AddVessel(c, v) ==
  /\ Exists(c) /\ Unused(v)
  /\ aboard' = [aboard EXCEPT ![v] = c]
  /\ UNCHANGED <<licenceVars, live, link, eta, notice, log, mail, job>>

\* Optional, at any time, never a gate.
LinkNavalClearance(o, c) ==
  /\ o \in live /\ Exists(c)
  /\ <<o, c>> \notin link
  /\ link' = link \cup {<<o, c>>}
  /\ UNCHANGED <<licenceVars, live, aboard, eta, notice, log, mail, job>>

UnlinkNavalClearance(o, c) ==
  /\ o \in live
  /\ <<o, c>> \in link
  /\ link' = link \ {<<o, c>>}
  /\ UNCHANGED <<licenceVars, live, aboard, eta, notice, log, mail, job>>

SetEta(v) ==
  /\ aboard[v] # NoClearance
  /\ eta' = [eta EXCEPT ![v] = TRUE]
  /\ UNCHANGED <<licenceVars, live, link, aboard, notice, log, mail, job>>

Logged(v) == \E n \in Notices : notice[n].to = v /\ n \in log

RemovableAnyway(v) == ~Logged(v)

\* Once an ETA was given or a notice was sent the vessel stays.
Removable(v) == ~eta[v] /\ ~Logged(v)

BeginRemoveVessel(q, v) ==
  /\ job[q] = Idle
  /\ aboard[v] # NoClearance
  /\ Removable(v)
  /\ job' = [job EXCEPT ![q] = Removing(v)]
  /\ UNCHANGED <<licenceVars, live, link, aboard, eta, notice, log, mail>>

\* The foreign keys decide: the ETAs go with the vessel, a queued notice or a
\* log row forbids the delete and the request fails.
CommitRemoveVessel(q) ==
  LET v == job[q].vessel
      kept == aboard[v] = NoClearance \/ \E n \in Notices : notice[n].to = v
  IN
  /\ job[q].kind = "remove"
  /\ aboard' = IF kept THEN aboard ELSE [aboard EXCEPT ![v] = NoClearance]
  /\ eta' = IF kept THEN eta ELSE [eta EXCEPT ![v] = FALSE]
  /\ job' = [job EXCEPT ![q] = Idle]
  /\ UNCHANGED <<licenceVars, live, link, notice, log, mail>>

-----------------------------------------------------------------------------
(* Queue, approve, send.                                                    *)

\* The recipient is verified against the clearances linked to the operation, or
\* against the addresses given at cast off.
QueueClientNotification(n, o, r) ==
  /\ notice[n].status = "none"
  /\ o \in live
  /\ r \in Vessels => <<o, aboard[r]>> \in link
  /\ notice' = [notice EXCEPT ![n] = [status |-> "pending_approval", on |-> o, to |-> r]]
  /\ UNCHANGED <<licenceVars, live, link, aboard, eta, log, mail, job>>

AcceptsSent(kind) ==
  CASE kind = "approve" -> {"pending_approval"}
    [] kind = "reject"  -> {"pending_approval", "approved", "sent"}

\* What approve and reject each accept.
Accepts(kind) ==
  CASE kind = "approve" -> {"pending_approval"}
    [] kind = "reject"  -> {"pending_approval", "approved"}

OfOneOperation(rows) ==
  /\ rows # {}
  /\ \E o \in Operations : \A n \in rows : notice[n].on = o

\* Approving takes several rows, all or none; rejecting takes one.
BeginReview(q, kind, rows) ==
  /\ job[q] = Idle
  /\ OfOneOperation(rows)
  /\ kind = "reject" => Cardinality(rows) = 1
  /\ \A n \in rows : notice[n].status \in Accepts(kind)
  /\ job' = [job EXCEPT ![q] = Reviewing(kind, rows)]
  /\ UNCHANGED <<licenceVars, live, link, aboard, eta, notice, log, mail>>

CommitReview(q) ==
  LET to == IF job[q].kind = "approve" THEN "approved" ELSE "rejected" IN
  /\ job[q].kind \in {"approve", "reject"}
  /\ notice' = [n \in Notices |-> IF n \in job[q].rows
       THEN [notice[n] EXCEPT !.status = to] ELSE notice[n]]
  /\ job' = [job EXCEPT ![q] = Idle]
  /\ UNCHANGED <<licenceVars, live, link, aboard, eta, log, mail>>

SendableUnapproved(n) == notice[n].status \notin {"none", "sent", "rejected"}

Sendable(n) == notice[n].status = "approved"

BeginSend(q, rows) ==
  /\ job[q] = Idle
  /\ OfOneOperation(rows)
  /\ \A n \in rows : notice[n].on \in live
  /\ job' = [job EXCEPT ![q] = Sending(rows, {n \in rows : Sendable(n)}, {})]
  /\ UNCHANGED <<licenceVars, live, link, aboard, eta, notice, log, mail>>

\* One row of the loop.  The mailer answers false when it is not configured or
\* the call failed; the answer is not looked at.
SendOne(q, n, delivered) ==
  /\ job[q].kind = "send"
  /\ n \in job[q].rows \cap job[q].seen
  /\ mail' = IF delivered THEN [mail EXCEPT ![n] = More(@)] ELSE mail
  /\ job' = [job EXCEPT ![q] = Sending(job[q].rows \ {n}, job[q].seen, job[q].done \cup {n})]
  /\ UNCHANGED <<licenceVars, live, link, aboard, eta, notice, log>>

CommitSend(q) ==
  /\ job[q].kind = "send"
  /\ job[q].rows = {}
  /\ log' = log \cup job[q].done
  /\ notice' = [n \in Notices |-> IF n \in job[q].done
       THEN [notice[n] EXCEPT !.status = "sent"] ELSE notice[n]]
  /\ job' = [job EXCEPT ![q] = Idle]
  /\ UNCHANGED <<licenceVars, live, link, aboard, eta, mail>>

\* The loop reaches a row that was not approved and raises: the session is rolled
\* back, the emails of the rows before it are not.
RefuseSend(q) ==
  /\ job[q].kind = "send"
  /\ job[q].rows \ job[q].seen # {}
  /\ job' = [job EXCEPT ![q] = Idle]
  /\ UNCHANGED <<licenceVars, live, link, aboard, eta, notice, log, mail>>

\* The commit fails or the worker dies, at any point.
LoseCommit(q) ==
  /\ job[q] # Idle
  /\ job' = [job EXCEPT ![q] = Idle]
  /\ UNCHANGED <<licenceVars, live, link, aboard, eta, notice, log, mail>>

-----------------------------------------------------------------------------

NoticesNext ==
  \/ \E o \in Operations : SoftDeleteOperation(o)
  \/ \E c \in Clearances, v \in Vessels : AddVessel(c, v)
  \/ \E o \in Operations, c \in Clearances : LinkNavalClearance(o, c)
  \/ \E o \in Operations, c \in Clearances : UnlinkNavalClearance(o, c)
  \/ \E v \in Vessels : SetEta(v)
  \/ \E q \in Requests, v \in Vessels : BeginRemoveVessel(q, v)
  \/ \E q \in Requests : CommitRemoveVessel(q)
  \/ \E n \in Notices, o \in Operations, r \in Vessels \cup {CastOff} :
       QueueClientNotification(n, o, r)
  \/ \E q \in Requests, kind \in {"approve", "reject"}, rows \in SUBSET Notices :
       BeginReview(q, kind, rows)
  \/ \E q \in Requests : CommitReview(q)
  \/ \E q \in Requests, rows \in SUBSET Notices : BeginSend(q, rows)
  \/ \E q \in Requests, n \in Notices, delivered \in BOOLEAN : SendOne(q, n, delivered)
  \/ \E q \in Requests : CommitSend(q)
  \/ \E q \in Requests : RefuseSend(q)
  \/ \E q \in Requests : LoseCommit(q)

Next ==
  \/ \E q \in Requests, c \in Clearances, vs \in SUBSET Vessels : CreateNavalClearance(q, c, vs)
  \/ LicencesNext /\ UNCHANGED noticeVars
  \/ NoticesNext

Spec == Init /\ [][Next]_vars

-----------------------------------------------------------------------------
(* Properties.                                                              *)

\* Request q will act on notice n, or has.
TakenUp(q, n) ==
  n \in job[q].done \cup
    (IF job[q].kind = "send" THEN job[q].rows \cap job[q].seen ELSE job[q].rows)

\* No client is written to before a manager has approved that very notice,
\* however approvals, rejections, sends and failures overlap
\* (send_approved_notifications).
MailedWasApproved ==
  \A n \in Notices : mail[n] > 0 => notice[n].status \in {"approved", "sent", "rejected"}

SettledStep(n) ==
  notice[n].status \in {"sent", "rejected"} =>
    /\ \A q \in Requests : TakenUp(q, n)' => TakenUp(q, n)
    /\ (\A q \in Requests : ~TakenUp(q, n)) =>
         /\ notice'[n] = notice[n] /\ mail'[n] = mail[n]
         /\ n \in log' <=> n \in log

\* What was sent or rejected stays so and is not mailed again, except by a request
\* that read it before it was settled: none takes it up afterwards.  A notice is
\* mailed twice only by overlapping requests, or by sending again what a failed
\* request had mailed (approve, reject and send of client_notification_service).
SettledNoticeIsFinal == [][\A n \in Notices : SettledStep(n)]_vars

HistoryStep(v) ==
  eta[v] /\ (\A q \in Requests : job[q].vessel # v) =>
    /\ eta'[v] /\ aboard'[v] = aboard[v]
    /\ \A q \in Requests : job'[q].vessel # v

\* A vessel whose ETA history exists loses it only to a removal that had checked
\* before the first ETA was set (remove_vessel, and the cascade of vessel_etas).
EtaHistoryKept == [][\A v \in Vessels : HistoryStep(v)]_vars
=============================================================================
