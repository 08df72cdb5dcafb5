--------------------------- MODULE NotificationProofs ---------------------------
(***************************************************************************)
(* Proofs about the licence chain and about who is told what.               *)
(* ClientNotices, for any number of operations, vessels, notices and       *)
(* overlapping requests: nobody is written to before an approval, what is  *)
(* settled is not taken up again, a vessel with an ETA history is not      *)
(* removed by a request that starts afterwards.  Licences, on the same     *)
(* steps and for any litres: what a request asks for fits the figures it   *)
(* read, so a BFL is overdrawn and a PPDL overissued only when those have  *)
(* moved.  PushDelivery, for any sessions, pushes, users and devices: it   *)
(* keeps PushPromise, on one inductive invariant: a push is in one place   *)
(* at a time.                                                              *)
(***************************************************************************)
EXTENDS ClientNotices, PushDelivery, SumTheorems

-----------------------------------------------------------------------------
(* Client notices: the invariant.                                           *)

\* The half of TypeOK that is about notices, mails, vessels and jobs.
NoticesTyped ==
  /\ aboard \in [Vessels -> Clearances \cup {NoClearance}]
  /\ eta \in [Vessels -> BOOLEAN]
  /\ notice \in [Notices -> Notice]
  /\ log \subseteq Notices
  /\ mail \in [Notices -> 0..2]
  /\ job \in [Requests -> Job]

\* Once approved a row is never unapproved: it is sent or rejected at most.
Approved(n) == notice[n].status \in {"approved", "sent", "rejected"}

\* A sending request looks only at rows it has read as approved; no other
\* request has mailed anything.
SendsApproved ==
  \A q \in Requests :
    /\ \A n \in job[q].seen \cup job[q].done : Approved(n)
    /\ job[q].kind # "send" => job[q].seen = {} /\ job[q].done = {}

NoticesInv == NoticesTyped /\ SendsApproved /\ MailedWasApproved

mailVars == <<aboard, eta, notice, log, mail, job>>

-----------------------------------------------------------------------------

LEMMA Same == ASSUME UNCHANGED mailVars, NoticesInv PROVE NoticesInv'
BY DEF mailVars, NoticesInv, NoticesTyped, SendsApproved, MailedWasApproved, Approved

\* Steps about vessels and links: notices, mails, log and jobs stay.
LEMMA Aside ==
  ASSUME NoticesInv, UNCHANGED <<notice, log, mail, job>>,
         aboard' \in [Vessels -> Clearances \cup {NoClearance}], eta' \in [Vessels -> BOOLEAN]
  PROVE  NoticesInv'
BY DEF NoticesInv, NoticesTyped, SendsApproved, MailedWasApproved, Approved

\* A request takes on or drops a job; nothing else moves.
LEMMA Hired ==
  ASSUME NoticesInv, NEW q \in Requests, NEW new \in Job,
         job' = [job EXCEPT ![q] = new], UNCHANGED <<aboard, eta, notice, log, mail>>,
         \A n \in new.seen \cup new.done : Approved(n),
         new.kind # "send" => new.seen = {} /\ new.done = {}
  PROVE  NoticesInv'
<1>1. job'[q] = new /\ \A r \in Requests \ {q} : job'[r] = job[r]
  BY DEF NoticesInv, NoticesTyped
<1>2. SendsApproved'
  BY <1>1 DEF NoticesInv, SendsApproved, Approved
<1> QED
  BY <1>2 DEF NoticesInv, NoticesTyped, MailedWasApproved

LEMMA IdleJob == Idle \in Job
BY DEF Idle, Job

-----------------------------------------------------------------------------
(* One lemma per handler.                                                   *)

LEMMA ClearanceFacts ==
  ASSUME NoticesInv, NEW q \in Requests, NEW c \in Clearances, NEW vs \in SUBSET Vessels,
         CreateNavalClearance(q, c, vs)
  PROVE  NoticesInv'
<1>1. /\ aboard' = [v \in Vessels |-> IF v \in vs THEN c ELSE aboard[v]]
      /\ UNCHANGED <<eta, notice, log, mail, job>>
  BY DEF CreateNavalClearance
<1> QED
  BY <1>1, Aside DEF NoticesInv, NoticesTyped

LEMMA VesselFacts ==
  ASSUME NoticesInv,
         \/ \E o \in Operations : SoftDeleteOperation(o)
         \/ \E c \in Clearances, v \in Vessels : AddVessel(c, v)
         \/ \E o \in Operations, c \in Clearances : LinkNavalClearance(o, c)
         \/ \E o \in Operations, c \in Clearances : UnlinkNavalClearance(o, c)
         \/ \E v \in Vessels : SetEta(v)
  PROVE  NoticesInv'
<1>1. CASE \E o \in Operations : SoftDeleteOperation(o)
  BY <1>1, Same DEF SoftDeleteOperation, mailVars
<1>2. CASE \E c \in Clearances, v \in Vessels : AddVessel(c, v)
  BY <1>2, Aside DEF AddVessel, NoticesInv, NoticesTyped
<1>3. CASE \E o \in Operations, c \in Clearances : LinkNavalClearance(o, c)
  BY <1>3, Same DEF LinkNavalClearance, mailVars
<1>4. CASE \E o \in Operations, c \in Clearances : UnlinkNavalClearance(o, c)
  BY <1>4, Same DEF UnlinkNavalClearance, mailVars
<1>5. CASE \E v \in Vessels : SetEta(v)
  BY <1>5, Aside DEF SetEta, NoticesInv, NoticesTyped
<1> QED
  BY <1>1, <1>2, <1>3, <1>4, <1>5

LEMMA RemoveFacts ==
  ASSUME NoticesInv, NEW q \in Requests, NEW v \in Vessels, BeginRemoveVessel(q, v)
  PROVE  NoticesInv'
<1>1. Removing(v) \in Job
  BY DEF Removing, Job
<1>2. Removing(v).kind = "remove" /\ Removing(v).seen = {} /\ Removing(v).done = {}
  BY DEF Removing
<1>3. job' = [job EXCEPT ![q] = Removing(v)] /\ UNCHANGED <<aboard, eta, notice, log, mail>>
  BY DEF BeginRemoveVessel
<1> QED
  BY <1>1, <1>2, <1>3, Hired

LEMMA RemovedFacts ==
  ASSUME NoticesInv, NEW q \in Requests, CommitRemoveVessel(q)
  PROVE  NoticesInv'
<1>1. /\ aboard' \in {aboard, [aboard EXCEPT ![job[q].vessel] = NoClearance]}
      /\ eta' \in {eta, [eta EXCEPT ![job[q].vessel] = FALSE]}
      /\ job' = [job EXCEPT ![q] = Idle] /\ UNCHANGED <<notice, log, mail>>
  BY DEF CommitRemoveVessel
<1>2. aboard' \in [Vessels -> Clearances \cup {NoClearance}] /\ eta' \in [Vessels -> BOOLEAN]
  BY <1>1 DEF NoticesInv, NoticesTyped
<1>3. job'[q] = Idle /\ \A r \in Requests \ {q} : job'[r] = job[r]
  BY <1>1 DEF NoticesInv, NoticesTyped
<1>4. SendsApproved'
  BY <1>1, <1>3 DEF NoticesInv, SendsApproved, Approved, Idle
<1>5. NoticesTyped' /\ MailedWasApproved'
  BY <1>1, <1>2, IdleJob DEF NoticesInv, NoticesTyped, MailedWasApproved
<1> QED
  BY <1>4, <1>5 DEF NoticesInv

LEMMA QueueFacts ==
  ASSUME NoticesInv, NEW n \in Notices, NEW o \in Operations, NEW r \in Vessels \cup {CastOff},
         QueueClientNotification(n, o, r)
  PROVE  NoticesInv'
<1>1. /\ notice' = [notice EXCEPT ![n] = [status |-> "pending_approval", on |-> o, to |-> r]]
      /\ UNCHANGED <<aboard, eta, log, mail, job>>
  BY DEF QueueClientNotification
<1>2. ~Approved(n) /\ ~(mail[n] > 0)
  BY DEF QueueClientNotification, Approved, NoticesInv, MailedWasApproved
<1>3. NoticesTyped'
  BY <1>1 DEF NoticesInv, NoticesTyped, Notice, Statuses
<1>4. \A x \in Notices \ {n} : notice'[x] = notice[x]
  BY <1>1 DEF NoticesInv, NoticesTyped
<1>5. \A q \in Requests : job[q].seen \cup job[q].done \subseteq Notices
  BY DEF NoticesInv, NoticesTyped, Job
<1>6. SendsApproved'
  BY <1>1, <1>2, <1>4, <1>5 DEF NoticesInv, SendsApproved, Approved
<1>7. MailedWasApproved'
  BY <1>1, <1>2, <1>4 DEF NoticesInv, MailedWasApproved
<1> QED
  BY <1>3, <1>6, <1>7 DEF NoticesInv

LEMMA ReviewFacts ==
  ASSUME NoticesInv, NEW q \in Requests, NEW kind \in {"approve", "reject"},
         NEW rows \in SUBSET Notices, BeginReview(q, kind, rows)
  PROVE  NoticesInv'
<1>1. Reviewing(kind, rows) \in Job
  BY DEF Reviewing, Job
<1>2. /\ Reviewing(kind, rows).kind # "send"
      /\ Reviewing(kind, rows).seen = {} /\ Reviewing(kind, rows).done = {}
  BY DEF Reviewing
<1>3. /\ job' = [job EXCEPT ![q] = Reviewing(kind, rows)]
      /\ UNCHANGED <<aboard, eta, notice, log, mail>>
  BY DEF BeginReview
<1> QED
  BY <1>1, <1>2, <1>3, Hired

\* Some rows get a later status, and their request is done with them.
LEMMA Moved ==
  ASSUME NoticesInv, NEW q \in Requests, NEW rows \in SUBSET Notices,
         NEW next \in {"approved", "sent", "rejected"},
         notice' = [n \in Notices |-> IF n \in rows
                      THEN [notice[n] EXCEPT !.status = next] ELSE notice[n]],
         job' = [job EXCEPT ![q] = Idle],
         log' \subseteq Notices, UNCHANGED <<aboard, eta, mail>>
  PROVE  NoticesInv'
<1>1. NoticesTyped'
  BY IdleJob DEF NoticesInv, NoticesTyped, Notice, Statuses
<1>2. \A n \in Notices : Approved(n) => Approved(n)'
  BY DEF Approved, NoticesInv, NoticesTyped, Notice
<1>3. job'[q] = Idle /\ \A r \in Requests \ {q} : job'[r] = job[r]
  BY DEF NoticesInv, NoticesTyped
<1>4. \A r \in Requests : job[r].seen \cup job[r].done \subseteq Notices
  BY DEF NoticesInv, NoticesTyped, Job
<1>5. SendsApproved'
  BY <1>2, <1>3, <1>4 DEF NoticesInv, SendsApproved, Idle
<1>6. MailedWasApproved'
  BY <1>2 DEF NoticesInv, MailedWasApproved, Approved
<1> QED
  BY <1>1, <1>5, <1>6 DEF NoticesInv

LEMMA ReviewedFacts ==
  ASSUME NoticesInv, NEW q \in Requests, CommitReview(q)
  PROVE  NoticesInv'
<1>1. job[q].rows \in SUBSET Notices
  BY DEF NoticesInv, NoticesTyped, Job
<1>2. PICK next \in {"approved", "sent", "rejected"} :
        notice' = [n \in Notices |-> IF n \in job[q].rows
                     THEN [notice[n] EXCEPT !.status = next] ELSE notice[n]]
  BY DEF CommitReview
<1>3. job' = [job EXCEPT ![q] = Idle] /\ log' \subseteq Notices /\ UNCHANGED <<aboard, eta, mail>>
  BY DEF CommitReview, NoticesInv, NoticesTyped
<1> QED
  BY <1>1, <1>2, <1>3, Moved

LEMMA SendFacts ==
  ASSUME NoticesInv, NEW q \in Requests, NEW rows \in SUBSET Notices, BeginSend(q, rows)
  PROVE  NoticesInv'
<1> DEFINE new == Sending(rows, {n \in rows : Sendable(n)}, {})
<1>1. new \in Job
  BY DEF Sending, Job
<1>2. new.kind = "send" /\ \A n \in new.seen \cup new.done : Approved(n)
  BY DEF Sending, Sendable, Approved
<1>3. job' = [job EXCEPT ![q] = new] /\ UNCHANGED <<aboard, eta, notice, log, mail>>
  BY DEF BeginSend
<1> HIDE DEF new
<1> QED
  BY <1>1, <1>2, <1>3, Hired

LEMMA SentFacts ==
  ASSUME NoticesInv, NEW q \in Requests, NEW n \in Notices, NEW delivered \in BOOLEAN,
         SendOne(q, n, delivered)
  PROVE  NoticesInv'
<1>1. /\ job' = [job EXCEPT ![q] =
                   Sending(job[q].rows \ {n}, job[q].seen, job[q].done \cup {n})]
      /\ mail' = IF delivered THEN [mail EXCEPT ![n] = More(mail[n])] ELSE mail
      /\ UNCHANGED <<aboard, eta, notice, log>>
  BY DEF SendOne
<1>2. Approved(n)
  BY DEF SendOne, NoticesInv, SendsApproved
<1>3. Sending(job[q].rows \ {n}, job[q].seen, job[q].done \cup {n}) \in Job
  BY DEF Sending, NoticesInv, NoticesTyped, Job
<1>4. mail' \in [Notices -> 0..2] /\ \A x \in Notices \ {n} : mail'[x] = mail[x]
  BY <1>1 DEF NoticesInv, NoticesTyped, More
<1>5. NoticesTyped'
  BY <1>1, <1>3, <1>4 DEF NoticesInv, NoticesTyped
<1>6. MailedWasApproved'
  BY <1>1, <1>2, <1>4 DEF NoticesInv, MailedWasApproved, Approved
<1>7. /\ job'[q] = Sending(job[q].rows \ {n}, job[q].seen, job[q].done \cup {n})
      /\ \A r \in Requests \ {q} : job'[r] = job[r]
  BY <1>1 DEF NoticesInv, NoticesTyped
<1>8. SendsApproved'
  BY <1>1, <1>2, <1>7 DEF NoticesInv, SendsApproved, Approved, Sending
<1> QED
  BY <1>5, <1>6, <1>8 DEF NoticesInv

LEMMA LoggedFacts ==
  ASSUME NoticesInv, NEW q \in Requests, CommitSend(q)
  PROVE  NoticesInv'
<1>1. job[q].done \in SUBSET Notices
  BY DEF NoticesInv, NoticesTyped, Job
<1>2. /\ notice' = [n \in Notices |-> IF n \in job[q].done
           THEN [notice[n] EXCEPT !.status = "sent"] ELSE notice[n]]
      /\ job' = [job EXCEPT ![q] = Idle] /\ UNCHANGED <<aboard, eta, mail>>
  BY DEF CommitSend
<1>3. log' \subseteq Notices
  BY <1>1 DEF CommitSend, NoticesInv, NoticesTyped
<1> QED
  BY <1>1, <1>2, <1>3, Moved

LEMMA DroppedFacts ==
  ASSUME NoticesInv, NEW q \in Requests, RefuseSend(q) \/ LoseCommit(q)
  PROVE  NoticesInv'
<1>1. job' = [job EXCEPT ![q] = Idle] /\ UNCHANGED <<aboard, eta, notice, log, mail>>
  BY DEF RefuseSend, LoseCommit
<1>2. Idle.kind = "idle" /\ Idle.seen = {} /\ Idle.done = {}
  BY DEF Idle
<1> QED
  BY <1>1, <1>2, IdleJob, Hired

-----------------------------------------------------------------------------
(* The invariant.                                                           *)

LEMMA StepMailed == NoticesInv /\ [Next]_vars => NoticesInv'
<1> SUFFICES ASSUME NoticesInv, [Next]_vars
             PROVE  NoticesInv'
  OBVIOUS
<1>1. CASE UNCHANGED noticeVars
  BY <1>1, Same DEF noticeVars, mailVars
<1>2. CASE \E q \in Requests, c \in Clearances, vs \in SUBSET Vessels : CreateNavalClearance(q, c, vs)
  BY <1>2, ClearanceFacts
<1>3. CASE NoticesNext
  BY <1>3, VesselFacts, RemoveFacts, RemovedFacts, QueueFacts, ReviewFacts, ReviewedFacts,
     SendFacts, SentFacts, LoggedFacts, DroppedFacts DEF NoticesNext
<1> QED
  BY <1>1, <1>2, <1>3 DEF Next, vars

\* The invariant the others rest on: requests send only what they read as approved.
THEOREM NoticesSafe == Spec => []NoticesInv
<1>1. Init => NoticesInv
  BY DEF Init, NoticesInv, NoticesTyped, SendsApproved, MailedWasApproved, Notice, NoNotice,
         Job, Idle
<1>2. NoticesInv /\ [Next]_vars => NoticesInv'
  BY StepMailed
<1> QED
  BY <1>1, <1>2, PTL DEF Spec

\* No client is written to before a manager has approved that very notice.
THEOREM ApprovedFirst == Spec => []MailedWasApproved
<1>1. NoticesInv => MailedWasApproved
  BY DEF NoticesInv
<1> QED
  BY <1>1, NoticesSafe, PTL

-----------------------------------------------------------------------------
(* What is settled.                                                         *)

LEMMA IdleTakesNothing ==
  ASSUME NEW q \in Requests, NEW n, job'[q] = Idle
  PROVE  ~TakenUp(q, n)'
BY DEF TakenUp, Idle

LEMMA StepSettledNotice ==
  NoticesInv /\ [Next]_vars => \A n \in Notices : SettledStep(n)
<1> SUFFICES ASSUME NoticesInv, [Next]_vars, NEW n \in Notices,
                    notice[n].status \in {"sent", "rejected"}
             PROVE  /\ \A q \in Requests : TakenUp(q, n)' => TakenUp(q, n)
                    /\ (\A q \in Requests : ~TakenUp(q, n)) =>
                         /\ notice'[n] = notice[n] /\ mail'[n] = mail[n]
                         /\ n \in log' <=> n \in log
  BY DEF SettledStep
<1> DEFINE Kept == notice'[n] = notice[n] /\ mail'[n] = mail[n] /\ (n \in log' <=> n \in log)
           Fine == /\ \A q \in Requests : TakenUp(q, n)' => TakenUp(q, n)
                   /\ (\A q \in Requests : ~TakenUp(q, n)) => Kept
<1>1. ASSUME UNCHANGED <<notice, log, mail, job>> PROVE Fine
  BY <1>1 DEF TakenUp
<1>2. ASSUME NEW q \in Requests, NEW new, job' = [job EXCEPT ![q] = new],
             TakenUp(q, n)' => TakenUp(q, n),
             TakenUp(q, n) \/ Kept
      PROVE  Fine
  <2>1. \A r \in Requests \ {q} : job'[r] = job[r]
    BY <1>2 DEF NoticesInv, NoticesTyped
  <2>2. \A r \in Requests \ {q} : TakenUp(r, n)' <=> TakenUp(r, n)
    BY <2>1 DEF TakenUp
  <2> QED
    BY <1>2, <2>2
<1>3. ASSUME NEW q \in Requests, job' = [job EXCEPT ![q] = Idle], TakenUp(q, n) \/ Kept
      PROVE  Fine
  <2>1. job'[q] = Idle
    BY <1>3 DEF NoticesInv, NoticesTyped
  <2> QED
    BY <1>2, <1>3, <2>1, IdleTakesNothing
<1> HIDE DEF Fine, Kept
<1>4. CASE UNCHANGED noticeVars
  BY <1>1, <1>4 DEF noticeVars, Fine, Kept
<1>5. CASE \E q \in Requests, c \in Clearances, vs \in SUBSET Vessels : CreateNavalClearance(q, c, vs)
  BY <1>1, <1>5 DEF CreateNavalClearance, Fine, Kept
<1>6. CASE \/ \E o \in Operations : SoftDeleteOperation(o)
           \/ \E c \in Clearances, v \in Vessels : AddVessel(c, v)
           \/ \E o \in Operations, c \in Clearances : LinkNavalClearance(o, c)
           \/ \E o \in Operations, c \in Clearances : UnlinkNavalClearance(o, c)
           \/ \E v \in Vessels : SetEta(v)
  BY <1>1, <1>6 DEF SoftDeleteOperation, AddVessel, LinkNavalClearance, UnlinkNavalClearance, SetEta,
                   Fine, Kept
<1>7. ASSUME NEW q \in Requests, NEW v \in Vessels, BeginRemoveVessel(q, v) PROVE Fine
  <2>1. job' = [job EXCEPT ![q] = Removing(v)] /\ UNCHANGED <<notice, log, mail>>
    BY <1>7 DEF BeginRemoveVessel
  <2>2. job'[q] = Removing(v)
    BY <2>1 DEF NoticesInv, NoticesTyped
  <2>3. ~TakenUp(q, n)'
    BY <2>2 DEF TakenUp, Removing
  <2> QED
    BY <1>2, <2>1, <2>3 DEF Kept
<1>8. ASSUME NEW q \in Requests,
             CommitRemoveVessel(q) \/ RefuseSend(q) \/ LoseCommit(q)
      PROVE  Fine
  BY <1>3, <1>8 DEF CommitRemoveVessel, RefuseSend, LoseCommit, Kept
<1>9. ASSUME NEW x \in Notices, NEW o \in Operations, NEW r \in Vessels \cup {CastOff},
             QueueClientNotification(x, o, r)
      PROVE  Fine
  <2>1. x # n
    BY <1>9 DEF QueueClientNotification
  <2>2. Kept
    BY <1>9, <2>1 DEF QueueClientNotification, Kept, NoticesInv, NoticesTyped
  <2>3. \A q \in Requests : TakenUp(q, n)' => TakenUp(q, n)
    BY <1>9 DEF QueueClientNotification, TakenUp
  <2> QED
    BY <2>2, <2>3 DEF Fine
<1>10. ASSUME NEW q \in Requests, NEW kind \in {"approve", "reject"}, NEW rows \in SUBSET Notices,
              BeginReview(q, kind, rows)
       PROVE  Fine
  <2>1. job' = [job EXCEPT ![q] = Reviewing(kind, rows)] /\ UNCHANGED <<notice, log, mail>>
    BY <1>10 DEF BeginReview
  <2>2. job'[q] = Reviewing(kind, rows)
    BY <2>1 DEF NoticesInv, NoticesTyped
  <2>3. n \notin rows
    BY <1>10 DEF BeginReview, Accepts
  <2>4. ~TakenUp(q, n)'
    BY <2>2, <2>3 DEF TakenUp, Reviewing
  <2> QED
    BY <1>2, <2>1, <2>4 DEF Kept
<1>11. ASSUME NEW q \in Requests, CommitReview(q) PROVE Fine
  <2>1. job' = [job EXCEPT ![q] = Idle] /\ UNCHANGED <<log, mail>>
    BY <1>11 DEF CommitReview
  <2>2. n \in job[q].rows => TakenUp(q, n)
    BY <1>11 DEF CommitReview, TakenUp
  <2>3. n \notin job[q].rows => notice'[n] = notice[n]
    BY <1>11 DEF CommitReview
  <2> QED
    BY <1>3, <2>1, <2>2, <2>3 DEF Kept
<1>12. ASSUME NEW q \in Requests, NEW rows \in SUBSET Notices, BeginSend(q, rows) PROVE Fine
  <2>1. /\ job' = [job EXCEPT ![q] = Sending(rows, {x \in rows : Sendable(x)}, {})]
        /\ UNCHANGED <<notice, log, mail>>
    BY <1>12 DEF BeginSend
  <2>2. job'[q] = Sending(rows, {x \in rows : Sendable(x)}, {})
    BY <2>1 DEF NoticesInv, NoticesTyped
  <2>3. ~TakenUp(q, n)'
    BY <2>2 DEF TakenUp, Sending, Sendable
  <2> QED
    BY <1>2, <2>1, <2>3 DEF Kept
<1>13. ASSUME NEW q \in Requests, NEW x \in Notices, NEW delivered \in BOOLEAN,
              SendOne(q, x, delivered)
       PROVE  Fine
  <2>1. /\ job' = [job EXCEPT ![q] =
                     Sending(job[q].rows \ {x}, job[q].seen, job[q].done \cup {x})]
        /\ UNCHANGED <<notice, log>>
    BY <1>13 DEF SendOne
  <2>2. job'[q] = Sending(job[q].rows \ {x}, job[q].seen, job[q].done \cup {x})
    BY <2>1 DEF NoticesInv, NoticesTyped
  <2>3. job[q].kind = "send" /\ x \in job[q].rows \cap job[q].seen
    BY <1>13 DEF SendOne
  <2>4. TakenUp(q, n)' => TakenUp(q, n)
    BY <2>2, <2>3 DEF TakenUp, Sending
  <2>5. x = n => TakenUp(q, n)
    BY <2>3 DEF TakenUp
  <2>6. x # n => mail'[n] = mail[n]
    BY <1>13 DEF SendOne, NoticesInv, NoticesTyped
  <2> QED
    BY <1>2, <2>1, <2>4, <2>5, <2>6 DEF Kept
<1>14. ASSUME NEW q \in Requests, CommitSend(q) PROVE Fine
  <2>1. job' = [job EXCEPT ![q] = Idle] /\ UNCHANGED mail
    BY <1>14 DEF CommitSend
  <2>2. n \in job[q].done => TakenUp(q, n)
    BY DEF TakenUp
  <2>3. n \notin job[q].done => notice'[n] = notice[n] /\ (n \in log' <=> n \in log)
    BY <1>14 DEF CommitSend
  <2> QED
    BY <1>3, <2>1, <2>2, <2>3 DEF Kept
<1>15. CASE NoticesNext
  BY <1>6, <1>7, <1>8, <1>9, <1>10, <1>11, <1>12, <1>13, <1>14, <1>15 
     DEF NoticesNext, Fine, Kept
<1> QED
  BY <1>4, <1>5, <1>15 DEF Next, vars, Fine, Kept

\* A notice that was sent or rejected is acted on only by a request that had
\* read it before: none takes it up afterwards.
THEOREM SettledStays == Spec => SettledNoticeIsFinal
<1>1. NoticesInv /\ [Next]_vars => \A n \in Notices : SettledStep(n)
  BY StepSettledNotice
<1> QED
  BY <1>1, NoticesSafe, PTL DEF Spec, SettledNoticeIsFinal

-----------------------------------------------------------------------------
(* Vessels with a history.                                                  *)

LEMMA StepHistory == NoticesInv /\ [Next]_vars => \A v \in Vessels : HistoryStep(v)
<1> SUFFICES ASSUME NoticesInv, [Next]_vars, NEW v \in Vessels,
                    eta[v], \A q \in Requests : job[q].vessel # v
             PROVE  /\ eta'[v] /\ aboard'[v] = aboard[v]
                    /\ \A q \in Requests : job'[q].vessel # v
  BY DEF HistoryStep
<1> DEFINE Fine == /\ eta'[v] /\ aboard'[v] = aboard[v]
                   /\ \A q \in Requests : job'[q].vessel # v
<1>1. ASSUME UNCHANGED <<aboard, eta, job>> PROVE Fine
  BY <1>1
<1>2. ASSUME NEW q \in Requests, NEW new, job' = [job EXCEPT ![q] = new], new.vessel # v,
             UNCHANGED <<aboard, eta>>
      PROVE  Fine
  <2>1. \A r \in Requests : job'[r] \in {new, job[r]}
    BY <1>2 DEF NoticesInv, NoticesTyped
  <2> QED
    BY <1>2, <2>1
<1>3. CastOff # v
  BY NoticesAssumption
<1>4. Idle.vessel # v
  BY <1>3 DEF Idle
<1> HIDE DEF Fine
<1>5. CASE UNCHANGED noticeVars
  BY <1>1, <1>5 DEF noticeVars
<1>6. ASSUME NEW q \in Requests, NEW c \in Clearances, NEW vs \in SUBSET Vessels,
             CreateNavalClearance(q, c, vs)
      PROVE  Fine
  <2>1. v \notin vs
    BY <1>6 DEF CreateNavalClearance, Unused
  <2> QED
    BY <1>6, <2>1 DEF CreateNavalClearance, Fine
<1>7. ASSUME NEW c \in Clearances, NEW x \in Vessels, AddVessel(c, x) PROVE Fine
  <2>1. x # v
    BY <1>7 DEF AddVessel, Unused
  <2> QED
    BY <1>7, <2>1 DEF AddVessel, Fine, NoticesInv, NoticesTyped
<1>8. ASSUME NEW x \in Vessels, SetEta(x) PROVE Fine
  BY <1>8 DEF SetEta, Fine, NoticesInv, NoticesTyped
<1>9. ASSUME NEW q \in Requests, NEW x \in Vessels, BeginRemoveVessel(q, x) PROVE Fine
  <2>1. x # v
    BY <1>9 DEF BeginRemoveVessel, Removable
  <2>2. Removing(x).vessel # v
    BY <2>1 DEF Removing
  <2> QED
    BY <1>2, <1>9, <2>2 DEF BeginRemoveVessel
<1>10. ASSUME NEW q \in Requests, CommitRemoveVessel(q) PROVE Fine
  <2>1. /\ aboard' \in {aboard, [aboard EXCEPT ![job[q].vessel] = NoClearance]}
        /\ eta' \in {eta, [eta EXCEPT ![job[q].vessel] = FALSE]}
        /\ job' = [job EXCEPT ![q] = Idle]
    BY <1>10 DEF CommitRemoveVessel
  <2>2. job[q].vessel # v
    OBVIOUS
  <2>3. eta'[v] /\ aboard'[v] = aboard[v]
    BY <2>1, <2>2 DEF NoticesInv, NoticesTyped
  <2>4. \A r \in Requests : job'[r] \in {Idle, job[r]}
    BY <2>1 DEF NoticesInv, NoticesTyped
  <2> QED
    BY <1>4, <2>3, <2>4 DEF Fine
<1>11. ASSUME NEW q \in Requests, NEW kind \in {"approve", "reject"}, NEW rows \in SUBSET Notices,
              BeginReview(q, kind, rows)
       PROVE  Fine
  <2>1. Reviewing(kind, rows).vessel # v
    BY <1>3 DEF Reviewing
  <2> QED
    BY <1>2, <1>11, <2>1 DEF BeginReview
<1>12. ASSUME NEW q \in Requests, NEW rows \in SUBSET Notices, BeginSend(q, rows) PROVE Fine
  <2> DEFINE new == Sending(rows, {x \in rows : Sendable(x)}, {})
  <2>1. new.vessel # v
    BY <1>3 DEF Sending
  <2>2. job' = [job EXCEPT ![q] = new] /\ UNCHANGED <<aboard, eta>>
    BY <1>12 DEF BeginSend
  <2> HIDE DEF new
  <2> QED
    BY <1>2, <2>1, <2>2
<1>13. ASSUME NEW q \in Requests, NEW n \in Notices, NEW delivered \in BOOLEAN,
              SendOne(q, n, delivered)
       PROVE  Fine
  <2> DEFINE new == Sending(job[q].rows \ {n}, job[q].seen, job[q].done \cup {n})
  <2>1. new.vessel # v
    BY <1>3 DEF Sending
  <2>2. job' = [job EXCEPT ![q] = new] /\ UNCHANGED <<aboard, eta>>
    BY <1>13 DEF SendOne
  <2> HIDE DEF new
  <2> QED
    BY <1>2, <2>1, <2>2
<1>14. ASSUME NEW q \in Requests,
              CommitReview(q) \/ CommitSend(q) \/ RefuseSend(q) \/ LoseCommit(q)
       PROVE  Fine
  BY <1>2, <1>4, <1>14 DEF CommitReview, CommitSend, RefuseSend, LoseCommit
<1>15. CASE \/ \E o \in Operations : SoftDeleteOperation(o)
            \/ \E o \in Operations, c \in Clearances : LinkNavalClearance(o, c)
            \/ \E o \in Operations, c \in Clearances : UnlinkNavalClearance(o, c)
            \/ \E n \in Notices, o \in Operations, r \in Vessels \cup {CastOff} :
                 QueueClientNotification(n, o, r)
  BY <1>1, <1>15
     DEF SoftDeleteOperation, LinkNavalClearance, UnlinkNavalClearance, QueueClientNotification
<1>16. CASE NoticesNext
  BY <1>7, <1>8, <1>9, <1>10, <1>11, <1>12, <1>13, <1>14, <1>15, <1>16 
     DEF NoticesNext, Fine
<1> QED
  BY <1>5, <1>6, <1>16 DEF Next, vars, Fine

\* Once an ETA is recorded and no removal is under way the vessel and its
\* history stay.
THEOREM HistoryStays == Spec => EtaHistoryKept
<1>1. NoticesInv /\ [Next]_vars => \A v \in Vessels : HistoryStep(v)
  BY StepHistory
<1> QED
  BY <1>1, NoticesSafe, PTL DEF Spec, EtaHistoryKept

-----------------------------------------------------------------------------
(* Web push: the invariant.                                                 *)

\* What sits in an open session is its own, and nowhere else yet.
StagedAlone ==
  \A s \in Sessions : \A p \in staged[s] :
    /\ p \notin outbox \cup drain.batch
    /\ \A d \in drain.jobs \cup sent : d[1] # p
    /\ \A t \in Sessions \ {s} : p \notin staged[t]

\* The drain holds a batch only while it looks, and jobs only while it sends.
OnePlace ==
  /\ drain.phase # "looking" => drain.batch = {}
  /\ drain.phase # "sending" => drain.jobs = {}
  /\ outbox \cap drain.batch = {}
  /\ \A d \in drain.jobs : d[1] \notin outbox

Placed == NothingBeforeCommit /\ AtMostOnce /\ StagedAlone /\ OnePlace

PushInv == PushTypeOK /\ Placed

-----------------------------------------------------------------------------
(* Type correctness.                                                        *)

LEMMA NoDrainTyped == NoDrain \in Drain
  BY DEF NoDrain, Drain, Phases

LEMMA InitTyped == PushInit => PushTypeOK
  BY NoDrainTyped DEF PushInit, PushTypeOK

LEMMA ScheduledTyped ==
  ASSUME NEW d \in Drain
  PROVE  /\ Scheduled(d) \in Drain
         /\ Scheduled(d).batch = IF d.phase = "none" THEN {} ELSE d.batch
         /\ Scheduled(d).jobs = IF d.phase = "none" THEN {} ELSE d.jobs
         /\ Scheduled(d).phase \in {"none", d.phase, "asleep"}
         /\ Scheduled(d).phase = IF d.phase = "none" THEN "asleep" ELSE d.phase
  BY DEF Scheduled, Asleep, Drain, Phases

LEMMA JobsTyped == PushTypeOK => Jobs \subseteq Pushes \X Devices
  BY DEF PushTypeOK, Drain, Jobs

LEMMA RequestTyped ==
  ASSUME PushTypeOK, NEW s \in Sessions
  PROVE  /\ \A p \in Pushes, u \in Users : Notify(s, p, u) => PushTypeOK'
         /\ Commit(s) => PushTypeOK'
         /\ Rollback(s) => PushTypeOK'
<1>1. ASSUME NEW p \in Pushes, NEW u \in Users, Notify(s, p, u)
      PROVE  PushTypeOK'
  BY <1>1 DEF PushTypeOK, Notify
<1>2. ASSUME Commit(s)
      PROVE  PushTypeOK'
  <2>1. drain' \in Drain
    BY <1>2, ScheduledTyped DEF PushTypeOK, Commit
  <2> QED
    BY <1>2, <2>1 DEF PushTypeOK, Commit
<1>3. ASSUME Rollback(s)
      PROVE  PushTypeOK'
  BY <1>3 DEF PushTypeOK, Rollback
<1> QED
  BY <1>1, <1>2, <1>3

LEMMA DrainTyped ==
  ASSUME PushTypeOK, DrainStep
  PROVE  PushTypeOK'
<1>1. CASE Wake
  <2>1. drain' \in Drain
    BY <1>1, NoDrainTyped DEF PushTypeOK, Wake, Looking, Drain, Phases
  <2> QED
    BY <1>1, <2>1 DEF PushTypeOK, Wake
<1>2. CASE Look
  <2>1. drain' \in Drain
    BY <1>2, NoDrainTyped, JobsTyped DEF Look, SendingTo, Drain, Phases
  <2> QED
    BY <1>2, <2>1 DEF PushTypeOK, Look
<1>3. CASE LookFails
  BY <1>3, NoDrainTyped DEF PushTypeOK, LookFails
<1>4. ASSUME NEW p \in Pushes, NEW e \in Devices, NEW gone \in BOOLEAN, Send(p, e, gone)
      PROVE  PushTypeOK'
  <2>1. drain' \in Drain
    BY <1>4 DEF PushTypeOK, Send, SendingTo, Drain, Phases
  <2> QED
    BY <1>4, <2>1 DEF PushTypeOK, Send
<1>5. ASSUME NEW succeeds \in BOOLEAN, Prune(succeeds)
      PROVE  PushTypeOK'
  BY <1>5, NoDrainTyped DEF PushTypeOK, Prune
<1> QED
  BY <1>1, <1>2, <1>3, <1>4, <1>5 DEF DrainStep

LEMMA OtherTyped ==
  ASSUME PushTypeOK
  PROVE  /\ \A rekeyed \in BOOLEAN : Restart(rekeyed) => PushTypeOK'
         /\ \A e \in Devices, u \in Users : Subscribe(e, u) => PushTypeOK'
         /\ \A e \in Devices, u \in Users : Unsubscribe(e, u) => PushTypeOK'
         /\ \A old, new \in Devices : Rotate(old, new) => PushTypeOK'
<1>1. ASSUME NEW rekeyed \in BOOLEAN, Restart(rekeyed)
      PROVE  PushTypeOK'
  BY <1>1, NoDrainTyped DEF PushTypeOK, Restart
<1>2. ASSUME NEW e \in Devices, NEW u \in Users, Subscribe(e, u) \/ Unsubscribe(e, u)
      PROVE  PushTypeOK'
  BY <1>2 DEF PushTypeOK, Subscribe, Unsubscribe
<1>3. ASSUME NEW old \in Devices, NEW new \in Devices, Rotate(old, new)
      PROVE  PushTypeOK'
  BY <1>3 DEF PushTypeOK, Rotate
<1> QED
  BY <1>1, <1>2, <1>3

LEMMA StepTyped == PushTypeOK /\ [PushNext]_pushVars => PushTypeOK'
<1> SUFFICES ASSUME PushTypeOK, [PushNext]_pushVars
             PROVE  PushTypeOK'
  OBVIOUS
<1>1. CASE UNCHANGED pushVars
  BY <1>1 DEF PushTypeOK, pushVars
<1>2. CASE PushNext
  BY <1>2, RequestTyped, DrainTyped, OtherTyped DEF PushNext
<1> QED
  BY <1>1, <1>2

-----------------------------------------------------------------------------
(* The invariant holds at first and is kept by every step.                  *)

LEMMA InitPlaced == PushInit => Placed
  BY DEF PushInit, NoDrain, Placed, NothingBeforeCommit, AtMostOnce, StagedAlone, OnePlace

LEMMA NotifyPlaced ==
  ASSUME PushTypeOK, Placed, NEW s \in Sessions, NEW p \in Pushes, NEW u \in Users, Notify(s, p, u)
  PROVE  Placed'
<1>1. /\ p \notin outbox \cup drain.batch
      /\ \A t \in Sessions : p \notin staged[t]
      /\ \A d \in drain.jobs : d[1] # p
      /\ \A d \in sent' : d \in sent /\ d[1] # p
  <2>1. ASSUME NEW d \in drain.jobs
        PROVE  d[1] # p
    <3>1. drain.jobs \subseteq Pushes \X Devices
      BY DEF PushTypeOK, Drain
    <3>2. d[2] \in Devices /\ d = <<d[1], d[2]>>
      BY <3>1
    <3> QED
      BY <3>2 DEF Notify, InFlight
  <2> QED
    BY <2>1 DEF Notify, InFlight
<1>2. /\ saved' = saved \ {p} /\ outbox' = outbox /\ drain' = drain
      /\ \A t \in Sessions : staged'[t] = IF t = s THEN staged[s] \cup {p} ELSE staged[t]
  BY DEF Notify, PushTypeOK
<1>3. NothingBeforeCommit' /\ AtMostOnce' /\ OnePlace'
  BY <1>1, <1>2 DEF Placed, NothingBeforeCommit, AtMostOnce, OnePlace
<1>4. StagedAlone'
  BY <1>1, <1>2 DEF Placed, StagedAlone
<1> QED
  BY <1>3, <1>4 DEF Placed

LEMMA CommitPlaced ==
  ASSUME PushTypeOK, Placed, NEW s \in Sessions, Commit(s)
  PROVE  Placed'
<1>1. /\ drain' = Scheduled(drain) /\ sent' = sent
      /\ saved' = saved \cup staged[s] /\ outbox' = outbox \cup staged[s]
      /\ \A t \in Sessions : staged'[t] = IF t = s THEN {} ELSE staged[t]
  BY DEF Commit, PushTypeOK
<1>2. drain'.batch = drain.batch /\ drain'.jobs = drain.jobs
  BY <1>1, ScheduledTyped DEF Placed, OnePlace, PushTypeOK
<1>3. /\ drain'.phase # "looking" => drain.phase # "looking"
      /\ drain'.phase # "sending" => drain.phase # "sending"
  BY <1>1, ScheduledTyped DEF PushTypeOK
<1>4. NothingBeforeCommit'
  BY <1>1, <1>2 DEF Placed, NothingBeforeCommit
<1>5. AtMostOnce'
  BY <1>1, <1>2 DEF Placed, AtMostOnce, StagedAlone
<1>6. StagedAlone'
  BY <1>1, <1>2 DEF Placed, StagedAlone
<1>7. OnePlace'
  BY <1>1, <1>2, <1>3 DEF Placed, OnePlace, StagedAlone
<1> QED
  BY <1>4, <1>5, <1>6, <1>7 DEF Placed

LEMMA RollbackPlaced ==
  ASSUME PushTypeOK, Placed, NEW s \in Sessions, Rollback(s)
  PROVE  Placed'
<1>1. \A t \in Sessions : staged'[t] = IF t = s THEN {} ELSE staged[t]
  BY DEF Rollback, PushTypeOK
<1> QED
  BY <1>1 DEF Rollback, Placed, NothingBeforeCommit, AtMostOnce, StagedAlone, OnePlace

LEMMA WakePlaced ==
  ASSUME PushTypeOK, Placed, Wake
  PROVE  Placed'
<1>1. drain.batch = {} /\ drain.jobs = {}
  BY DEF Wake, Placed, OnePlace
<1>2. /\ drain'.batch = outbox /\ drain'.jobs = {} /\ outbox' = {}
      /\ drain'.phase # "looking" => drain'.batch = {}
      /\ staged' = staged /\ saved' = saved /\ sent' = sent
  BY DEF Wake, Looking, NoDrain
<1> QED
  BY <1>1, <1>2 DEF Placed, NothingBeforeCommit, AtMostOnce, StagedAlone, OnePlace

\* What a lookup turns into jobs was in the batch.
LEMMA LookPlaced ==
  ASSUME PushTypeOK, Placed, Look
  PROVE  Placed'
<1>1. drain'.batch = {} /\ drain'.jobs = Jobs /\ (drain'.phase # "sending" => drain'.jobs = {})
  BY DEF Look, SendingTo, NoDrain
<1>2. \A d \in Jobs : d[1] \in drain.batch
  BY DEF Jobs
<1>3. \A d \in sent : d \notin Jobs
  BY <1>2 DEF Placed, AtMostOnce
<1>4. \A d \in Jobs : d[1] \notin outbox
  BY <1>2 DEF Placed, OnePlace
<1> QED
  BY <1>1, <1>2, <1>3, <1>4 DEF Look, Placed, NothingBeforeCommit, AtMostOnce, StagedAlone, OnePlace

LEMMA SendPlaced ==
  ASSUME PushTypeOK, Placed, NEW p \in Pushes, NEW e \in Devices, NEW gone \in BOOLEAN,
         Send(p, e, gone)
  PROVE  Placed'
<1>1. /\ <<p, e>> \in drain.jobs /\ drain.batch = {} /\ drain.phase = "sending"
      /\ drain'.batch = {} /\ drain'.phase = "sending"
      /\ drain'.jobs = drain.jobs \ {<<p, e>>}
      /\ sent' = sent \cup {<<p, e>>}
      /\ staged' = staged /\ saved' = saved /\ outbox' = outbox
  BY DEF Send, SendingTo, Placed, OnePlace
<1>2. p \in saved /\ p \notin outbox
  BY <1>1 DEF Placed, NothingBeforeCommit, OnePlace
<1>3. \A s \in Sessions : p \notin staged[s]
  BY <1>1 DEF Placed, StagedAlone
<1> QED
  BY <1>1, <1>2, <1>3 DEF Placed, NothingBeforeCommit, AtMostOnce, StagedAlone, OnePlace

\* The drain ends, in one of its ways, with what it still held.
LEMMA EndPlaced ==
  ASSUME Placed, drain' = NoDrain, UNCHANGED <<staged, saved, outbox, sent>>
  PROVE  Placed'
<1>1. drain'.batch = {} /\ drain'.jobs = {}
  BY DEF NoDrain
<1> QED
  BY <1>1 DEF Placed, NothingBeforeCommit, AtMostOnce, StagedAlone, OnePlace

LEMMA RestartPlaced ==
  ASSUME Placed, NEW rekeyed \in BOOLEAN, Restart(rekeyed)
  PROVE  Placed'
<1>1. /\ drain'.batch = {} /\ drain'.jobs = {} /\ outbox' = {}
      /\ \A s \in Sessions : staged'[s] = {}
      /\ saved' = saved /\ sent' = sent
  BY DEF Restart, NoDrain
<1> QED
  BY <1>1 DEF Placed, NothingBeforeCommit, AtMostOnce, StagedAlone, OnePlace

\* Subscriptions decide what a lookup finds, and move no push.
LEMMA UntouchedPlaced ==
  ASSUME Placed, UNCHANGED <<staged, saved, outbox, drain, sent>>
  PROVE  Placed'
  BY DEF Placed, NothingBeforeCommit, AtMostOnce, StagedAlone, OnePlace

LEMMA StepPlaced == PushTypeOK /\ Placed /\ [PushNext]_pushVars => Placed'
<1> SUFFICES ASSUME PushTypeOK, Placed, [PushNext]_pushVars
             PROVE  Placed'
  OBVIOUS
<1>1. CASE UNCHANGED pushVars
  BY <1>1, UntouchedPlaced DEF pushVars
<1>2. CASE \E s \in Sessions, p \in Pushes, u \in Users : Notify(s, p, u)
  BY <1>2, NotifyPlaced
<1>3. CASE \E s \in Sessions : Commit(s) \/ Rollback(s)
  BY <1>3, CommitPlaced, RollbackPlaced
<1>4. CASE DrainStep
  <2>1. CASE LookFails
    BY <2>1, EndPlaced DEF LookFails
  <2>2. CASE \E succeeds \in BOOLEAN : Prune(succeeds)
    BY <2>2, EndPlaced DEF Prune
  <2> QED
    BY <1>4, <2>1, <2>2, WakePlaced, LookPlaced, SendPlaced DEF DrainStep
<1>5. CASE \E rekeyed \in BOOLEAN : Restart(rekeyed)
  BY <1>5, RestartPlaced
<1>6. CASE \E e \in Devices, u \in Users : Subscribe(e, u) \/ Unsubscribe(e, u)
  BY <1>6, UntouchedPlaced DEF Subscribe, Unsubscribe
<1>7. CASE \E old, new \in Devices : Rotate(old, new)
  BY <1>7, UntouchedPlaced DEF Rotate
<1> QED
  BY <1>1, <1>2, <1>3, <1>4, <1>5, <1>6, <1>7 DEF PushNext

-----------------------------------------------------------------------------
(* Theorems.                                                                *)

THEOREM SafeSteps == PushInit /\ [][PushNext]_pushVars => []PushInv
<1>1. PushInit => PushInv
  BY InitTyped, InitPlaced DEF PushInv
<1>2. PushInv /\ [PushNext]_pushVars => PushInv'
  BY StepTyped, StepPlaced DEF PushInv
<1> QED
  BY <1>1, <1>2, PTL

\* Every variable keeps its type, whatever sessions, drain and browsers do.
THEOREM PushTypeCorrect == PushSpec => []PushTypeOK
<1>1. PushInv => PushTypeOK
  BY DEF PushInv
<1> QED
  BY <1>1, SafeSteps, PTL DEF PushSpec

\* What is in the outbox, on its way or sent belongs to a committed row: no
\* push of a transaction that was rolled back or is still open.
THEOREM OnlyCommittedLeave == PushSpec => []NothingBeforeCommit
<1>1. PushInv => NothingBeforeCommit
  BY DEF PushInv, Placed
<1> QED
  BY <1>1, SafeSteps, PTL DEF PushSpec

\* What a device has been sent is nowhere on the way to it again.
THEOREM SentOnce == PushSpec => []AtMostOnce
<1>1. PushInv => AtMostOnce
  BY DEF PushInv, Placed
<1> QED
  BY <1>1, SafeSteps, PTL DEF PushSpec

-----------------------------------------------------------------------------
(* The refinement: each step is one of the promise's, or stutters.          *)

LEMMA InitPromised == PushInit => Promise!Init
  BY DEF PushInit, NoDrain, Promise!Init, Released

LEMMA NotifyRenews ==
  ASSUME PushInv, NEW s \in Sessions, NEW p \in Pushes, NEW u \in Users, Notify(s, p, u)
  PROVE  Promise!Renew(p)
<1>1. p \notin Released
  <2>1. \A d \in drain.jobs : d[2] \in Devices /\ d = <<d[1], d[2]>>
    BY DEF PushInv, PushTypeOK, Drain
  <2> QED
    BY <2>1 DEF Notify, InFlight, Released
<1>2. Released' = Released
  BY DEF Notify, Released
<1> QED
  BY <1>1, <1>2 DEF Notify, Promise!Renew

LEMMA CommitAnnounces ==
  ASSUME PushInv, NEW s \in Sessions, Commit(s)
  PROVE  Promise!Announce(staged[s])
<1>1. drain'.batch = drain.batch /\ drain'.jobs = drain.jobs
  BY ScheduledTyped DEF PushInv, Placed, OnePlace, PushTypeOK, Commit
<1>2. Released' = Released \cup staged[s]
  BY <1>1 DEF Commit, Released
<1>3. staged[s] \cap Released = {} /\ \A d \in sent : d[1] \notin staged[s]
  BY DEF PushInv, Placed, StagedAlone, Released
<1> QED
  BY <1>2, <1>3 DEF Commit, Promise!Announce

LEMMA WakeStutters ==
  ASSUME PushInv, Wake
  PROVE  Released' = Released /\ saved' = saved /\ sent' = sent
<1>1. drain.batch = {} /\ drain.jobs = {}
  BY DEF Wake, PushInv, Placed, OnePlace
<1>2. drain'.batch = outbox /\ drain'.jobs = {} /\ outbox' = {}
  BY DEF Wake, Looking, NoDrain
<1> QED
  BY <1>1, <1>2 DEF Wake, Released

\* Users without a subscription are given up.
LEMMA LookGivesUp ==
  ASSUME PushInv, Look
  PROVE  Promise!GiveUp(Released \ Released') /\ Released' \subseteq Released
<1>1. drain'.batch = {} /\ drain'.jobs = Jobs /\ outbox' = outbox
  BY DEF Look, SendingTo, NoDrain
<1>2. Released' \subseteq Released
  BY <1>1 DEF Jobs, Released
<1> QED
  BY <1>2 DEF Look, Promise!GiveUp

LEMMA SendDelivers ==
  ASSUME PushInv, NEW p \in Pushes, NEW e \in Devices, NEW gone \in BOOLEAN, Send(p, e, gone)
  PROVE  Promise!Deliver(p, e)
<1>1. /\ <<p, e>> \in drain.jobs /\ drain.batch = {} /\ drain'.batch = {}
      /\ drain'.jobs = drain.jobs \ {<<p, e>>} /\ outbox' = outbox
  BY DEF Send, SendingTo, PushInv, Placed, OnePlace
<1>2. p \in Released
  BY <1>1 DEF Released
<1>3. Released' \in {Released, Released \ {p}}
  <2>1. Released' \subseteq Released
    BY <1>1 DEF Released
  <2>2. ASSUME NEW q \in Released, q # p
        PROVE  q \in Released'
    BY <1>1, <2>2 DEF Released
  <2> QED
    BY <2>1, <2>2
<1>4. <<p, e>> \notin sent
  BY <1>1 DEF PushInv, Placed, AtMostOnce
<1> QED
  BY <1>2, <1>3, <1>4 DEF Send, Promise!Deliver

\* A drain or a worker that ends takes with it what it still held.
LEMMA EndGivesUp ==
  ASSUME drain' = NoDrain, outbox' \subseteq outbox, saved' = saved, sent' = sent
  PROVE  Promise!GiveUp(Released \ Released')
<1>1. Released' \subseteq Released
  BY DEF NoDrain, Released
<1> QED
  BY <1>1 DEF Promise!GiveUp

LEMMA StepPromised == PushInv /\ [PushNext]_pushVars => [Promise!Next]_(Promise!vars)
<1> SUFFICES ASSUME PushInv, [PushNext]_pushVars
             PROVE  Promise!Next \/ UNCHANGED Promise!vars
  OBVIOUS
<1> USE DEF Promise!vars
<1>1. Released \subseteq Pushes /\ \A s \in Sessions : staged[s] \subseteq Pushes
  BY DEF PushInv, PushTypeOK, Drain, Released
<1>2. ASSUME NEW ps, ps \subseteq Pushes, Promise!GiveUp(ps)
      PROVE  Promise!Next
  BY <1>2 DEF Promise!Next
<1>3. CASE UNCHANGED <<saved, outbox, drain, sent>>
  BY <1>3 DEF Released
<1>4. CASE \E s \in Sessions, p \in Pushes, u \in Users : Notify(s, p, u)
  BY <1>4, NotifyRenews DEF Promise!Next
<1>5. CASE \E s \in Sessions : Commit(s)
  BY <1>5, <1>1, CommitAnnounces DEF Promise!Next
<1>6. CASE DrainStep
  <2>1. CASE LookFails
    BY <2>1, <1>1, <1>2, EndGivesUp DEF LookFails
  <2>2. CASE \E succeeds \in BOOLEAN : Prune(succeeds)
    BY <2>2, <1>1, <1>2, EndGivesUp DEF Prune
  <2>3. CASE Wake
    BY <2>3, WakeStutters
  <2>4. CASE Look
    BY <2>4, <1>1, <1>2, LookGivesUp
  <2>5. CASE \E p \in Pushes, e \in Devices, gone \in BOOLEAN : Send(p, e, gone)
    BY <2>5, SendDelivers DEF Promise!Next
  <2> QED
    BY <1>6, <2>1, <2>2, <2>3, <2>4, <2>5 DEF DrainStep
<1>7. CASE \E rekeyed \in BOOLEAN : Restart(rekeyed)
  BY <1>7, <1>1, <1>2, EndGivesUp DEF Restart
<1> QED
  BY <1>3, <1>4, <1>5, <1>6, <1>7 DEF PushNext, pushVars, Rollback, Subscribe, Unsubscribe, Rotate

\* Sessions, outbox and drain implement the promise of the module's docstring:
\* nothing sets out before its commit and no device gets a push twice.
THEOREM PromiseKept == PushSpec => KeepsPromise
<1>1. PushInit => Promise!Init
  BY InitPromised
<1>2. PushInv /\ [PushNext]_pushVars => [Promise!Next]_(Promise!vars)
  BY StepPromised
<1> QED
  BY <1>1, <1>2, SafeSteps, PTL DEF PushSpec, KeepsPromise, Promise!Spec

-----------------------------------------------------------------------------
(* The licence chain: the invariant.                                        *)

\* A BFL is issued under a PPDL, for some litres.
RowsIssued ==
  \A b \in Bfls : InTable(b) => bfl[b].ppdl \in Ppdls /\ bfl[b].litres \in Litres

\* A request asks for no less than what it found drawn, and for no raise beyond
\* the balance it found; a new row is its own, and a row it edits is under the
\* same PPDL still or gone.
IssueMeant(q) ==
  LET w == issuing[q] IN
  w # NotIssuing =>
    /\ w.bfl \in Bfls /\ w.ppdl \in Ppdls /\ w.litres \in Litres
    /\ w.used <= w.litres
    /\ w.litres <= w.was \/ w.litres - w.was <= w.left
    /\ w.new => /\ w.was = 0 /\ ~InTable(w.bfl)
                /\ \A r \in Requests \ {q} : issuing[r].bfl # w.bfl
    /\ ~w.new => ~InTable(w.bfl) \/ bfl[w.bfl].ppdl = w.ppdl

\* Each line of a clearance form alone fits what it found left.
DrawdownsMeant(q) ==
  \A i \in DOMAIN clearing[q] : clearing[q][i].litres <= clearing[q][i].left

LicencesInv ==
  LicencesTypeOK /\ RowsIssued /\ \A q \in Requests : IssueMeant(q) /\ DrawdownsMeant(q)

\* What licence_service does to its own tables.
LicencesStep ==
  LicencesNext \/ \E q \in Requests, c \in Clearances : CommitClearance(q, c)

LEMMA StepIsLicences == [Next]_vars => [LicencesStep]_licenceVars
<1> SUFFICES ASSUME [Next]_vars, ~UNCHANGED licenceVars
             PROVE  LicencesStep
  OBVIOUS
<1>1. ASSUME NEW q \in Requests, NEW c \in Clearances, NEW vs \in SUBSET Vessels,
             CreateNavalClearance(q, c, vs)
      PROVE  LicencesStep
  BY <1>1 DEF CreateNavalClearance, LicencesStep
<1>2. NoticesNext => UNCHANGED licenceVars
  BY DEF NoticesNext, SoftDeleteOperation, AddVessel, LinkNavalClearance, UnlinkNavalClearance,
         SetEta, BeginRemoveVessel, CommitRemoveVessel, QueueClientNotification, BeginReview,
         CommitReview, BeginSend, SendOne, CommitSend, RefuseSend, LoseCommit
<1> QED
  BY <1>1, <1>2 DEF Next, vars, LicencesStep

-----------------------------------------------------------------------------
(* The sums of the licence chain.                                           *)

LEMMA LitresAreNat == Litres \subseteq 0..MaxLitres /\ Litres \subseteq Nat /\ 0 \in 0..MaxLitres
  BY LicencesAssumption DEF Litres

LEMMA LitreIsInt ==
  ASSUME NEW n \in Litres
  PROVE  n \in Nat /\ n \in Int
  BY LitresAreNat

\* What has been drawn from a BFL, and what is left of it, before and after a step.
LEMMA UsedIsTotal ==
  ASSUME NEW b
  PROVE  /\ Used(b) = Total(ColumnOf(drawn, Clearances, b), Clearances)
         /\ Used(b)' = Total(ColumnOf(drawn', Clearances, b), Clearances)
         /\ Left(b) = bfl[b].litres - Used(b)
         /\ Left(b)' = bfl'[b].litres - Used(b)'
<1>0. IsFiniteSet(Clearances) /\ Clearances \in SUBSET Clearances
  BY LicencesAssumption DEF LicencesAssumption
<1>1. Used(b) = Total(ColumnOf(drawn, Clearances, b), Clearances)
  BY <1>0, ColumnAddsUp DEF Used
<1>2. Used(b)' = MapThenSumSet(LAMBDA c : drawn'[c][b], Clearances)
  BY DEF Used, MapThenSumSet, MapThenFoldSet
<1>3. Used(b)' = Total(ColumnOf(drawn', Clearances, b), Clearances)
  BY <1>0, <1>2, ColumnAddsUp
<1> QED
  BY <1>1, <1>3 DEF Left

\* What is issued under a PPDL, before and after a step.
LEMMA BalanceIsTotal ==
  ASSUME NEW p
  PROVE  /\ Balance(p) = allowance[p] - Total(LitresOf(bfl, Bfls), Under(p))
         /\ Balance(p)' = allowance'[p] - Total(LitresOf(bfl', Bfls), Under(p)')
<1>0. IsFiniteSet(Bfls) /\ Under(p) \in SUBSET Bfls /\ Under(p)' \in SUBSET Bfls
  BY LicencesAssumption DEF LicencesAssumption, Under
<1>1. Balance(p) = allowance[p] - Total(LitresOf(bfl, Bfls), Under(p))
  BY <1>0, LitresAddUp DEF Balance
<1>2. Balance(p)' = allowance'[p] - MapThenSumSet(LAMBDA b : bfl'[b].litres, Under(p)')
  BY DEF Balance, MapThenSumSet, MapThenFoldSet
<1>3. Balance(p)' = allowance'[p] - Total(LitresOf(bfl', Bfls), Under(p)')
  BY <1>0, <1>2, LitresAddUp
<1> QED
  BY <1>1, <1>3

LEMMA PiecesFinite ==
  ASSUME LicencesTypeOK, NEW q \in Requests, NEW b
  PROVE  /\ IsFiniteSet(DOMAIN clearing[q]) /\ IsFiniteSet(Pieces(q, b))
         /\ Pieces(q, b) \in SUBSET DOMAIN clearing[q]
         /\ \A i \in DOMAIN clearing[q] : clearing[q][i] \in Drawdown
<1>1. clearing[q] \in Seq(Drawdown)
  BY DEF LicencesTypeOK
<1>2. DOMAIN clearing[q] = 1..Len(clearing[q]) /\ Len(clearing[q]) \in Nat
  <2>1. PICK s \in Seq(Drawdown) : s = clearing[q]
    BY <1>1
  <2>2. DOMAIN s = 1..Len(s) /\ Len(s) \in Nat
    BY <2>1
  <2> QED
    BY <2>1, <2>2
<1>3. IsFiniteSet(DOMAIN clearing[q])
  <2>1. PICK n \in Nat : DOMAIN clearing[q] = 1..n
    BY <1>2
  <2>2. IsFiniteSet(1..n)
    BY FS_Interval
  <2> QED
    BY <2>1, <2>2
<1>4. Pieces(q, b) \in SUBSET DOMAIN clearing[q]
  BY DEF Pieces
<1>5. ASSUME NEW i \in DOMAIN clearing[q] PROVE clearing[q][i] \in Drawdown
  <2>1. PICK s \in Seq(Drawdown) : s = clearing[q]
    BY <1>1
  <2>2. i \in 1..Len(s)
    BY <1>2, <2>1
  <2>3. s[i] \in Drawdown
    BY <2>2
  <2> QED
    BY <2>1, <2>3
<1> QED
  BY <1>3, <1>4, <1>5, FS_Subset

LEMMA AskedTyped ==
  ASSUME LicencesTypeOK, NEW q \in Requests, NEW b
  PROVE  /\ Asked(q, b) \in Nat
         /\ Pieces(q, b) = {} => Asked(q, b) = 0
         /\ \A i \in Pieces(q, b) :
              Cardinality(Pieces(q, b)) <= 1 => Asked(q, b) = clearing[q][i].litres
<1> DEFINE D == DOMAIN clearing[q]
           S == Pieces(q, b)
           f == LitresOf(clearing[q], D)
<1>1. /\ IsFiniteSet(D) /\ IsFiniteSet(S) /\ S \in SUBSET D
      /\ \A i \in D : clearing[q][i] \in Drawdown
  BY PiecesFinite
<1>2. Asked(q, b) = Total(f, S)
  BY <1>1, LitresAddUp DEF Asked
<1>3. \A i \in S : f[i] \in Nat /\ f[i] \in Int /\ f[i] = clearing[q][i].litres
  <2> SUFFICES ASSUME NEW i \in S
               PROVE  f[i] \in Nat /\ f[i] \in Int /\ f[i] = clearing[q][i].litres
    OBVIOUS
  <2>1. i \in D /\ clearing[q][i] \in Drawdown
    BY <1>1
  <2>2. f[i] = clearing[q][i].litres
    BY <2>1 DEF LitresOf
  <2>3. clearing[q][i].litres \in Nat
    BY <2>1, LitresAreNat DEF Drawdown
  <2> QED
    BY <2>2, <2>3
<1> HIDE DEF S, f, D
<1>4. Total(f, S) \in Nat
  BY <1>1, <1>3, TotalNat
<1>5. S = {} => Total(f, S) = 0
  BY TotalEmpty
<1>6. ASSUME NEW i \in S, Cardinality(S) <= 1
      PROVE  Total(f, S) = clearing[q][i].litres
  <2>1. S = {i}
    <3>1. Cardinality(S) \in Nat /\ Cardinality(S \ {i}) \in Nat /\ IsFiniteSet(S \ {i})
      BY <1>1, FS_CardinalityType, FS_RemoveElement
    <3>2. Cardinality(S \ {i}) = Cardinality(S) - 1
      BY <1>1, <1>6, FS_RemoveElement
    <3>3. Cardinality(S \ {i}) = 0
      BY <1>6, <3>1, <3>2
    <3>4. S \ {i} = {}
      BY <3>1, <3>3, FS_EmptySet
    <3> QED
      BY <1>6, <3>4
  <2>2. S \ {i} = {}
    BY <2>1
  <2>3. Total(f, S) = f[i] + Total(f, S \ {i})
    BY <1>1, <1>3, <1>6, TotalRemove
  <2>4. Total(f, S \ {i}) = 0
    BY <2>2, TotalEmpty
  <2> QED
    BY <1>3, <1>6, <2>3, <2>4
<1>7. Asked(q, b) \in Nat /\ (S = {} => Asked(q, b) = 0)
      /\ \A i \in S : Cardinality(S) <= 1 => Asked(q, b) = clearing[q][i].litres
  BY <1>2, <1>4, <1>5, <1>6
<1> QED
  BY <1>7 DEF S

LEMMA UsedTyped ==
  ASSUME LicencesTypeOK, NEW b \in Bfls
  PROVE  Used(b) \in Nat /\ Left(b) \in Int
<1> DEFINE f == ColumnOf(drawn, Clearances, b)
<1>1. \A c \in Clearances : f[c] \in Nat
  BY DEF ColumnOf, LicencesTypeOK
<1>2. IsFiniteSet(Clearances)
  BY LicencesAssumption DEF LicencesAssumption
<1>3. Used(b) = Total(f, Clearances) /\ Left(b) = bfl[b].litres - Used(b)
  BY UsedIsTotal
<1>4. bfl[b].litres \in 0..MaxLitres
  BY DEF LicencesTypeOK, Bfl
<1> HIDE DEF f
<1>5. Total(f, Clearances) \in Nat
  BY <1>1, <1>2, TotalNat
<1> QED
  BY <1>3, <1>4, <1>5

LEMMA BalanceTyped ==
  ASSUME LicencesTypeOK, NEW p \in Ppdls
  PROVE  Balance(p) \in Int
<1> DEFINE f == LitresOf(bfl, Bfls)
           S == Under(p)
<1>1. IsFiniteSet(S) /\ \A b \in S : f[b] \in Int
  <2>1. S \in SUBSET Bfls
    BY DEF Under
  <2>2. \A b \in Bfls : f[b] \in Int
    BY DEF LitresOf, LicencesTypeOK, Bfl
  <2> QED
    BY <2>1, <2>2, LicencesAssumption, FS_Subset DEF LicencesAssumption
<1>2. Balance(p) = allowance[p] - Total(f, S)
  BY BalanceIsTotal
<1>3. allowance[p] \in 0..MaxLitres
  BY DEF LicencesTypeOK
<1> HIDE DEF f, S
<1>4. Total(f, S) \in Int
  BY <1>1, TotalType
<1> QED
  BY <1>2, <1>3, <1>4

-----------------------------------------------------------------------------
(* The licence chain: one lemma per handler.                                *)

LEMMA NotIssuingTyped == NotIssuing \in Issuing /\ NoRow \in Bfl
  BY LitresAreNat DEF NotIssuing, Issuing, NoRow, Bfl

\* What the invariant says of the BFLs and the requests on them.
IssueInv == RowsIssued /\ \A q \in Requests : IssueMeant(q)

LEMMA IssuesStay ==
  ASSUME IssueInv, UNCHANGED <<bfl, issuing>>
  PROVE  IssueInv'
  BY DEF IssueInv, RowsIssued, IssueMeant, InTable

LEMMA DrawdownsStay ==
  ASSUME NEW q \in Requests, DrawdownsMeant(q), clearing'[q] = clearing[q]
  PROVE  DrawdownsMeant(q)'
  BY DEF DrawdownsMeant

\* A request takes up a BFL it may have.
LEMMA TakesUp ==
  ASSUME LicencesTypeOK, IssueInv, NEW q \in Requests, NEW w \in Issuing,
         issuing' = [issuing EXCEPT ![q] = w], bfl' = bfl,
         w.bfl \in Bfls, w.ppdl \in Ppdls, w.litres \in Litres, w.used <= w.litres,
         w.litres <= w.was \/ w.litres - w.was <= w.left,
         w.new => /\ w.was = 0 /\ ~InTable(w.bfl)
                  /\ \A r \in Requests : issuing[r].bfl # w.bfl,
         ~w.new => InTable(w.bfl) /\ bfl[w.bfl].ppdl = w.ppdl
  PROVE  issuing' \in [Requests -> Issuing] /\ IssueInv'
<1>1. /\ issuing' \in [Requests -> Issuing]
      /\ \A r \in Requests : issuing'[r] = IF r = q THEN w ELSE issuing[r]
  BY DEF LicencesTypeOK
<1>2. RowsIssued'
  BY DEF IssueInv, RowsIssued, InTable
<1>3. ASSUME NEW r \in Requests PROVE IssueMeant(r)'
  <2>1. CASE r = q
    BY <1>1, <2>1 DEF IssueMeant, InTable
  <2>2. CASE r # q
    <3>1. issuing'[r] = issuing[r] /\ IssueMeant(r)
      BY <1>1, <2>2 DEF IssueInv
    <3>2. ASSUME issuing[r] # NotIssuing, issuing[r].new
          PROVE  w.bfl # issuing[r].bfl
      <4>1. ~InTable(issuing[r].bfl)
        BY <3>1, <3>2 DEF IssueMeant
      <4>2. CASE w.new
        BY <4>2
      <4>3. CASE ~w.new
        BY <4>1, <4>3
      <4> QED
        BY <4>2, <4>3
    <3> QED
      BY <1>1, <3>1, <3>2 DEF IssueMeant, InTable
  <2> QED
    BY <2>1, <2>2
<1> QED
  BY <1>1, <1>2, <1>3 DEF IssueInv

LEMMA BeginCreateFacts ==
  ASSUME LicencesInv, NEW q \in Requests, NEW b \in Bfls, NEW litres \in Litres,
         BeginCreateBfl(q, b, litres)
  PROVE  LicencesInv'
<1> DEFINE w == [bfl |-> b, ppdl |-> current, litres |-> litres, new |-> TRUE,
                 was |-> 0, left |-> Balance(current), used |-> 0]
<1>1. /\ issuing' = [issuing EXCEPT ![q] = w] /\ litres <= Balance(current)
      /\ UNCHANGED <<allowance, current, bfl, drawn, clearing>>
      /\ ~InTable(b) /\ \A r \in Requests : issuing[r].bfl # b
  BY DEF BeginCreateBfl
<1>2. current \in Ppdls
  BY DEF BeginCreateBfl, LicencesInv, LicencesTypeOK
<1>3. Balance(current) \in Int /\ litres \in Nat /\ litres \in 0..MaxLitres /\ 0 \in 0..MaxLitres
  BY <1>2, BalanceTyped, LitresAreNat DEF LicencesInv
<1>4. w \in Issuing
  BY <1>2, <1>3 DEF Issuing
<1>5. /\ w.bfl = b /\ w.ppdl = current /\ w.litres = litres /\ w.new /\ w.was = 0
      /\ w.left = Balance(current) /\ w.used = 0
  OBVIOUS
<1> HIDE DEF w
<1>6. /\ w.used <= w.litres /\ w.litres - w.was <= w.left
      /\ w.bfl \in Bfls /\ w.ppdl \in Ppdls /\ w.litres \in Litres
      /\ ~InTable(w.bfl) /\ \A r \in Requests : issuing[r].bfl # w.bfl
  BY <1>1, <1>2, <1>3, <1>5
<1>7. LicencesTypeOK /\ IssueInv /\ bfl' = bfl
  BY <1>1 DEF LicencesInv, IssueInv
<1>8. issuing' \in [Requests -> Issuing] /\ IssueInv'
  BY <1>1, <1>4, <1>5, <1>6, <1>7, TakesUp
<1> QED
  BY <1>1, <1>8, DrawdownsStay DEF LicencesInv, LicencesTypeOK, IssueInv

LEMMA BeginUpdateBflFacts ==
  ASSUME LicencesInv, NEW q \in Requests, NEW b \in Bfls, NEW litres \in Litres,
         BeginUpdateBfl(q, b, litres)
  PROVE  LicencesInv'
<1> DEFINE w == [bfl |-> b, ppdl |-> bfl[b].ppdl, litres |-> litres, new |-> FALSE,
                 was |-> bfl[b].litres, left |-> Balance(bfl[b].ppdl), used |-> Used(b)]
<1>1. /\ issuing' = [issuing EXCEPT ![q] = w] /\ InTable(b)
      /\ UNCHANGED <<allowance, current, bfl, drawn, clearing>>
      /\ litres >= Used(b)
      /\ litres > bfl[b].litres => litres - bfl[b].litres <= Balance(bfl[b].ppdl)
  BY DEF BeginUpdateBfl, MayBecome
<1>2. bfl[b].ppdl \in Ppdls /\ bfl[b].litres \in 0..MaxLitres
  BY <1>1 DEF LicencesInv, LicencesTypeOK, RowsIssued, Bfl
<1>3. /\ Balance(bfl[b].ppdl) \in Int /\ Used(b) \in Int
      /\ litres \in 0..MaxLitres /\ litres \in Int /\ bfl[b].litres \in Int
  BY <1>2, BalanceTyped, UsedTyped, LitresAreNat DEF LicencesInv
<1>4. w \in Issuing
  BY <1>2, <1>3 DEF Issuing
<1>5. /\ w.bfl = b /\ w.ppdl = bfl[b].ppdl /\ w.litres = litres /\ ~w.new
      /\ w.was = bfl[b].litres /\ w.left = Balance(bfl[b].ppdl) /\ w.used = Used(b)
  OBVIOUS
<1>6. w.used <= w.litres /\ (w.litres <= w.was \/ w.litres - w.was <= w.left)
  BY <1>1, <1>3
<1> HIDE DEF w
<1>7. issuing' \in [Requests -> Issuing] /\ IssueInv'
  BY <1>1, <1>2, <1>4, <1>5, <1>6, TakesUp DEF LicencesInv, IssueInv
<1> QED
  BY <1>1, <1>7, DrawdownsStay DEF LicencesInv, LicencesTypeOK, IssueInv

\* What a request that takes effect on a BFL has asked for.
LEMMA CommitBflFacts ==
  ASSUME LicencesInv, NEW q \in Requests, CommitBfl(q)
  PROVE  LET w == issuing[q] IN
         /\ w.bfl \in Bfls /\ w.ppdl \in Ppdls /\ w.litres \in Litres
         /\ w.used <= w.litres
         /\ w.litres <= w.was \/ w.litres - w.was <= w.left
         /\ w.new => /\ w.was = 0 /\ ~InTable(w.bfl)
                     /\ \A r \in Requests \ {q} : issuing[r].bfl # w.bfl
         /\ ~w.new => ~InTable(w.bfl) \/ bfl[w.bfl].ppdl = w.ppdl
         /\ w.was \in Int /\ w.left \in Int /\ w.used \in Int
         /\ issuing' \in [Requests -> Issuing] /\ issuing'[q] = NotIssuing
         /\ \A r \in Requests \ {q} : issuing'[r] = issuing[r]
         /\ bfl' \in [Bfls -> Bfl]
         /\ \A b \in Bfls \ {w.bfl} : bfl'[b] = bfl[b]
         /\ IF w.new \/ InTable(w.bfl)
              THEN bfl'[w.bfl] = [ppdl |-> w.ppdl, litres |-> w.litres]
              ELSE bfl' = bfl
<1> DEFINE w == issuing[q]
           row == [ppdl |-> w.ppdl, litres |-> w.litres]
<1>1. w # NotIssuing /\ IssueMeant(q)
  BY DEF CommitBfl, LicencesInv
<1>2. /\ w.was \in Int /\ w.left \in Int /\ w.used \in Int
  BY LicencesAssumption DEF LicencesInv, LicencesTypeOK, Issuing
<1>3. /\ issuing' \in [Requests -> Issuing] /\ issuing'[q] = NotIssuing
      /\ \A r \in Requests \ {q} : issuing'[r] = issuing[r]
  BY NotIssuingTyped DEF CommitBfl, LicencesInv, LicencesTypeOK
<1>4. /\ w.bfl \in Bfls /\ row \in Bfl
  BY <1>1, LitresAreNat DEF IssueMeant, Bfl
<1>5. bfl' = IF w.new \/ InTable(w.bfl) THEN [bfl EXCEPT ![w.bfl] = row] ELSE bfl
  BY DEF CommitBfl
<1>6. bfl \in [Bfls -> Bfl]
  BY DEF LicencesInv, LicencesTypeOK
<1>7. /\ bfl' \in [Bfls -> Bfl]
      /\ \A b \in Bfls \ {w.bfl} : bfl'[b] = bfl[b]
      /\ IF w.new \/ InTable(w.bfl) THEN bfl'[w.bfl] = row ELSE bfl' = bfl
  <2> HIDE DEF row, w
  <2> QED
    BY <1>4, <1>5, <1>6
<1> QED
  BY <1>1, <1>2, <1>3, <1>7 DEF IssueMeant

LEMMA CommitBflKeeps ==
  ASSUME LicencesInv, NEW q \in Requests, CommitBfl(q)
  PROVE  LicencesInv'
<1> DEFINE w == issuing[q]
           row == [ppdl |-> w.ppdl, litres |-> w.litres]
<1>1. UNCHANGED <<allowance, current, drawn, clearing>>
  BY DEF CommitBfl
<1>2. /\ w.bfl \in Bfls /\ w.ppdl \in Ppdls /\ w.litres \in Litres
      /\ w.new => /\ ~InTable(w.bfl)
                  /\ \A r \in Requests \ {q} : issuing[r].bfl # w.bfl
      /\ ~w.new => ~InTable(w.bfl) \/ bfl[w.bfl].ppdl = w.ppdl
      /\ issuing' \in [Requests -> Issuing] /\ issuing'[q] = NotIssuing
      /\ \A r \in Requests \ {q} : issuing'[r] = issuing[r]
      /\ bfl' \in [Bfls -> Bfl]
      /\ \A b \in Bfls \ {w.bfl} : bfl'[b] = bfl[b]
      /\ IF w.new \/ InTable(w.bfl) THEN bfl'[w.bfl] = row ELSE bfl' = bfl
  BY CommitBflFacts
<1>3. row.ppdl = w.ppdl /\ row.litres = w.litres
  OBVIOUS
<1> HIDE DEF w, row
<1>4. RowsIssued'
  BY <1>2, <1>3 DEF LicencesInv, RowsIssued, InTable
<1>5. ASSUME NEW r \in Requests PROVE IssueMeant(r)'
  <2>1. CASE r = q
    BY <1>2, <2>1 DEF IssueMeant
  <2>2. CASE r # q
    <3>1. issuing'[r] = issuing[r] /\ IssueMeant(r)
      BY <1>2, <2>2 DEF LicencesInv
    <3>2. \A p \in Requests : issuing'[p].bfl = issuing[p].bfl \/ issuing'[p].bfl \notin Bfls
      BY <1>2, LicencesAssumption DEF NotIssuing, LicencesAssumption
    <3>3. ASSUME issuing[r] # NotIssuing, issuing[r].new
          PROVE  bfl'[issuing[r].bfl] = bfl[issuing[r].bfl]
      <4>1. q \in Requests \ {r} /\ issuing[q].bfl # issuing[r].bfl /\ issuing[r].bfl \in Bfls
        BY <2>2, <3>1, <3>3 DEF IssueMeant
      <4> QED
        BY <1>2, <4>1 DEF w
    <3>4. ASSUME issuing[r] # NotIssuing, ~issuing[r].new
          PROVE  LET v == issuing[r] IN
                 bfl'[v.bfl] = NoRow \/ bfl'[v.bfl].ppdl = v.ppdl
      <4>0. issuing[r].bfl \in Bfls
            /\ (bfl[issuing[r].bfl] = NoRow \/ bfl[issuing[r].bfl].ppdl = issuing[r].ppdl)
        BY <3>1, <3>4 DEF IssueMeant, InTable
      <4>1. CASE issuing[r].bfl # w.bfl
        BY <1>2, <4>0, <4>1
      <4>2. CASE issuing[r].bfl = w.bfl
        <5>1. ~w.new
          BY <1>2, <2>2, <4>2
        <5>2. CASE InTable(w.bfl)
          BY <1>2, <1>3, <4>0, <4>2, <5>1, <5>2 DEF InTable
        <5>3. CASE ~InTable(w.bfl)
          BY <1>2, <4>0, <4>2, <5>1, <5>3 DEF InTable
        <5> QED
          BY <5>2, <5>3
      <4> QED
        BY <4>1, <4>2
    <3> QED
      BY <3>1, <3>2, <3>3, <3>4 DEF IssueMeant, InTable
  <2> QED
    BY <2>1, <2>2
<1> QED
  BY <1>1, <1>2, <1>4, <1>5, DrawdownsStay DEF LicencesInv, LicencesTypeOK

LEMMA DeleteBflFacts ==
  ASSUME LicencesInv, NEW b \in Bfls, DeleteBfl(b)
  PROVE  LicencesInv'
<1>1. /\ bfl' = [bfl EXCEPT ![b] = NoRow]
      /\ UNCHANGED <<allowance, current, drawn, issuing, clearing>>
  BY DEF DeleteBfl
<1>2. bfl' \in [Bfls -> Bfl] /\ \A x \in Bfls : bfl'[x] = bfl[x] \/ bfl'[x] = NoRow
  BY <1>1, NotIssuingTyped DEF LicencesInv, LicencesTypeOK
<1>3. RowsIssued'
  BY <1>2 DEF LicencesInv, RowsIssued, InTable
<1>4. ASSUME NEW r \in Requests PROVE IssueMeant(r)'
  BY <1>1, <1>2 DEF LicencesInv, IssueMeant, InTable
<1> QED
  BY <1>1, <1>2, <1>3, <1>4, DrawdownsStay DEF LicencesInv, LicencesTypeOK

LEMMA CheckDrawdownFacts ==
  ASSUME LicencesInv, NEW q \in Requests, NEW b \in Bfls, NEW litres \in Litres,
         CheckDrawdown(q, b, litres)
  PROVE  LicencesInv'
<1> DEFINE line == [bfl |-> b, litres |-> litres, left |-> Left(b)]
<1>1. /\ clearing' = [clearing EXCEPT ![q] = Append(clearing[q], line)]
      /\ litres <= Left(b)
      /\ UNCHANGED <<allowance, current, bfl, drawn, issuing>>
  BY DEF CheckDrawdown, Grants
<1>2. line \in Drawdown /\ line.litres <= line.left
  BY <1>1, UsedTyped DEF Drawdown, LicencesInv
<1> HIDE DEF line
<1>3. clearing \in [Requests -> Seq(Drawdown)]
  BY DEF LicencesInv, LicencesTypeOK
<1>4. PICK old \in Seq(Drawdown) : old = clearing[q]
  BY <1>3
<1>5. Append(old, line) \in Seq(Drawdown)
  BY <1>2
<1>6. /\ clearing' \in [Requests -> Seq(Drawdown)]
      /\ \A r \in Requests : clearing'[r] = IF r = q THEN Append(old, line) ELSE clearing[r]
  BY <1>1, <1>3, <1>4, <1>5
<1>7. ASSUME NEW r \in Requests PROVE DrawdownsMeant(r)'
  <2>1. CASE r = q
    <3>1. \A i \in DOMAIN old : old[i].litres <= old[i].left
      BY <1>4 DEF LicencesInv, DrawdownsMeant
    <3>2. \A i \in DOMAIN Append(old, line) :
            Append(old, line)[i] = line \/ (i \in DOMAIN old /\ Append(old, line)[i] = old[i])
      BY <1>2
    <3>3. \A i \in DOMAIN Append(old, line) :
            Append(old, line)[i].litres <= Append(old, line)[i].left
      BY <1>2, <3>1, <3>2
    <3> QED
      BY <1>6, <2>1, <3>3 DEF DrawdownsMeant
  <2>2. CASE r # q
    BY <1>6, <2>2, DrawdownsStay DEF LicencesInv
  <2> QED
    BY <2>1, <2>2
<1>8. IssueInv'
  BY <1>1, IssuesStay DEF LicencesInv, IssueInv
<1> QED
  BY <1>1, <1>6, <1>7, <1>8 DEF LicencesInv, LicencesTypeOK, IssueInv

LEMMA ClearingEnds ==
  ASSUME LicencesInv, NEW q \in Requests, clearing' = [clearing EXCEPT ![q] = <<>>]
  PROVE  /\ clearing' \in [Requests -> Seq(Drawdown)]
         /\ \A r \in Requests : DrawdownsMeant(r)'
<1>1. clearing' \in [Requests -> Seq(Drawdown)]
  BY DEF LicencesInv, LicencesTypeOK
<1>2. ASSUME NEW r \in Requests PROVE DrawdownsMeant(r)'
  <2>1. CASE r = q
    <3>1. clearing'[r] = <<>>
      BY <2>1 DEF LicencesInv, LicencesTypeOK
    <3> QED
      BY <3>1 DEF DrawdownsMeant
  <2>2. CASE r # q
    <3>1. clearing'[r] = clearing[r]
      BY <2>2 DEF LicencesInv, LicencesTypeOK
    <3> QED
      BY <3>1, DrawdownsStay DEF LicencesInv
  <2> QED
    BY <2>1, <2>2
<1> QED
  BY <1>1, <1>2

\* A clearance adds what its form asks to what has been drawn.
LEMMA CommitClearanceFacts ==
  ASSUME LicencesInv, NEW q \in Requests, NEW c \in Clearances, CommitClearance(q, c)
  PROVE  /\ LicencesInv'
         /\ \A b \in Bfls : Used(b)' = Used(b) + Asked(q, b)
<1>1. /\ drawn' = [drawn EXCEPT ![c] = [b \in Bfls |-> Asked(q, b)]]
      /\ clearing' = [clearing EXCEPT ![q] = <<>>]
      /\ UNCHANGED <<allowance, current, bfl, issuing>>
      /\ \A b \in Bfls : drawn[c][b] = 0
  BY DEF CommitClearance
<1>2. \A b \in Bfls : Asked(q, b) \in Nat
  BY AskedTyped DEF LicencesInv
<1>3. drawn \in [Clearances -> [Bfls -> Nat]]
  BY DEF LicencesInv, LicencesTypeOK
<1>4. drawn' \in [Clearances -> [Bfls -> Nat]]
  BY <1>1, <1>2, <1>3
<1>5. LicencesInv'
  <2>1. IssueInv'
    BY <1>1, IssuesStay DEF LicencesInv, IssueInv
  <2> QED
    BY <1>1, <1>4, <2>1, ClearingEnds DEF LicencesInv, LicencesTypeOK, IssueInv
<1>6. ASSUME NEW b \in Bfls
      PROVE  Used(b)' = Used(b) + Asked(q, b)
  <2> DEFINE f == ColumnOf(drawn, Clearances, b)
             g == ColumnOf(drawn', Clearances, b)
  <2>1. /\ \A x \in Clearances : f[x] \in Int /\ g[x] \in Int
        /\ \A x \in Clearances \ {c} : f[x] = g[x]
    BY <1>1, <1>3, <1>4 DEF ColumnOf
  <2>2. f[c] = 0 /\ g[c] = Asked(q, b)
    BY <1>1, <1>3 DEF ColumnOf
  <2>3. Used(b) = Total(f, Clearances) /\ Used(b)' = Total(g, Clearances)
    BY UsedIsTotal
  <2>4. IsFiniteSet(Clearances)
    BY LicencesAssumption DEF LicencesAssumption
  <2> HIDE DEF f, g
  <2>5. Total(g, Clearances) = Total(f, Clearances) + g[c] - f[c]
    BY <2>1, <2>4, TotalChange
  <2>6. Total(f, Clearances) \in Int
    BY <2>1, <2>4, TotalType
  <2> QED
    BY <1>2, <2>2, <2>3, <2>5, <2>6
<1> QED
  BY <1>5, <1>6

LEMMA StepLicences == LicencesInv /\ [LicencesStep]_licenceVars => LicencesInv'
<1> SUFFICES ASSUME LicencesInv, [LicencesStep]_licenceVars
             PROVE  LicencesInv'
  OBVIOUS
<1>1. CASE UNCHANGED licenceVars
  <2>1. IssueInv'
    BY <1>1, IssuesStay DEF LicencesInv, IssueInv, licenceVars
  <2> QED
    BY <1>1, <2>1, DrawdownsStay DEF LicencesInv, LicencesTypeOK, IssueInv, licenceVars
<1>2. ASSUME NEW p \in Ppdls, NEW litres \in Litres,
             CreatePpdl(p, litres) \/ UpdateProductQuantity(p, litres)
      PROVE  LicencesInv'
  <2>1. /\ UNCHANGED <<bfl, drawn, issuing, clearing>>
        /\ allowance' = [allowance EXCEPT ![p] = litres] /\ current' \in {current, p}
    BY <1>2 DEF CreatePpdl, UpdateProductQuantity
  <2>2. litres \in 0..MaxLitres
    BY LitresAreNat
  <2>3. IssueInv'
    BY <2>1, IssuesStay DEF LicencesInv, IssueInv
  <2>4. LicencesTypeOK'
    BY <2>1, <2>2 DEF LicencesInv, LicencesTypeOK
  <2> QED
    BY <2>1, <2>3, <2>4, DrawdownsStay DEF LicencesInv, IssueInv
<1>3. ASSUME NEW q \in Requests, RefuseClearance(q)
      PROVE  LicencesInv'
  <2>1. IssueInv'
    BY <1>3, IssuesStay DEF RefuseClearance, LicencesInv, IssueInv
  <2> QED
    BY <1>3, <2>1, ClearingEnds DEF RefuseClearance, LicencesInv, LicencesTypeOK, IssueInv
<1> QED
  BY <1>1, <1>2, <1>3, BeginCreateFacts, BeginUpdateBflFacts, CommitBflKeeps, DeleteBflFacts,
     CheckDrawdownFacts, CommitClearanceFacts DEF LicencesStep, LicencesNext

LEMMA InitLicences == LicencesInit => LicencesInv
<1> SUFFICES ASSUME LicencesInit
             PROVE  LicencesInv
  OBVIOUS
<1>1. LicencesTypeOK
  <2>1. clearing \in [Requests -> Seq(Drawdown)]
    BY DEF LicencesInit
  <2> QED
    BY <2>1, NotIssuingTyped, LitresAreNat DEF LicencesInit, LicencesTypeOK
<1>2. RowsIssued /\ \A q \in Requests : IssueMeant(q) /\ DrawdownsMeant(q)
  BY DEF LicencesInit, RowsIssued, InTable, IssueMeant, DrawdownsMeant
<1> QED
  BY <1>1, <1>2 DEF LicencesInv

\* Every request on a licence asks for what it may have by the figures it read:
\* the invariant of the licence chain, whatever the notices do beside it.
THEOREM LicencesSafe == Spec => []LicencesInv
<1>1. LicencesInv /\ [Next]_vars => LicencesInv'
  BY StepIsLicences, StepLicences
<1> QED
  BY <1>1, InitLicences, PTL DEF Spec, Init

-----------------------------------------------------------------------------
(* A BFL is overdrawn, a PPDL overissued.                                   *)

\* A clearance whose lines each fit what is left still fits it, unless one form
\* names the BFL twice.
LEMMA ClearanceFits ==
  ASSUME LicencesInv, NEW q \in Requests, NEW c \in Clearances, CommitClearance(q, c),
         NEW b \in Bfls, Left(b) >= 0, Left(b)' < 0
  PROVE  /\ clearing[q] # <<>> /\ clearing'[q] = <<>>
         /\ \/ Cardinality(Pieces(q, b)) > 1
            \/ \E i \in Pieces(q, b) : clearing[q][i].left # Left(b)
<1>1. /\ clearing[q] # <<>> /\ clearing'[q] = <<>> /\ bfl' = bfl
  BY DEF CommitClearance, LicencesInv, LicencesTypeOK
<1>2. Left(b)' = Left(b) - Asked(q, b) /\ Left(b) \in Int
  <2>1. /\ Left(b) = bfl[b].litres - Used(b) /\ Left(b)' = bfl[b].litres - Used(b)'
    BY <1>1, UsedIsTotal
  <2>2. Used(b)' = Used(b) + Asked(q, b)
    BY CommitClearanceFacts
  <2>3. Used(b) \in Int /\ Left(b) \in Int /\ Asked(q, b) \in Int
    BY UsedTyped, AskedTyped DEF LicencesInv
  <2>4. bfl[b].litres \in Int
    BY LicencesAssumption DEF LicencesInv, LicencesTypeOK, Bfl
  <2> QED
    BY <2>1, <2>2, <2>3, <2>4
<1>3. ASSUME ~(Cardinality(Pieces(q, b)) > 1)
      PROVE  \E i \in Pieces(q, b) : clearing[q][i].left # Left(b)
  <2>1. Cardinality(Pieces(q, b)) <= 1
    BY <1>3, PiecesFinite, FS_CardinalityType DEF LicencesInv
  <2>2. Asked(q, b) \in Nat /\ (Pieces(q, b) = {} => Asked(q, b) = 0)
    BY AskedTyped DEF LicencesInv
  <2>3. PICK i \in Pieces(q, b) : TRUE
    BY <1>2, <2>2
  <2>4. Asked(q, b) = clearing[q][i].litres
    BY <2>1, AskedTyped DEF LicencesInv
  <2>5. i \in DOMAIN clearing[q] /\ clearing[q][i] \in Drawdown
    BY PiecesFinite DEF LicencesInv
  <2>6. /\ clearing[q][i].litres <= clearing[q][i].left
        /\ clearing[q][i].litres \in Int /\ clearing[q][i].left \in Int
    <3>1. DrawdownsMeant(q)
      BY DEF LicencesInv
    <3>2. PICK d \in Drawdown : d = clearing[q][i]
      BY <2>5
    <3>3. d.litres \in Int /\ d.left \in Int
      BY LitreIsInt DEF Drawdown
    <3>4. clearing[q][i].litres <= clearing[q][i].left
      BY <2>5, <3>1 DEF DrawdownsMeant
    <3> QED
      BY <3>2, <3>3, <3>4
  <2>7. clearing[q][i].left # Left(b)
    BY <1>2, <2>4, <2>6
  <2> QED
    BY <2>7
<1> QED
  BY <1>1, <1>3

BflOverdrawnStep(b) ==
  InTable(b) /\ Left(b) >= 0 /\ Left(b)' < 0 =>
    \E q \in Requests :
      \/ /\ clearing[q] # <<>> /\ clearing'[q] = <<>>
         /\ \/ Cardinality(Pieces(q, b)) > 1
            \/ \E i \in Pieces(q, b) : clearing[q][i].left # Left(b)
      \/ /\ issuing[q].bfl = b /\ issuing'[q] = NotIssuing
         /\ issuing[q].used # Used(b)

LEMMA StepOverdraws ==
  ASSUME LicencesInv, [LicencesStep]_licenceVars, NEW b \in Bfls
  PROVE  BflOverdrawnStep(b)
<1> SUFFICES ASSUME Left(b) >= 0, Left(b)' < 0
             PROVE  \E q \in Requests :
                      \/ /\ clearing[q] # <<>> /\ clearing'[q] = <<>>
                         /\ \/ Cardinality(Pieces(q, b)) > 1
                            \/ \E i \in Pieces(q, b) : clearing[q][i].left # Left(b)
                      \/ /\ issuing[q].bfl = b /\ issuing'[q] = NotIssuing
                         /\ issuing[q].used # Used(b)
  BY DEF BflOverdrawnStep
<1>1. /\ Left(b) = bfl[b].litres - Used(b) /\ Left(b)' = bfl'[b].litres - Used(b)'
      /\ Left(b) \in Int /\ Used(b) \in Nat
  BY UsedIsTotal, UsedTyped DEF LicencesInv
<1>2. drawn' = drawn => Used(b)' = Used(b)
  BY UsedIsTotal
<1>3. ~(drawn' = drawn /\ bfl'[b] = bfl[b])
  BY <1>1, <1>2
<1>4. ASSUME NEW q \in Requests, NEW c \in Clearances, CommitClearance(q, c)
      PROVE  /\ clearing[q] # <<>> /\ clearing'[q] = <<>>
             /\ \/ Cardinality(Pieces(q, b)) > 1
                \/ \E i \in Pieces(q, b) : clearing[q][i].left # Left(b)
  BY <1>4, ClearanceFits
<1>5. ASSUME NEW q \in Requests, CommitBfl(q)
      PROVE  /\ issuing[q].bfl = b /\ issuing'[q] = NotIssuing
             /\ issuing[q].used # Used(b)
  <2>1. drawn' = drawn
    BY <1>5 DEF CommitBfl
  <2>2. /\ issuing'[q] = NotIssuing
        /\ issuing[q].used <= issuing[q].litres
        /\ issuing[q].used \in Int /\ issuing[q].litres \in Int
        /\ issuing[q].bfl # b => bfl'[b] = bfl[b]
        /\ issuing[q].bfl = b => bfl' = bfl \/ bfl'[b].litres = issuing[q].litres
    <3>1. PICK w : w = issuing[q]
      OBVIOUS
    <3>2. /\ issuing'[q] = NotIssuing /\ w.litres \in Litres
          /\ w.used <= w.litres /\ w.used \in Int
          /\ \A x \in Bfls \ {w.bfl} : bfl'[x] = bfl[x]
          /\ bfl' = bfl \/ bfl'[w.bfl] = [ppdl |-> w.ppdl, litres |-> w.litres]
      BY <1>5, <3>1, CommitBflFacts
    <3>3. w.litres \in Int
      BY <3>2, LitreIsInt
    <3>4. bfl' = bfl \/ bfl'[w.bfl].litres = w.litres
      BY <3>2
    <3> QED
      BY <3>1, <3>2, <3>3, <3>4
  <2>3. issuing[q].bfl = b /\ bfl'[b].litres = issuing[q].litres
    BY <1>3, <2>1, <2>2
  <2> QED
    BY <1>1, <1>2, <2>1, <2>2, <2>3
<1>6. ASSUME NEW x \in Bfls, DeleteBfl(x)
      PROVE  FALSE
  <2>1. drawn' = drawn /\ Used(x) = 0 /\ bfl' = [bfl EXCEPT ![x] = NoRow]
    BY <1>6 DEF DeleteBfl
  <2>2. x = b
    BY <1>3, <2>1 DEF LicencesInv, LicencesTypeOK
  <2>3. bfl'[b].litres = 0
    BY <2>1, <2>2 DEF LicencesInv, LicencesTypeOK, NoRow
  <2> QED
    BY <1>1, <1>2, <2>1, <2>2, <2>3
<1> QED
  BY <1>3, <1>4, <1>5, <1>6
     DEF LicencesStep, LicencesNext, licenceVars, CreatePpdl, UpdateProductQuantity, BeginCreateBfl,
         BeginUpdateBfl, CheckDrawdown, RefuseClearance

\* A BFL comes to be drawn beyond its quantity only by a form that names it twice
\* or by a commit over a balance that has moved, for any number of licences,
\* clearances, drawdowns on a form and overlapping requests.
THEOREM OverdrawnNeedsStaleBalance == Spec => BflOverdrawnOnlyUnseen
<1>1. LicencesInv /\ [Next]_vars =>
        [\A b \in Bfls : InTable(b) /\ Left(b) >= 0 /\ Left(b)' < 0 =>
           \E q \in Requests :
             \/ /\ clearing[q] # <<>> /\ clearing'[q] = <<>>
                /\ \/ Cardinality(Pieces(q, b)) > 1
                   \/ \E i \in Pieces(q, b) : clearing[q][i].left # Left(b)
             \/ /\ issuing[q].bfl = b /\ issuing'[q] = NotIssuing
                /\ issuing[q].used # Used(b)]_licenceVars
  BY StepIsLicences, StepOverdraws DEF BflOverdrawnStep
<1> QED
  BY <1>1, LicencesSafe, PTL DEF Spec, BflOverdrawnOnlyUnseen

\* What a commit on a BFL does to the balance of a PPDL.
LEMMA BalanceMoves ==
  ASSUME LicencesTypeOK, LicencesTypeOK', NEW x \in Bfls, NEW p \in Ppdls,
         \A b \in Bfls \ {x} : bfl'[b] = bfl[b], allowance'[p] = allowance[p]
  PROVE  /\ Balance(p) \in Int
         /\ Balance(p)' = Balance(p) + (IF bfl[x].ppdl = p THEN bfl[x].litres ELSE 0)
                                     - (IF bfl'[x].ppdl = p THEN bfl'[x].litres ELSE 0)
<1> DEFINE S == Under(p)
           R == Under(p)'
           f == LitresOf(bfl, Bfls)
           g == LitresOf(bfl', Bfls)
<1>1. /\ S \in SUBSET Bfls /\ R \in SUBSET Bfls /\ S \ {x} = R \ {x}
      /\ (x \in S <=> bfl[x].ppdl = p) /\ (x \in R <=> bfl'[x].ppdl = p)
  BY DEF Under
<1>2. IsFiniteSet(S) /\ IsFiniteSet(R)
  BY <1>1, LicencesAssumption, FS_Subset DEF LicencesAssumption
<1>3. \A b \in Bfls : /\ f[b] = bfl[b].litres /\ f[b] \in Int
                      /\ g[b] = bfl'[b].litres /\ g[b] \in Int
  BY LicencesAssumption DEF LitresOf, LicencesTypeOK, Bfl
<1>4. /\ \A b \in S : f[b] \in Int
      /\ \A b \in R : g[b] \in Int
      /\ \A b \in S \ {x} : f[b] = g[b]
  BY <1>1, <1>3
<1>5. Balance(p) = allowance[p] - Total(f, S) /\ Balance(p)' = allowance[p] - Total(g, R)
  BY BalanceIsTotal
<1>6. allowance[p] \in Int /\ Balance(p) \in Int
  BY BalanceTyped, LicencesAssumption DEF LicencesTypeOK
<1>7. f[x] = bfl[x].litres /\ g[x] = bfl'[x].litres /\ f[x] \in Int /\ g[x] \in Int
  BY <1>3
<1>8. S \ {x} = R \ {x} /\ \A b \in S \ {x} : f[b] = g[b]
  BY <1>1, <1>4
<1>9. (\A b \in S : f[b] \in Int) /\ \A b \in R : g[b] \in Int
  BY <1>4
<1> HIDE DEF S, R, f, g
<1>10. /\ Total(f, S) \in Int
      /\ Total(g, R) = Total(f, S) - (IF x \in S THEN f[x] ELSE 0) + (IF x \in R THEN g[x] ELSE 0)
  BY <1>2, <1>8, <1>9, TotalMoves
<1> QED
  BY <1>1, <1>5, <1>6, <1>7, <1>10

OverissuedStep(p) ==
  Balance(p) >= 0 /\ Balance(p)' < 0 =>
    \/ allowance'[p] # allowance[p]
    \/ \E q \in Requests :
         /\ issuing[q].ppdl = p /\ issuing'[q] = NotIssuing
         /\ \/ issuing[q].left # Balance(p)
            \/ issuing[q].was # bfl[issuing[q].bfl].litres

LEMMA StepOverissues ==
  ASSUME LicencesInv, LicencesInv', [LicencesStep]_licenceVars, NEW p \in Ppdls
  PROVE  OverissuedStep(p)
<1> SUFFICES ASSUME Balance(p) >= 0, Balance(p)' < 0, allowance'[p] = allowance[p]
             PROVE  \E q \in Requests :
                      /\ issuing[q].ppdl = p /\ issuing'[q] = NotIssuing
                      /\ \/ issuing[q].left # Balance(p)
                         \/ issuing[q].was # bfl[issuing[q].bfl].litres
  BY DEF OverissuedStep
<1>0. LicencesTypeOK /\ LicencesTypeOK'
  BY DEF LicencesInv
<1>1. bfl' # bfl
  <2>1. ASSUME bfl' = bfl PROVE Balance(p)' = Balance(p)
    <3>1. Under(p)' = Under(p)
      BY <2>1 DEF Under
    <3> QED
      BY <2>1, <3>1, BalanceIsTotal
  <2>2. Balance(p) \in Int
    BY <1>0, BalanceTyped
  <2> QED
    BY <2>1, <2>2
<1>2. ASSUME NEW q \in Requests, CommitBfl(q)
      PROVE  /\ issuing[q].ppdl = p /\ issuing'[q] = NotIssuing
             /\ \/ issuing[q].left # Balance(p)
                \/ issuing[q].was # bfl[issuing[q].bfl].litres
  <2> DEFINE w == issuing[q]
             x == w.bfl
  <2>1. /\ x \in Bfls /\ issuing'[q] = NotIssuing /\ \A b \in Bfls \ {x} : bfl'[b] = bfl[b]
        /\ w.litres \in Int /\ w.was \in Int /\ w.left \in Int
        /\ w.litres <= w.was \/ w.litres - w.was <= w.left
        /\ w.new => ~InTable(x)
        /\ ~w.new => ~InTable(x) \/ bfl[x].ppdl = w.ppdl
        /\ w.new \/ InTable(x) => bfl'[x] = [ppdl |-> w.ppdl, litres |-> w.litres]
        /\ ~(w.new \/ InTable(x)) => bfl' = bfl
    <3>1. /\ x \in Bfls /\ issuing'[q] = NotIssuing /\ w.litres \in Litres
          /\ w.was \in Int /\ w.left \in Int
          /\ w.litres <= w.was \/ w.litres - w.was <= w.left
          /\ w.new => ~InTable(x)
          /\ ~w.new => ~InTable(x) \/ bfl[x].ppdl = w.ppdl
      BY <1>2, CommitBflFacts
    <3>2. /\ \A b \in Bfls \ {x} : bfl'[b] = bfl[b]
          /\ w.new \/ InTable(x) => bfl'[x] = [ppdl |-> w.ppdl, litres |-> w.litres]
          /\ ~(w.new \/ InTable(x)) => bfl' = bfl
      BY <1>2, CommitBflFacts
    <3>3. w.litres \in Int
      BY <3>1, LitreIsInt
    <3> HIDE DEF w
    <3> QED
      BY <3>1, <3>2, <3>3
  <2>2. bfl'[x].ppdl = w.ppdl /\ bfl'[x].litres = w.litres
    BY <1>1, <2>1
  <2>3. bfl[x].ppdl = w.ppdl \/ (bfl[x].ppdl \notin Ppdls /\ bfl[x].litres = 0)
    BY <1>1, <2>1, LicencesAssumption DEF InTable, NoRow, LicencesAssumption
  <2>4. bfl[x].litres \in Int /\ bfl[x].litres >= 0
    BY <1>0, <2>1, LicencesAssumption DEF LicencesTypeOK, Bfl
  <2>5. /\ Balance(p) \in Int
        /\ Balance(p)' = Balance(p) + (IF bfl[x].ppdl = p THEN bfl[x].litres ELSE 0)
                                    - (IF bfl'[x].ppdl = p THEN bfl'[x].litres ELSE 0)
    BY <1>0, <2>1, BalanceMoves
  <2> HIDE DEF x
  <2>6. w.ppdl = p
    BY <2>2, <2>3, <2>5
  <2>7. Balance(p)' = Balance(p) + bfl[x].litres - w.litres
    BY <2>2, <2>3, <2>4, <2>5, <2>6
  <2>8. w.left # Balance(p) \/ w.was # bfl[x].litres
    BY <2>1, <2>4, <2>5, <2>7
  <2> QED
    BY <2>1, <2>6, <2>8 DEF x
<1>3. ASSUME NEW x \in Bfls, DeleteBfl(x)
      PROVE  FALSE
  <2>1. /\ \A b \in Bfls \ {x} : bfl'[b] = bfl[b]
        /\ bfl'[x].litres = 0 /\ bfl'[x].ppdl \notin Ppdls
    BY <1>0, <1>3, LicencesAssumption DEF DeleteBfl, LicencesTypeOK, NoRow, LicencesAssumption
  <2>2. bfl[x].litres \in Int /\ bfl[x].litres >= 0
    BY <1>0, LicencesAssumption DEF LicencesTypeOK, Bfl
  <2>3. /\ Balance(p) \in Int
        /\ Balance(p)' = Balance(p) + (IF bfl[x].ppdl = p THEN bfl[x].litres ELSE 0)
                                    - (IF bfl'[x].ppdl = p THEN bfl'[x].litres ELSE 0)
    BY <1>0, <2>1, BalanceMoves
  <2> QED
    BY <2>1, <2>2, <2>3
<1> QED
  BY <1>1, <1>2, <1>3
     DEF LicencesStep, LicencesNext, licenceVars, CommitClearance, CreatePpdl,
         UpdateProductQuantity, BeginCreateBfl, BeginUpdateBfl, CheckDrawdown, RefuseClearance

\* A PPDL comes to have more issued under it than it allows only by an edit of its
\* quantity or by a BFL committed over figures that have moved, for any number of
\* licences and overlapping requests.
THEOREM OverissueNeedsStaleFigures == Spec => PpdlOverissuedOnlyUnseen
<1>1. LicencesInv /\ LicencesInv' /\ [Next]_vars =>
        [\A p \in Ppdls : Balance(p) >= 0 /\ Balance(p)' < 0 =>
           \/ allowance'[p] # allowance[p]
           \/ \E q \in Requests :
                /\ issuing[q].ppdl = p /\ issuing'[q] = NotIssuing
                /\ \/ issuing[q].left # Balance(p)
                   \/ issuing[q].was # bfl[issuing[q].bfl].litres]_licenceVars
  BY StepIsLicences, StepOverissues DEF OverissuedStep
<1> QED
  BY <1>1, LicencesSafe, PTL DEF Spec, PpdlOverissuedOnlyUnseen
=============================================================================
