----------------------------- MODULE PushPromise -----------------------------
(***************************************************************************)
(* What push_service promises, without sessions, outbox or drain: a push is *)
(* on its way only once the row it announces is committed, reaches a device *)
(* once at most, and may be given up at any moment (its docstring, 1 and    *)
(* the last paragraph).                                                     *)
(***************************************************************************)
CONSTANTS Pushes, Devices

VARIABLES
  saved,      \* the pushes whose notification is committed
  announced,  \* the pushes on their way
  sent        \* <<push, device>> pairs handed over

vars == <<saved, announced, sent>>

Init == saved = {} /\ announced = {} /\ sent = {}

\* A new notification takes the name of a push that is over.
Renew(p) ==
  /\ p \notin announced
  /\ saved' = saved \ {p}
  /\ sent' = {d \in sent : d[1] # p}
  /\ UNCHANGED announced

\* The rows of ps are committed and their pushes set out, none of them sent yet.
Announce(ps) ==
  /\ ps \cap announced = {}
  /\ \A d \in sent : d[1] \notin ps
  /\ saved' = saved \cup ps
  /\ announced' = announced \cup ps
  /\ UNCHANGED sent

\* One device gets p; what else is on its way may come to its end.
Deliver(p, e) ==
  /\ p \in announced
  /\ <<p, e>> \notin sent
  /\ sent' = sent \cup {<<p, e>>}
  /\ announced' \in {announced, announced \ {p}}
  /\ UNCHANGED saved

GiveUp(ps) ==
  /\ announced' = announced \ ps
  /\ UNCHANGED <<saved, sent>>

Next ==
  \/ \E p \in Pushes : Renew(p)
  \/ \E ps \in SUBSET Pushes : Announce(ps)
  \/ \E p \in Pushes, e \in Devices : Deliver(p, e)
  \/ \E ps \in SUBSET Pushes : GiveUp(ps)

Spec == Init /\ [][Next]_vars
=============================================================================
