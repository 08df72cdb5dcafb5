------------------------------ MODULE Accounts ------------------------------
(***************************************************************************)
(* User accounts: the rows of app/models/user.py, kept by the admin and     *)
(* auth routes, and the sign-in identities Supabase keeps for the same      *)
(* people.  A request talks to both, so each is cut where another may slip  *)
(* in: after what it reads and mints, and at its commit.  A row and an      *)
(* identity are known by their e-mail address, one per member of Users.     *)
(*                                                                         *)
(* Supabase is external: it refuses a second identity for an address, and   *)
(* deleting one is a call whose failure is swallowed.                       *)
(***************************************************************************)
EXTENDS AccessControl, Integers, FiniteSets

CONSTANTS
  Users,      \* by e-mail address, any finite number
  Roles,      \* the roles in play
  Calls,      \* requests under way, each one call of a route
  Nobody,     \* whom an idle one is about
  MaxMinted,  \* bound: identities ever made for one address
  MaxFaults   \* bound: lost commits and lost deletions

ASSUME AccountsAssumption ==
  /\ IsFiniteSet(Users)
  /\ Roles \subseteq UserRoles
  /\ Nobody \notin Users
  /\ MaxMinted \in Nat /\ MaxFaults \in Nat

VARIABLES
  user,      \* users
  identity,  \* the identity Supabase holds for each address, 0 for none
  minted,    \* identities made so far for each address
  request,   \* what each request has read and made
  faults     \* failures so far

accountVars == <<user, identity, minted, request, faults>>

Auth == 0 .. MaxMinted

Row == [role: UserRoles \cup {NoRole}, acting_as_role: UserRoles \cup {NoRole},
        active: BOOLEAN, auth: Auth]
NoRow == [role |-> NoRole, acting_as_role |-> NoRole, active |-> FALSE, auth |-> 0]

Kinds == {"update", "delete", "register", "reactivate", "bootstrap"}

Request == [kind: Kinds \cup {"none"}, on: Users \cup {Nobody}, saw: Row, to: Row,
            managers: SUBSET Users, flushed: BOOLEAN]
Idle == [kind |-> "none", on |-> Nobody, saw |-> NoRow, to |-> NoRow,
         managers |-> {}, flushed |-> FALSE]

AccountsTypeOK ==
  /\ user \in [Users -> Row]
  /\ identity \in [Users -> Auth]
  /\ minted \in [Users -> Auth]
  /\ request \in [Calls -> Request]
  /\ faults \in 0 .. MaxFaults

AccountsInit ==
  /\ user = [u \in Users |-> NoRow]
  /\ identity = [u \in Users |-> 0]
  /\ minted = [u \in Users |-> 0]
  /\ request = [q \in Calls |-> Idle]
  /\ faults = 0

-----------------------------------------------------------------------------

Exists(u) == user[u] # NoRow
IsManager(u) == user[u].role = "bunker_manager"
ActiveManagers == {u \in Users : IsManager(u) /\ user[u].active}

\* get_user_from_token finds an active row; tokens outlive the identity they
\* were issued for, so the identity is not asked for here.
Authenticated(u) == Exists(u) /\ user[u].active
MayCall(a, name) == Authenticated(a) /\ May(user[a], name)

Answer(q) == request' = [request EXCEPT ![q] = Idle]
Fault == faults < MaxFaults /\ faults' = faults + 1

Begin(q, kind, u, to) ==
  /\ request[q] = Idle
  /\ request' = [request EXCEPT ![q] =
       [kind |-> kind, on |-> u, saw |-> user[u], to |-> to,
        managers |-> ActiveManagers, flushed |-> FALSE]]

-----------------------------------------------------------------------------
(* Changing and removing a row, with the guard for the last manager.  An    *)
(* update of other columns changes nothing kept here and is no action.      *)

\* The guard counts active managers, the user himself usually among them.
SpareManager(u) == IsManager(u) => Cardinality(ActiveManagers) > 1

\* Variant the runs must reject: only demotion is guarded, not deactivation.
BeginUpdateUnguarded(q, a, u, role, active) ==
  /\ MayCall(a, "update_user") /\ Exists(u)
  /\ role # "bunker_manager" => SpareManager(u)
  /\ <<role, active>> # <<user[u].role, user[u].active>>
  /\ Begin(q, "update", u, [user[u] EXCEPT !.role = role, !.active = active])
  /\ UNCHANGED <<user, identity, minted, faults>>

BeginUpdate(q, a, u, role, active) ==
  /\ MayCall(a, "update_user") /\ Exists(u)
  /\ role # "bunker_manager" \/ ~active => SpareManager(u)
  /\ <<role, active>> # <<user[u].role, user[u].active>>
  /\ Begin(q, "update", u, [user[u] EXCEPT !.role = role, !.active = active])
  /\ UNCHANGED <<user, identity, minted, faults>>

\* A delete holds its row from its flush, made before the call to Supabase.
Unlocked(q) == \A p \in Calls \ {q} : request[p].on = request[q].on => ~request[p].flushed

\* Only columns that differ from what was loaded are written, onto whatever
\* the row has become.
Written(q) ==
  LET r == request[q] IN
    [user[r.on] EXCEPT
       !.role = IF r.to.role = r.saw.role THEN @ ELSE r.to.role,
       !.active = IF r.to.active = r.saw.active THEN @ ELSE r.to.active,
       !.auth = IF r.to.auth = r.saw.auth THEN @ ELSE r.to.auth]

CommitUpdate(q) ==
  /\ request[q].kind = "update" /\ Exists(request[q].on) /\ Unlocked(q)
  /\ user' = [user EXCEPT ![request[q].on] = Written(q)]
  /\ Answer(q)
  /\ UNCHANGED <<identity, minted, faults>>

\* A row no table refers to goes, any other is deactivated; which of the two
\* is left open here.
BeginDelete(q, a, u) ==
  /\ MayCall(a, "delete_user") /\ Exists(u) /\ u # a
  /\ SpareManager(u)
  /\ \E to \in {NoRow, [user[u] EXCEPT !.active = FALSE]} : Begin(q, "delete", u, to)
  /\ UNCHANGED <<user, identity, minted, faults>>

\* The flush, then _delete_supabase_auth_user for the id that was loaded.
FlushDelete(q) ==
  LET u == request[q].on IN
  /\ request[q].kind = "delete" /\ ~request[q].flushed
  /\ Exists(u) /\ Unlocked(q)
  /\ \/ /\ identity' = [identity EXCEPT ![u] = IF @ = request[q].saw.auth THEN 0 ELSE @]
        /\ UNCHANGED faults
     \/ Fault /\ UNCHANGED identity
  /\ request' = [request EXCEPT ![q].flushed = TRUE]
  /\ UNCHANGED <<user, minted>>

CommitDelete(q) ==
  LET r == request[q] IN
  /\ r.kind = "delete" /\ r.flushed
  /\ user' = [user EXCEPT ![r.on] = IF r.to = NoRow THEN NoRow ELSE Written(q)]
  /\ Answer(q)
  /\ UNCHANGED <<identity, minted, faults>>

-----------------------------------------------------------------------------
(* Accounts made: by an administrator, and the very first by bootstrap.     *)

\* _create_supabase_auth_user, or the same call in register.
Mint(u) ==
  /\ identity[u] = 0 /\ minted[u] < MaxMinted
  /\ minted' = [minted EXCEPT ![u] = @ + 1]
  /\ identity' = [identity EXCEPT ![u] = minted[u] + 1]

\* A fresh identity first, whatever the table says of the address.
BeginCreate(q, a, u, role) ==
  /\ MayCall(a, "create_user")
  /\ user[a].role = "finance_manager" => role = "client"
  /\ Mint(u)
  /\ Begin(q, IF Exists(u) /\ ~user[u].active THEN "reactivate" ELSE "register", u,
           [user[u] EXCEPT !.role = role, !.active = TRUE, !.auth = minted[u] + 1])
  /\ UNCHANGED <<user, faults>>

\* The advisory lock lasts as long as the transaction.
BeginBootstrap(q, u) ==
  /\ \A p \in Calls : request[p].kind # "bootstrap"
  /\ ~\E m \in Users : IsManager(m)
  /\ Mint(u)
  /\ Begin(q, "bootstrap", u, [role |-> "bunker_manager", acting_as_role |-> NoRole,
                               active |-> TRUE, auth |-> minted[u] + 1])
  /\ UNCHANGED <<user, faults>>

Registering(q) == request[q].kind \in {"register", "bootstrap"}

CommitRegister(q) ==
  LET r == request[q] IN
  /\ Registering(q) /\ ~Exists(r.on)
  /\ user' = [user EXCEPT ![r.on] = [r.to EXCEPT !.acting_as_role = NoRole]]
  /\ Answer(q)
  /\ UNCHANGED <<identity, minted, faults>>

\* Variant the runs must reject: the refusal leaves the new identity behind.
RefuseRegisterPlainly(q) ==
  /\ Registering(q) /\ Exists(request[q].on)
  /\ Answer(q)
  /\ UNCHANGED <<user, identity, minted, faults>>

\* The address is taken: roll back and undo the identity, if the call works.
RefuseRegister(q) ==
  LET r == request[q] IN
  /\ Registering(q) /\ Exists(r.on)
  /\ \/ /\ identity' = [identity EXCEPT ![r.on] = IF @ = r.to.auth THEN 0 ELSE @]
        /\ UNCHANGED faults
     \/ Fault /\ UNCHANGED identity
  /\ Answer(q)
  /\ UNCHANGED <<user, minted>>

CommitReactivate(q) ==
  /\ request[q].kind = "reactivate" /\ Exists(request[q].on) /\ Unlocked(q)
  /\ user' = [user EXCEPT ![request[q].on] = Written(q)]
  /\ Answer(q)
  /\ UNCHANGED <<identity, minted, faults>>

\* The commit, after the handler has returned, is lost: nothing undoes what
\* Supabase was told.
LoseCommit(q) ==
  /\ request[q] # Idle
  /\ Fault
  /\ Answer(q)
  /\ UNCHANGED <<user, identity, minted>>

\* The row is gone by the time it is written.
WriteNothing(q) ==
  /\ request[q].kind \in {"update", "delete", "reactivate"} /\ ~Exists(request[q].on)
  /\ Answer(q)
  /\ UNCHANGED <<user, identity, minted, faults>>

-----------------------------------------------------------------------------
(* Acting as another role.                                                  *)

ActAs(u, role) ==
  /\ MayCall(u, "act_as") /\ role \in ActAsEligibleRoles
  /\ user' = [user EXCEPT ![u].acting_as_role = role]
  /\ UNCHANGED <<identity, minted, request, faults>>

ClearActAs(u) ==
  /\ MayCall(u, "clear_act_as")
  /\ IsManager(u) /\ user[u].acting_as_role # NoRole
  /\ user' = [user EXCEPT ![u].acting_as_role = NoRole]
  /\ UNCHANGED <<identity, minted, request, faults>>

AccountsNext ==
  \/ \E q \in Calls, a, u \in Users :
       \/ \E role \in Roles, active \in BOOLEAN : BeginUpdate(q, a, u, role, active)
       \/ BeginDelete(q, a, u)
       \/ \E role \in Roles : BeginCreate(q, a, u, role)
  \/ \E q \in Calls :
       \/ CommitUpdate(q) \/ FlushDelete(q) \/ CommitDelete(q)
       \/ CommitRegister(q) \/ RefuseRegister(q) \/ CommitReactivate(q)
       \/ LoseCommit(q) \/ WriteNothing(q)
       \/ \E u \in Users : BeginBootstrap(q, u)
  \/ \E u \in Users, role \in Roles : ActAs(u, role)
  \/ \E u \in Users : ClearActAs(u)

AccountsSpec == AccountsInit /\ [][AccountsNext]_accountVars

-----------------------------------------------------------------------------

\* What a request has read of its user and of the managers is no longer so.
Stale(q) == request[q].saw # user[request[q].on] \/ request[q].managers # ActiveManagers
EndsStale(q) == request[q] # Idle /\ request'[q] = Idle /\ Stale(q)

\* No request leaves the company without an active Bunker Manager on the
\* strength of reads that still hold: the guards of update_user and
\* delete_user suffice for any sequence of requests, and only requests that
\* overlap get past them.
LastManagerLeavesOnlyStale ==
  [][ActiveManagers # {} /\ ActiveManagers' = {} => \E q \in Calls : EndsStale(q)]_accountVars

Making(u) == \E q \in Calls :
  request[q].on = u /\ request[q].kind \in {"register", "reactivate", "bootstrap"}
Orphaned(u) == identity[u] # 0 /\ identity[u] # user[u].auth /\ ~Making(u)

\* An identity no row owns blocks its address for good, because every
\* creation starts by making one.  Without a lost commit or a lost deletion
\* none is left behind, but by a request whose user changed under it.
OrphansNeedAFault ==
  [][\A u \in Users : Orphaned(u)' /\ ~Orphaned(u) =>
       faults' > 0 \/ \E q \in Calls : EndsStale(q)]_accountVars
=============================================================================
