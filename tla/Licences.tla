------------------------------ MODULE Licences ------------------------------
(***************************************************************************)
(* The licence chain of licence_service: a PPDL, the BFLs issued under it,  *)
(* and the naval clearances that draw the BFLs down.  Balances are computed *)
(* on read.  There is one product: the code keeps a balance per product and *)
(* never mixes them.                                                        *)
(*                                                                         *)
(* No row is locked, and sessions run with autoflush off: a request sees    *)
(* neither what others have not committed nor what it has only added        *)
(* itself.  Handlers that check a balance are cut where they have read it.  *)
(***************************************************************************)
EXTENDS Integers, Sequences, FiniteSetsExt

CONSTANTS
  Ppdls, NoPpdl,
  Bfls, NoBfl,
  Clearances,
  Requests,
  MaxLitres,     \* bound on a licence's quantity
  MaxDrawdowns   \* bound on the drawdowns of one clearance form

ASSUME LicencesAssumption ==
  /\ IsFiniteSet(Clearances) /\ IsFiniteSet(Bfls)
  /\ NoPpdl \notin Ppdls /\ NoBfl \notin Bfls
  /\ MaxLitres \in Nat /\ MaxDrawdowns \in Nat

VARIABLES
  allowance, \* ppdl_products.quantity_litres, per PPDL; 0 before it exists
  current,   \* the PPDL whose is_current is set
  bfl,       \* bfls
  drawn,     \* drawn[c][b]: what clearance c draws from BFL b, all its drawdowns together
  issuing,   \* what a request to create or edit a BFL has read
  clearing   \* the drawdowns a request to create a clearance has checked so far

licenceVars == <<allowance, current, bfl, drawn, issuing, clearing>>

Litres == 1..MaxLitres

Bfl == [ppdl: Ppdls \cup {NoPpdl}, litres: 0..MaxLitres]
\* was: the BFL's quantity when it was read, 0 for a new one; left: what the PPDL
\* had left then; used: what clearances had drawn from the BFL.
Issuing == [bfl: Bfls \cup {NoBfl}, ppdl: Ppdls \cup {NoPpdl}, litres: 0..MaxLitres,
            new: BOOLEAN, was: 0..MaxLitres, left: Int, used: Int]
Drawdown == [bfl: Bfls, litres: Litres, left: Int]

NoRow == [ppdl |-> NoPpdl, litres |-> 0]
NotIssuing == [bfl |-> NoBfl, ppdl |-> NoPpdl, litres |-> 0, new |-> FALSE,
               was |-> 0, left |-> 0, used |-> 0]

LicencesTypeOK ==
  /\ allowance \in [Ppdls -> 0..MaxLitres]
  /\ current \in Ppdls \cup {NoPpdl}
  /\ bfl \in [Bfls -> Bfl]
  /\ drawn \in [Clearances -> [Bfls -> Nat]]
  /\ issuing \in [Requests -> Issuing]
  /\ clearing \in [Requests -> Seq(Drawdown)]

LicencesInit ==
  /\ allowance = [p \in Ppdls |-> 0]
  /\ current = NoPpdl
  /\ bfl = [b \in Bfls |-> NoRow]
  /\ drawn = [c \in Clearances |-> [b \in Bfls |-> 0]]
  /\ issuing = [q \in Requests |-> NotIssuing]
  /\ clearing = [q \in Requests |-> <<>>]

-----------------------------------------------------------------------------
(* Balances.                                                                *)

\* _ppdl_product_balance: what the PPDL allows, less the BFLs that hold a share.
Under(p) == {b \in Bfls : bfl[b].ppdl = p}
Balance(p) == allowance[p] - MapThenSumSet(LAMBDA b : bfl[b].litres, Under(p))

\* _bfl_balance
Used(b) == MapThenSumSet(LAMBDA c : drawn[c][b], Clearances)
Left(b) == bfl[b].litres - Used(b)

InTable(b) == bfl[b] # NoRow

\* What a request to create a clearance asks of a BFL.
Pieces(q, b) == {i \in DOMAIN clearing[q] : clearing[q][i].bfl = b}
Asked(q, b) == MapThenSumSet(LAMBDA i : clearing[q][i].litres, Pieces(q, b))

-----------------------------------------------------------------------------
(* PPDLs.                                                                   *)

\* The new one takes the flag; a partial unique index makes a second, overlapping
\* creation fail.
CreatePpdl(p, litres) ==
  /\ allowance[p] = 0
  /\ allowance' = [allowance EXCEPT ![p] = litres]
  /\ current' = p
  /\ UNCHANGED <<bfl, drawn, issuing, clearing>>

\* Nothing looks at the BFLs already issued.
UpdateProductQuantity(p, litres) ==
  /\ allowance[p] # 0
  /\ allowance' = [allowance EXCEPT ![p] = litres]
  /\ UNCHANGED <<current, bfl, drawn, issuing, clearing>>

-----------------------------------------------------------------------------
(* BFLs.                                                                    *)

BeginCreateBfl(q, b, litres) ==
  /\ issuing[q] = NotIssuing /\ clearing[q] = <<>>
  /\ ~InTable(b) /\ \A r \in Requests : issuing[r].bfl # b /\ Pieces(r, b) = {}
  /\ current # NoPpdl
  /\ litres <= Balance(current)
  /\ issuing' = [issuing EXCEPT ![q] =
       [bfl |-> b, ppdl |-> current, litres |-> litres, new |-> TRUE,
        was |-> 0, left |-> Balance(current), used |-> 0]]
  /\ UNCHANGED <<allowance, current, bfl, drawn, clearing>>

MayBecomeUnchecked(b, litres) == litres >= Used(b)

\* Never below what is drawn already; more only within the parent's balance,
\* whether or not the parent is still the current PPDL.
MayBecome(b, litres) ==
  /\ litres >= Used(b)
  /\ litres > bfl[b].litres => litres - bfl[b].litres <= Balance(bfl[b].ppdl)

\* An edit to the value it has read writes nothing.
BeginUpdateBfl(q, b, litres) ==
  /\ issuing[q] = NotIssuing /\ clearing[q] = <<>>
  /\ InTable(b) /\ litres # bfl[b].litres
  /\ MayBecome(b, litres)
  /\ issuing' = [issuing EXCEPT ![q] =
       [bfl |-> b, ppdl |-> bfl[b].ppdl, litres |-> litres, new |-> FALSE,
        was |-> bfl[b].litres, left |-> Balance(bfl[b].ppdl), used |-> Used(b)]]
  /\ UNCHANGED <<allowance, current, bfl, drawn, clearing>>

\* The row of an edit may have been deleted: its session is rolled back.
CommitBfl(q) ==
  LET w == issuing[q] IN
  /\ w # NotIssuing
  /\ bfl' = IF w.new \/ InTable(w.bfl)
              THEN [bfl EXCEPT ![w.bfl] = [ppdl |-> w.ppdl, litres |-> w.litres]] ELSE bfl
  /\ issuing' = [issuing EXCEPT ![q] = NotIssuing]
  /\ UNCHANGED <<allowance, current, drawn, clearing>>

\* Refused once a clearance draws on it; the foreign key stands behind the check.
DeleteBfl(b) ==
  /\ InTable(b)
  /\ Used(b) = 0
  /\ bfl' = [bfl EXCEPT ![b] = NoRow]
  /\ UNCHANGED <<allowance, current, drawn, issuing, clearing>>

-----------------------------------------------------------------------------
(* Naval clearances.                                                        *)

GrantsAnything(b, litres) == TRUE

\* The balance is read anew for each drawdown on the form, but the drawdowns
\* before it are only added to the session.
Grants(b, litres) == litres <= Left(b)

CheckDrawdown(q, b, litres) ==
  /\ issuing[q] = NotIssuing
  /\ Len(clearing[q]) < MaxDrawdowns
  /\ InTable(b)
  /\ Grants(b, litres)
  /\ clearing' = [clearing EXCEPT ![q] =
       Append(@, [bfl |-> b, litres |-> litres, left |-> Left(b)])]
  /\ UNCHANGED <<allowance, current, bfl, drawn, issuing>>

\* Each drawdown row refers to its BFL, which must still be there.
CommitClearance(q, c) ==
  /\ clearing[q] # <<>>
  /\ \A b \in Bfls : drawn[c][b] = 0
  /\ \A b \in Bfls : Pieces(q, b) # {} => InTable(b)
  /\ drawn' = [drawn EXCEPT ![c] = [b \in Bfls |-> Asked(q, b)]]
  /\ clearing' = [clearing EXCEPT ![q] = <<>>]
  /\ UNCHANGED <<allowance, current, bfl, issuing>>

\* A later drawdown on the form is refused, the number is taken or a BFL is gone.
RefuseClearance(q) ==
  /\ clearing[q] # <<>>
  /\ clearing' = [clearing EXCEPT ![q] = <<>>]
  /\ UNCHANGED <<allowance, current, bfl, drawn, issuing>>

-----------------------------------------------------------------------------

\* Everything but the commit of a clearance, which also puts vessels on it.
LicencesNext ==
  \/ \E p \in Ppdls, litres \in Litres : CreatePpdl(p, litres)
  \/ \E p \in Ppdls, litres \in Litres : UpdateProductQuantity(p, litres)
  \/ \E q \in Requests, b \in Bfls, litres \in Litres : BeginCreateBfl(q, b, litres)
  \/ \E q \in Requests, b \in Bfls, litres \in Litres : BeginUpdateBfl(q, b, litres)
  \/ \E q \in Requests : CommitBfl(q)
  \/ \E b \in Bfls : DeleteBfl(b)
  \/ \E q \in Requests, b \in Bfls, litres \in Litres : CheckDrawdown(q, b, litres)
  \/ \E q \in Requests : RefuseClearance(q)

-----------------------------------------------------------------------------
(* Properties.                                                              *)

\* A BFL comes to be drawn beyond its quantity in two ways only: a clearance
\* form names it twice, each line having been checked alone, or a request
\* commits over a balance that has moved since it read it (create_naval_clearance
\* and update_bfl).
BflOverdrawnOnlyUnseen ==
  [][\A b \in Bfls : InTable(b) /\ Left(b) >= 0 /\ Left(b)' < 0 =>
       \E q \in Requests :
         \/ /\ clearing[q] # <<>> /\ clearing'[q] = <<>>
            /\ \/ Cardinality(Pieces(q, b)) > 1
               \/ \E i \in Pieces(q, b) : clearing[q][i].left # Left(b)
         \/ /\ issuing[q].bfl = b /\ issuing'[q] = NotIssuing
            /\ issuing[q].used # Used(b)]_licenceVars

\* A PPDL comes to have more issued under it than it allows only by an edit of
\* its quantity, which nothing checks, or by a BFL committed over figures that
\* have moved since they were read: the PPDL's balance, or the BFL's own quantity,
\* for a raise that was asked as a cut is not held against the balance
\* (create_bfl, update_bfl).
PpdlOverissuedOnlyUnseen ==
  [][\A p \in Ppdls : Balance(p) >= 0 /\ Balance(p)' < 0 =>
       \/ allowance'[p] # allowance[p]
       \/ \E q \in Requests :
            /\ issuing[q].ppdl = p /\ issuing'[q] = NotIssuing
            /\ \/ issuing[q].left # Balance(p)
               \/ issuing[q].was # bfl[issuing[q].bfl].litres]_licenceVars
=============================================================================
