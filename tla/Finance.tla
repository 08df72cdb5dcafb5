------------------------------- MODULE Finance -------------------------------
(***************************************************************************)
(* The money side of an operation: PFIs and how their volume is drawn down, *)
(* the payments recorded against them, invoices and expense vouchers        *)
(* (pfi_service, invoice_service, voucher_service and their routes).  None  *)
(* of it moves the operation.                                               *)
(*                                                                         *)
(* No row is ever locked.  A handler whose check another request can make   *)
(* stale is cut in two: Begin reads and checks, Commit writes what was      *)
(* asked whatever has been committed meanwhile.  The others are one step.   *)
(***************************************************************************)
EXTENDS Integers, FiniteSetsExt

CONSTANTS
  Operations, NoOperation,
  Pfis, NoPfi,
  Allocations, NoAllocation,  \* rows of pfi_allocations
  Payments,
  Invoices, NoInvoice,
  Bdns, NoBdn,    \* delivery notes an invoice may be for, vessel or truck
  BdnOf,          \* the operation of each delivery note
  Vouchers, NoVoucher,
  Officers,       \* who reaches the voucher routes: finance and bunker managers
  BunkerManagers,
  NoOne,
  Requests,
  MaxLitres       \* bound on a PFI's quantity

ASSUME FinanceAssumption ==
  /\ IsFiniteSet(Allocations)
  /\ NoOperation \notin Operations /\ NoPfi \notin Pfis
  /\ NoAllocation \notin Allocations
  /\ NoInvoice \notin Invoices /\ NoBdn \notin Bdns
  /\ NoVoucher \notin Vouchers /\ NoOne \notin Officers
  /\ BunkerManagers \subseteq Officers
  /\ BdnOf \in [Bdns -> Operations]
  /\ MaxLitres \in Nat

VARIABLES
  live,        \* operations that are not soft-deleted
  pfi,         \* pfis
  allocation,  \* pfi_allocations
  payment,     \* payments
  invoice,     \* invoices
  voucher,     \* vouchers
  drawing,     \* what a request to draw a PFI down has read
  billing,     \* what a request to create an invoice has read
  deciding     \* what a request to move an invoice or a voucher has read

vars == <<live, pfi, allocation, payment, invoice, voucher, drawing, billing, deciding>>

NoQuantity == 0  \* quantity_litres is NULL; the schemas refuse zero
Litres == 1..MaxLitres

Pfi == [status: {"none", "pending", "payment_initiated", "paid", "linked"},
        quantity: 0..MaxLitres]
Allocation == [pfi: Pfis \cup {NoPfi}, on: Operations \cup {NoOperation}, litres: 0..MaxLitres]
Payment == [pfi: Pfis \cup {NoPfi}, on: Operations \cup {NoOperation}]
Invoice == [status: {"none", "draft", "sent", "paid", "cancelled"}, bdn: Bdns \cup {NoBdn}]
Voucher == [status: {"none", "draft", "submitted", "approved", "rejected"},
            by: Officers \cup {NoOne}, receipt: BOOLEAN]

\* room: the litres the request found free; linked: whether it found the PFI linked.
Drawing == [at: {"idle", "draw", "redraw"}, row: Allocations \cup {NoAllocation},
            pfi: Pfis \cup {NoPfi}, on: Operations \cup {NoOperation}, litres: 0..MaxLitres,
            room: Int, linked: BOOLEAN]
Billing == [row: Invoices \cup {NoInvoice}, bdn: Bdns \cup {NoBdn}]
Decisions == {"none", "sent", "paid", "cancelled", "submitted", "approved", "rejected", "receipt"}
Deciding == [invoice: Invoices \cup {NoInvoice}, voucher: Vouchers \cup {NoVoucher}, to: Decisions]

FreeAllocation == [pfi |-> NoPfi, on |-> NoOperation, litres |-> 0]
NotDrawing == [at |-> "idle", row |-> NoAllocation, pfi |-> NoPfi,
               on |-> NoOperation, litres |-> 0, room |-> 0, linked |-> FALSE]
NotBilling == [row |-> NoInvoice, bdn |-> NoBdn]
NotDeciding == [invoice |-> NoInvoice, voucher |-> NoVoucher, to |-> "none"]
Moving(i, to) == [invoice |-> i, voucher |-> NoVoucher, to |-> to]
Judging(v, to) == [invoice |-> NoInvoice, voucher |-> v, to |-> to]

TypeOK ==
  /\ live \subseteq Operations
  /\ pfi \in [Pfis -> Pfi]
  /\ allocation \in [Allocations -> Allocation]
  /\ payment \in [Payments -> Payment]
  /\ invoice \in [Invoices -> Invoice]
  /\ voucher \in [Vouchers -> Voucher]
  /\ drawing \in [Requests -> Drawing]
  /\ billing \in [Requests -> Billing]
  /\ deciding \in [Requests -> Deciding]

Init ==
  /\ live = Operations
  /\ pfi = [p \in Pfis |-> [status |-> "none", quantity |-> NoQuantity]]
  /\ allocation = [a \in Allocations |-> FreeAllocation]
  /\ payment = [y \in Payments |-> [pfi |-> NoPfi, on |-> NoOperation]]
  /\ invoice = [i \in Invoices |-> [status |-> "none", bdn |-> NoBdn]]
  /\ voucher = [v \in Vouchers |-> [status |-> "none", by |-> NoOne, receipt |-> FALSE]]
  /\ drawing = [q \in Requests |-> NotDrawing]
  /\ billing = [q \in Requests |-> NotBilling]
  /\ deciding = [q \in Requests |-> NotDeciding]

pfiVars == <<pfi, allocation, payment, drawing>>
invoiceVars == <<invoice, billing>>

\* An operation is soft-deleted by operation_service; nothing here is touched.
SoftDeleteOperation(o) ==
  /\ o \in live
  /\ live' = live \ {o}
  /\ UNCHANGED <<pfiVars, invoiceVars, voucher, deciding>>

-----------------------------------------------------------------------------
(* PFIs and their allocations.                                              *)

Drawn(p) == {a \in Allocations : allocation[a].pfi = p}
Allocated(p, except) ==
  MapThenSumSet(LAMBDA a : allocation[a].litres, Drawn(p) \ except)
Room(p) == pfi[p].quantity - Allocated(p, {})

CreateStandalonePfi(p, litres) ==
  /\ pfi[p].status = "none"
  /\ pfi' = [pfi EXCEPT ![p] = [status |-> "pending", quantity |-> litres]]
  /\ UNCHANGED <<live, allocation, payment, drawing, invoiceVars, voucher, deciding>>

\* A PFI generated from an operation, with its PDF, is not allocated to it.
GeneratePfi(p, o, litres) ==
  /\ o \in live
  /\ CreateStandalonePfi(p, litres)

\* Mistakes are corrected, with no status gate: nothing looks at what is allocated.
UpdatePfi(p, litres) ==
  /\ pfi[p].status # "none"
  /\ pfi' = [pfi EXCEPT ![p].quantity = litres]
  /\ UNCHANGED <<live, allocation, payment, drawing, invoiceVars, voucher, deciding>>

ConfirmPfiPayment(p) ==
  /\ pfi[p].status \in {"pending", "payment_initiated"}
  /\ pfi' = [pfi EXCEPT ![p].status = "paid"]
  /\ UNCHANGED <<live, allocation, payment, drawing, invoiceVars, voucher, deciding>>

Fits(litres, room) == litres <= room

\* From its own route, and for each PFI named on the form that creates an
\* operation, one after the other in that request.  A row is a new one: no
\* request still holds its key.
BeginAllocate(q, a, p, o, litres) ==
  /\ drawing[q] = NotDrawing
  /\ allocation[a] = FreeAllocation
  /\ \A r \in Requests : drawing[r].row # a
  /\ pfi[p].status # "none" /\ pfi[p].quantity # NoQuantity
  /\ o \in live
  /\ Fits(litres, Room(p))
  /\ drawing' = [drawing EXCEPT ![q] =
       [at |-> "draw", row |-> a, pfi |-> p, on |-> o, litres |-> litres,
        room |-> Room(p), linked |-> pfi[p].status = "linked"]]
  /\ UNCHANGED <<live, pfi, allocation, payment, invoiceVars, voucher, deciding>>

CommitAllocate(q) ==
  LET d == drawing[q] IN
  /\ d.at = "draw"
  /\ allocation' = [allocation EXCEPT ![d.row] = [pfi |-> d.pfi, on |-> d.on, litres |-> d.litres]]
  /\ pfi' = IF d.linked THEN pfi ELSE [pfi EXCEPT ![d.pfi].status = "linked"]
  /\ drawing' = [drawing EXCEPT ![q] = NotDrawing]
  /\ UNCHANGED <<live, payment, invoiceVars, voucher, deciding>>

RoomUnchecked(a) == MaxLitres

\* The allocation itself does not count against the room it asks for.  With no
\* quantity on the PFI nothing is checked.
RoomBesides(a) == pfi[allocation[a].pfi].quantity - Allocated(allocation[a].pfi, {a})

\* An edit to the value it has read writes nothing.
BeginUpdateAllocation(q, a, litres) ==
  LET p == allocation[a].pfi IN
  /\ drawing[q] = NotDrawing
  /\ allocation[a] # FreeAllocation
  /\ litres # allocation[a].litres
  /\ pfi[p].quantity # NoQuantity => Fits(litres, RoomBesides(a))
  /\ drawing' = [drawing EXCEPT ![q] =
       [at |-> "redraw", row |-> a, pfi |-> p, on |-> allocation[a].on, litres |-> litres,
        room |-> Room(p) + allocation[a].litres, linked |-> FALSE]]
  /\ UNCHANGED <<live, pfi, allocation, payment, invoiceVars, voucher, deciding>>

\* The row may have been deleted: the UPDATE then matches nothing and the
\* session is rolled back.
CommitUpdateAllocation(q) ==
  LET d == drawing[q] IN
  /\ d.at = "redraw"
  /\ allocation' = IF allocation[d.row] = FreeAllocation THEN allocation
                   ELSE [allocation EXCEPT ![d.row].litres = d.litres]
  /\ drawing' = [drawing EXCEPT ![q] = NotDrawing]
  /\ UNCHANGED <<live, pfi, payment, invoiceVars, voucher, deciding>>

\* The PFI keeps the status the allocation gave it.
DeleteAllocation(a) ==
  /\ allocation[a] # FreeAllocation
  /\ allocation' = [allocation EXCEPT ![a] = FreeAllocation]
  /\ UNCHANGED <<live, pfi, payment, drawing, invoiceVars, voucher, deciding>>

\* For a PFI that is allocated to the operation.
RecordPayment(y, p, o) ==
  /\ payment[y].pfi = NoPfi
  /\ o \in live
  /\ \E a \in Drawn(p) : allocation[a].on = o
  /\ payment' = [payment EXCEPT ![y] = [pfi |-> p, on |-> o]]
  /\ pfi' = [pfi EXCEPT ![p].status = "payment_initiated"]
  /\ UNCHANGED <<live, allocation, drawing, invoiceVars, voucher, deciding>>

\* Nothing is written on the payment, and the PFI's status is not looked at.
ConfirmPayment(y) ==
  /\ payment[y].pfi # NoPfi
  /\ payment[y].on \in live
  /\ pfi' = [pfi EXCEPT ![payment[y].pfi].status = "paid"]
  /\ UNCHANGED <<live, allocation, payment, drawing, invoiceVars, voucher, deciding>>

-----------------------------------------------------------------------------
(* Invoices.                                                                *)

For(b) == {i \in Invoices : invoice[i].status # "none" /\ invoice[i].bdn = b}

BilledOpenly(b) == \E i \in For(b) : invoice[i].status # "cancelled"

\* Cancelled invoices count: a delivery note is never billed again.
Billed(b) == For(b) # {}

\* The PDF is rendered and uploaded inside the request, between the check and
\* the commit; should the upload fail the row goes with it.
Draft(q, i, b) ==
  /\ billing[q] = NotBilling
  /\ invoice[i].status = "none"
  /\ \A r \in Requests : billing[r].row # i
  /\ billing' = [billing EXCEPT ![q] = [row |-> i, bdn |-> b]]
  /\ UNCHANGED <<live, pfiVars, invoice, voucher, deciding>>

\* b = NoBdn: an invoice for the operation as a whole.
BeginInvoice(q, i, o, b) ==
  /\ o \in live
  /\ b # NoBdn => BdnOf[b] = o /\ ~Billed(b)
  /\ Draft(q, i, b)

BeginStandaloneInvoice(q, i) == Draft(q, i, NoBdn)

CommitInvoice(q) ==
  /\ billing[q] # NotBilling
  /\ invoice' = [invoice EXCEPT ![billing[q].row] = [status |-> "draft", bdn |-> billing[q].bdn]]
  /\ billing' = [billing EXCEPT ![q] = NotBilling]
  /\ UNCHANGED <<live, pfiVars, voucher, deciding>>

UploadFails(q) ==
  /\ billing[q] # NotBilling
  /\ billing' = [billing EXCEPT ![q] = NotBilling]
  /\ UNCHANGED <<live, pfiVars, invoice, voucher, deciding>>

InvoiceMoveAnytime ==
  [sent |-> {"draft"}, paid |-> {"sent"}, cancelled |-> {"draft", "sent", "paid"}]

\* "overdue" is accepted beside "sent", but nothing sets it.
InvoiceMove ==
  [sent |-> {"draft"}, paid |-> {"sent"}, cancelled |-> {"draft", "sent"}]

\* send, mark-paid and cancel
BeginMoveInvoice(q, i, to) ==
  /\ deciding[q] = NotDeciding
  /\ invoice[i].status \in InvoiceMove[to]
  /\ deciding' = [deciding EXCEPT ![q] = Moving(i, to)]
  /\ UNCHANGED <<live, pfiVars, invoiceVars, voucher>>

CommitMoveInvoice(q) ==
  /\ deciding[q].invoice # NoInvoice
  /\ invoice' = [invoice EXCEPT ![deciding[q].invoice].status = deciding[q].to]
  /\ deciding' = [deciding EXCEPT ![q] = NotDeciding]
  /\ UNCHANGED <<live, pfiVars, billing, voucher>>

-----------------------------------------------------------------------------
(* Vouchers.                                                                *)

\* One, or up to fifty in a request that commits once; on an operation or on none.
CreateVouchers(given, by) ==
  /\ given # {}
  /\ \A v \in given : voucher[v].status = "none"
  /\ voucher' = [v \in Vouchers |-> IF v \in given
       THEN [status |-> "draft", by |-> by, receipt |-> FALSE] ELSE voucher[v]]
  /\ UNCHANGED <<live, pfiVars, invoiceVars, deciding>>

Final == {"approved", "rejected"}
Verdicts == {"submitted", "approved", "rejected", "receipt"}

Decidable(v, to) ==
  CASE to = "submitted" -> voucher[v].status = "draft"
    [] to \in Final     -> voucher[v].status = "submitted"
    [] to = "receipt"   -> voucher[v].status \notin Final \cup {"none"}

\* Submitting is for whoever recorded the voucher, or a bunker manager.
MayDecide(v, to, by) ==
  to = "submitted" => voucher[v].by = by \/ by \in BunkerManagers

\* submit, approve, reject and attach-receipt
BeginDecide(q, v, to, by) ==
  /\ deciding[q] = NotDeciding
  /\ MayDecide(v, to, by)
  /\ Decidable(v, to)
  /\ deciding' = [deciding EXCEPT ![q] = Judging(v, to)]
  /\ UNCHANGED <<live, pfiVars, invoiceVars, voucher>>

CommitDecide(q) ==
  LET v == deciding[q].voucher IN
  /\ v # NoVoucher
  /\ voucher' = IF deciding[q].to = "receipt" THEN [voucher EXCEPT ![v].receipt = TRUE]
                ELSE [voucher EXCEPT ![v].status = deciding[q].to]
  /\ deciding' = [deciding EXCEPT ![q] = NotDeciding]
  /\ UNCHANGED <<live, pfiVars, invoiceVars>>

-----------------------------------------------------------------------------

PfiNext ==
  \/ \E p \in Pfis, litres \in Litres \cup {NoQuantity} : CreateStandalonePfi(p, litres)
  \/ \E p \in Pfis, o \in Operations, litres \in Litres \cup {NoQuantity} :
       GeneratePfi(p, o, litres)
  \/ \E p \in Pfis, litres \in Litres \cup {NoQuantity} : UpdatePfi(p, litres)
  \/ \E p \in Pfis : ConfirmPfiPayment(p)
  \/ \E q \in Requests, a \in Allocations, p \in Pfis, o \in Operations, litres \in Litres :
       BeginAllocate(q, a, p, o, litres)
  \/ \E q \in Requests, a \in Allocations, litres \in Litres : BeginUpdateAllocation(q, a, litres)
  \/ \E q \in Requests : CommitAllocate(q)
  \/ \E q \in Requests : CommitUpdateAllocation(q)
  \/ \E a \in Allocations : DeleteAllocation(a)
  \/ \E y \in Payments, p \in Pfis, o \in Operations : RecordPayment(y, p, o)
  \/ \E y \in Payments : ConfirmPayment(y)

InvoiceNext ==
  \/ \E q \in Requests, i \in Invoices, o \in Operations, b \in Bdns \cup {NoBdn} :
       BeginInvoice(q, i, o, b)
  \/ \E q \in Requests, i \in Invoices : BeginStandaloneInvoice(q, i)
  \/ \E q \in Requests : CommitInvoice(q)
  \/ \E q \in Requests : UploadFails(q)
  \/ \E q \in Requests, i \in Invoices, to \in DOMAIN InvoiceMove : BeginMoveInvoice(q, i, to)
  \/ \E q \in Requests : CommitMoveInvoice(q)

VoucherNext ==
  \/ \E given \in SUBSET Vouchers, by \in Officers : CreateVouchers(given, by)
  \/ \E q \in Requests, v \in Vouchers, to \in Verdicts, by \in Officers :
       BeginDecide(q, v, to, by)
  \/ \E q \in Requests : CommitDecide(q)

Next ==
  \/ \E o \in Operations : SoftDeleteOperation(o)
  \/ PfiNext
  \/ InvoiceNext
  \/ VoucherNext

Spec == Init /\ [][Next]_vars

-----------------------------------------------------------------------------
(* Properties.                                                              *)

\* A PFI comes to have more litres allocated than it covers in two ways only:
\* its quantity is edited underneath, or a request commits a draw that it
\* checked against a room that was no longer there.  Requests that do not
\* overlap never overdraw it (allocate_pfi_to_operation, update_allocation).
OverdrawnOnlyUnseen ==
  [][\A p \in Pfis : Room(p) >= 0 /\ Room(p)' < 0 =>
       \/ pfi'[p].quantity # pfi[p].quantity
       \/ pfi[p].quantity = NoQuantity
       \/ \E q \in Requests :
            /\ drawing[q].pfi = p /\ drawing'[q] = NotDrawing
            /\ drawing[q].room # Room(p) + (IF drawing[q].at = "redraw"
                                            THEN allocation[drawing[q].row].litres ELSE 0)]_vars

BilledStep(b) ==
  For(b) # {} /\ (\A q \in Requests : billing[q].bdn # b) =>
    For(b)' = For(b) /\ \A q \in Requests : billing'[q].bdn # b

\* A delivery note that has an invoice, cancelled or not, keeps the ones it has
\* and gets no other, unless the request was under way before (create_invoice).
BilledForGood == [][\A b \in Bdns : BilledStep(b)]_vars

PaidStep(i) ==
  /\ invoice[i].status \in {"paid", "cancelled"}
  /\ \A q \in Requests : deciding[q].invoice # i
  => invoice'[i] = invoice[i] /\ \A q \in Requests : deciding'[q].invoice # i

DecidedStep(v) ==
  /\ voucher[v].status \in Final
  /\ \A q \in Requests : deciding[q].voucher # v
  => voucher'[v] = voucher[v] /\ \A q \in Requests : deciding'[q].voucher # v

\* Money received and decisions taken stand: a paid or cancelled invoice and a
\* decided voucher, its receipt included, change only through a request that
\* read the row before (mark_paid, cancel_invoice, submit_voucher, approve_voucher,
\* attach_receipt).
FinalChangesOnlyUnseen ==
  [][(\A i \in Invoices : PaidStep(i)) /\ (\A v \in Vouchers : DecidedStep(v))]_vars
=============================================================================
