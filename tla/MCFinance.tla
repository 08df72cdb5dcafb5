------------------------------ MODULE MCFinance ------------------------------
\* One PFI over two operations, two invoices, two vouchers.  PFIs, invoices and
\* vouchers share no variable but the live operations and the requests that
\* decide, so they are explored one at a time.
EXTENDS Finance, TLC

CONSTANTS o1, o2, b1

BdnOfDef == [b \in {b1} |-> o1]

PfiTouched == \E p \in Pfis : pfi[p].status # "none"
InvoicesTouched == \E i \in Invoices : invoice[i].status # "none" \/ \E q \in Requests : billing[q].row = i
VouchersTouched == \E v \in Vouchers : voucher[v].status # "none"

OneAreaAtATime ==
  /\ ~(PfiTouched /\ InvoicesTouched)
  /\ ~(PfiTouched /\ VouchersTouched)
  /\ ~(InvoicesTouched /\ VouchersTouched)

Symmetry == Permutations(Allocations) \cup Permutations(Requests) \cup Permutations(Invoices)
            \cup Permutations(Vouchers)
=============================================================================
