--------------------------- MODULE BackOfficeProofs ---------------------------
(***************************************************************************)
(* Proofs about the back office.  Finance, for any number of operations,   *)
(* PFIs, allocations, delivery notes, invoices, vouchers and overlapping   *)
(* requests: what is billed stays billed, what is settled stays settled,   *)
(* and a PFI is overdrawn by nothing but a stale room or an edit.          *)
(* Accounts, for any number of users, identities and overlapping calls:    *)
(* the last manager is lost only by a stale count, an identity its owner   *)
(* only by a fault.                                                        *)
(***************************************************************************)
EXTENDS Finance, Accounts, SumTheorems

\* Invoices, vouchers and the requests on them keep their types.
MoneyTyped ==
  /\ invoice \in [Invoices -> Invoice]
  /\ voucher \in [Vouchers -> Voucher]
  /\ billing \in [Requests -> Billing]
  /\ deciding \in [Requests -> Deciding]

\* An invoice under way has a row of its own that is not there yet.
DraftsApart ==
  \A q \in Requests :
    billing[q] # NotBilling =>
      /\ billing[q].row \in Invoices
      /\ invoice[billing[q].row].status = "none"
      /\ \A r \in Requests \ {q} : billing[r].row # billing[q].row

\* A decision under way is about one invoice or about one voucher, and that is there.
DecisionsMeant ==
  \A q \in Requests :
    /\ deciding[q].invoice # NoInvoice =>
         /\ deciding[q].to \in {"sent", "paid", "cancelled"}
         /\ invoice[deciding[q].invoice].status # "none"
    /\ deciding[q].voucher # NoVoucher =>
         /\ deciding[q].invoice = NoInvoice
         /\ deciding[q].to \in Verdicts
         /\ voucher[deciding[q].voucher].status # "none"

MoneyInv == MoneyTyped /\ DraftsApart /\ DecisionsMeant

moneyVars == <<invoice, voucher, billing, deciding>>

-----------------------------------------------------------------------------
(* What the steps leave alone.                                              *)

\* A step that touches neither invoices nor vouchers.
LEMMA PfiSteps ==
  ASSUME PfiNext \/ \E o \in Operations : SoftDeleteOperation(o)
  PROVE  UNCHANGED moneyVars
<1>1. CASE PfiNext
  BY <1>1 DEF PfiNext, CreateStandalonePfi, GeneratePfi, UpdatePfi, ConfirmPfiPayment,
              BeginAllocate, BeginUpdateAllocation, CommitAllocate, CommitUpdateAllocation,
              DeleteAllocation, RecordPayment, ConfirmPayment, invoiceVars, moneyVars
<1>2. CASE \E o \in Operations : SoftDeleteOperation(o)
  BY <1>2 DEF SoftDeleteOperation, invoiceVars, moneyVars
<1> QED
  BY <1>1, <1>2

LEMMA MoneyUntouched == ASSUME UNCHANGED moneyVars, MoneyInv PROVE MoneyInv'
BY DEF moneyVars, MoneyInv, MoneyTyped, DraftsApart, DecisionsMeant, NotBilling

LEMMA DraftFacts ==
  ASSUME MoneyInv, NEW q \in Requests, NEW i \in Invoices, NEW b \in Bdns \cup {NoBdn},
         Draft(q, i, b)
  PROVE  MoneyInv'
<1>1. billing' = [billing EXCEPT ![q] = [row |-> i, bdn |-> b]] /\ UNCHANGED <<invoice, voucher, deciding>>
  BY DEF Draft
<1>2. MoneyTyped'
  BY <1>1 DEF MoneyInv, MoneyTyped, Billing
<1>3. billing'[q].row = i /\ \A r \in Requests \ {q} : billing'[r] = billing[r]
  BY <1>1 DEF MoneyInv, MoneyTyped
<1>4. DraftsApart'
  BY <1>1, <1>3 DEF Draft, MoneyInv, DraftsApart, NotBilling
<1>5. DecisionsMeant'
  BY <1>1 DEF MoneyInv, DecisionsMeant
<1> QED
  BY <1>2, <1>4, <1>5 DEF MoneyInv

LEMMA CommitFacts ==
  ASSUME MoneyInv, NEW q \in Requests, CommitInvoice(q)
  PROVE  MoneyInv'
<1>1. /\ billing' = [billing EXCEPT ![q] = NotBilling]
      /\ invoice' = [invoice EXCEPT ![billing[q].row] = [status |-> "draft", bdn |-> billing[q].bdn]]
      /\ UNCHANGED <<voucher, deciding>>
  BY DEF CommitInvoice
<1>2. billing[q].bdn \in Bdns \cup {NoBdn} /\ billing[q].row \in Invoices
  BY DEF CommitInvoice, MoneyInv, MoneyTyped, Billing, DraftsApart
<1>3. MoneyTyped'
  BY <1>1, <1>2 DEF MoneyInv, MoneyTyped, Billing, Invoice, NotBilling
<1>4. billing'[q] = NotBilling /\ \A r \in Requests \ {q} : billing'[r] = billing[r]
  BY <1>1 DEF MoneyInv, MoneyTyped
<1>5. \A r \in Requests \ {q} : billing[r] # NotBilling => billing[r].row # billing[q].row
  BY DEF CommitInvoice, MoneyInv, DraftsApart
<1>6. \A r \in Requests \ {q} :
        billing[r] # NotBilling => invoice'[billing[r].row] = invoice[billing[r].row]
  BY <1>1, <1>5 DEF MoneyInv, DraftsApart, MoneyTyped
<1>7. ASSUME NEW r \in Requests, billing'[r] # NotBilling
      PROVE  /\ billing'[r].row \in Invoices
             /\ invoice'[billing'[r].row].status = "none"
             /\ \A x \in Requests \ {r} : billing'[x].row # billing'[r].row
  <2>1. r # q /\ billing'[r] = billing[r]
    BY <1>4, <1>7
  <2>2. billing[r].row \in Invoices
    BY <1>7, <2>1 DEF MoneyInv, DraftsApart
  <2>3. billing'[q].row # billing[r].row
    BY <1>4, <2>2, FinanceAssumption DEF NotBilling
  <2> QED
    BY <1>4, <1>6, <1>7, <2>1, <2>2, <2>3 DEF MoneyInv, DraftsApart
<1>8. DraftsApart'
  BY <1>7 DEF DraftsApart, NotBilling
<1>9. DecisionsMeant'
  BY <1>1, <1>2 DEF MoneyInv, DecisionsMeant, MoneyTyped, Deciding
<1> QED
  BY <1>3, <1>8, <1>9 DEF MoneyInv

LEMMA UploadFacts ==
  ASSUME MoneyInv, NEW q \in Requests, UploadFails(q)
  PROVE  MoneyInv'
<1>1. billing' = [billing EXCEPT ![q] = NotBilling] /\ UNCHANGED <<invoice, voucher, deciding>>
  BY DEF UploadFails
<1>2. MoneyTyped'
  BY <1>1 DEF MoneyInv, MoneyTyped, Billing, NotBilling
<1>3. billing'[q] = NotBilling /\ \A r \in Requests \ {q} : billing'[r] = billing[r]
  BY <1>1 DEF MoneyInv, MoneyTyped
<1>4. DraftsApart'
  BY <1>1, <1>3, FinanceAssumption DEF MoneyInv, DraftsApart, NotBilling
<1>5. DecisionsMeant'
  BY <1>1 DEF MoneyInv, DecisionsMeant
<1> QED
  BY <1>2, <1>4, <1>5 DEF MoneyInv

LEMMA MoveFacts ==
  ASSUME MoneyInv, NEW q \in Requests, NEW i \in Invoices, NEW to \in DOMAIN InvoiceMove,
         BeginMoveInvoice(q, i, to)
  PROVE  MoneyInv'
<1>1. to \in {"sent", "paid", "cancelled"} /\ invoice[i].status # "none"
  BY DEF InvoiceMove, BeginMoveInvoice
<1>2. deciding' = [deciding EXCEPT ![q] = Moving(i, to)] /\ UNCHANGED <<invoice, voucher, billing>>
  BY DEF BeginMoveInvoice, invoiceVars
<1>3. MoneyTyped'
  BY <1>1, <1>2 DEF MoneyInv, MoneyTyped, Deciding, Decisions, Moving
<1>4. DraftsApart'
  BY <1>2 DEF MoneyInv, DraftsApart, NotBilling
<1>5. deciding'[q] = Moving(i, to) /\ \A r \in Requests \ {q} : deciding'[r] = deciding[r]
  BY <1>2 DEF MoneyInv, MoneyTyped
<1>6. DecisionsMeant'
  BY <1>1, <1>2, <1>5 DEF MoneyInv, DecisionsMeant, Moving
<1> QED
  BY <1>3, <1>4, <1>6 DEF MoneyInv

LEMMA CommitMoveFacts ==
  ASSUME MoneyInv, NEW q \in Requests, CommitMoveInvoice(q)
  PROVE  MoneyInv'
<1> DEFINE i == deciding[q].invoice
<1>1. /\ i \in Invoices /\ deciding[q].to \in {"sent", "paid", "cancelled"}
      /\ invoice[i].status # "none"
  BY DEF CommitMoveInvoice, MoneyInv, MoneyTyped, Deciding, DecisionsMeant
<1>2. /\ invoice' = [invoice EXCEPT ![i].status = deciding[q].to]
      /\ deciding' = [deciding EXCEPT ![q] = NotDeciding]
      /\ UNCHANGED <<voucher, billing>>
  BY DEF CommitMoveInvoice
<1>3. MoneyTyped'
  BY <1>1, <1>2 DEF MoneyInv, MoneyTyped, Deciding, Decisions, NotDeciding, Invoice
<1>4. \A x \in Invoices : invoice'[x].status = "none" <=> invoice[x].status = "none"
  BY <1>1, <1>2 DEF MoneyInv, MoneyTyped
<1>5. DraftsApart'
  BY <1>2, <1>4 DEF MoneyInv, DraftsApart, NotBilling
<1>6. deciding'[q] = NotDeciding /\ \A r \in Requests \ {q} : deciding'[r] = deciding[r]
  BY <1>2 DEF MoneyInv, MoneyTyped
<1>7. DecisionsMeant'
  BY <1>2, <1>4, <1>6 DEF MoneyInv, DecisionsMeant, NotDeciding, MoneyTyped, Deciding
<1> QED
  BY <1>3, <1>5, <1>7 DEF MoneyInv

LEMMA RecordFacts ==
  ASSUME MoneyInv, NEW given \in SUBSET Vouchers, NEW by \in Officers, CreateVouchers(given, by)
  PROVE  MoneyInv'
<1>1. /\ voucher' = [v \in Vouchers |-> IF v \in given
           THEN [status |-> "draft", by |-> by, receipt |-> FALSE] ELSE voucher[v]]
      /\ UNCHANGED <<invoice, billing, deciding>>
  BY DEF CreateVouchers, invoiceVars
<1>2. MoneyTyped'
  BY <1>1 DEF MoneyInv, MoneyTyped, Voucher
<1>3. DraftsApart'
  BY <1>1 DEF MoneyInv, DraftsApart, NotBilling
<1>4. \A v \in Vouchers : voucher[v].status # "none" => voucher'[v].status # "none"
  BY <1>1
<1>5. DecisionsMeant'
  BY <1>1, <1>4 DEF MoneyInv, DecisionsMeant, MoneyTyped, Deciding
<1> QED
  BY <1>2, <1>3, <1>5 DEF MoneyInv

LEMMA DecideFacts ==
  ASSUME MoneyInv, NEW q \in Requests, NEW v \in Vouchers, NEW to \in Verdicts,
         NEW by, BeginDecide(q, v, to, by)
  PROVE  MoneyInv'
<1>1. to \in Verdicts /\ voucher[v].status # "none"
  BY DEF Final, Verdicts, BeginDecide, Decidable
<1>2. deciding' = [deciding EXCEPT ![q] = Judging(v, to)] /\ UNCHANGED <<invoice, voucher, billing>>
  BY DEF BeginDecide, invoiceVars
<1>3. MoneyTyped'
  BY <1>1, <1>2 DEF MoneyInv, MoneyTyped, Deciding, Decisions, Verdicts, Judging
<1>4. DraftsApart'
  BY <1>2 DEF MoneyInv, DraftsApart, NotBilling
<1>5. deciding'[q] = Judging(v, to) /\ \A r \in Requests \ {q} : deciding'[r] = deciding[r]
  BY <1>2 DEF MoneyInv, MoneyTyped
<1>6. DecisionsMeant'
  BY <1>1, <1>2, <1>5 DEF MoneyInv, DecisionsMeant, Judging
<1> QED
  BY <1>3, <1>4, <1>6 DEF MoneyInv

LEMMA CommitDecideFacts ==
  ASSUME MoneyInv, NEW q \in Requests, CommitDecide(q)
  PROVE  MoneyInv'
<1> DEFINE v == deciding[q].voucher
<1>1. v \in Vouchers /\ deciding[q].to \in Verdicts
  BY DEF CommitDecide, MoneyInv, MoneyTyped, Deciding, DecisionsMeant
<1>2. /\ voucher' = IF deciding[q].to = "receipt" THEN [voucher EXCEPT ![v].receipt = TRUE]
                    ELSE [voucher EXCEPT ![v].status = deciding[q].to]
      /\ deciding' = [deciding EXCEPT ![q] = NotDeciding]
      /\ UNCHANGED <<invoice, billing>>
  BY DEF CommitDecide, invoiceVars
<1>3. MoneyTyped'
  BY <1>1, <1>2 DEF MoneyInv, MoneyTyped, Deciding, Decisions, Verdicts, NotDeciding, Voucher
<1>4. \A x \in Vouchers : voucher[x].status # "none" => voucher'[x].status # "none"
  BY <1>1, <1>2 DEF MoneyInv, MoneyTyped, Verdicts
<1>5. DraftsApart'
  BY <1>2 DEF MoneyInv, DraftsApart, NotBilling
<1>6. deciding'[q] = NotDeciding /\ \A r \in Requests \ {q} : deciding'[r] = deciding[r]
  BY <1>2 DEF MoneyInv, MoneyTyped
<1>7. DecisionsMeant'
  BY <1>2, <1>4, <1>6 DEF MoneyInv, DecisionsMeant, NotDeciding, MoneyTyped, Deciding
<1> QED
  BY <1>3, <1>5, <1>7 DEF MoneyInv

-----------------------------------------------------------------------------
(* The invariant.                                                           *)

LEMMA StepMoney == MoneyInv /\ [Next]_vars => MoneyInv'
<1> SUFFICES ASSUME MoneyInv, [Next]_vars
             PROVE  MoneyInv'
  OBVIOUS
<1>1. CASE UNCHANGED vars
  BY <1>1, MoneyUntouched DEF vars, moneyVars
<1>2. CASE PfiNext \/ \E o \in Operations : SoftDeleteOperation(o)
  BY <1>2, PfiSteps, MoneyUntouched
<1>3. CASE InvoiceNext
  BY <1>3, DraftFacts, CommitFacts, UploadFacts, MoveFacts, CommitMoveFacts
     DEF InvoiceNext, BeginInvoice, BeginStandaloneInvoice
<1>4. CASE VoucherNext
  BY <1>4, RecordFacts, DecideFacts, CommitDecideFacts DEF VoucherNext
<1> QED
  BY <1>1, <1>2, <1>3, <1>4 DEF Next

\* No row is written by a request that was not about it: the invariant.
THEOREM MoneySafe == Spec => []MoneyInv
<1>1. Init => MoneyInv
  <2> SUFFICES ASSUME Init PROVE MoneyInv
    OBVIOUS
  <2>1. MoneyTyped
    BY DEF Init, MoneyTyped, Invoice, Voucher, Billing, Deciding, Decisions, NotBilling, NotDeciding
  <2>2. DraftsApart
    BY DEF Init, DraftsApart
  <2>3. DecisionsMeant
    BY DEF Init, DecisionsMeant, NotDeciding
  <2> QED
    BY <2>1, <2>2, <2>3 DEF MoneyInv
<1>2. MoneyInv /\ [Next]_vars => MoneyInv'
  BY StepMoney
<1> QED
  BY <1>1, <1>2, PTL DEF Spec

-----------------------------------------------------------------------------
(* A delivery note is billed once.                                          *)

LEMMA StepBilled == MoneyInv /\ [Next]_vars => \A b \in Bdns : BilledStep(b)
<1> SUFFICES ASSUME MoneyInv, [Next]_vars, NEW b \in Bdns,
                    For(b) # {}, \A q \in Requests : billing[q].bdn # b
             PROVE  For(b)' = For(b) /\ \A q \in Requests : billing'[q].bdn # b
  BY DEF BilledStep
<1>1. ASSUME UNCHANGED <<invoice, billing>>
      PROVE  For(b)' = For(b) /\ \A q \in Requests : billing'[q].bdn # b
  BY <1>1 DEF For
<1>2. CASE UNCHANGED vars
  BY <1>1, <1>2 DEF vars
<1>3. CASE PfiNext \/ \E o \in Operations : SoftDeleteOperation(o)
  BY <1>1, <1>3, PfiSteps DEF moneyVars
<1>4. CASE VoucherNext
  BY <1>1, <1>4 DEF VoucherNext, CreateVouchers, BeginDecide, CommitDecide, invoiceVars
<1>5. ASSUME NEW q \in Requests, NEW i \in Invoices, NEW other \in (Bdns \cup {NoBdn}) \ {b},
             Draft(q, i, other)
      PROVE  For(b)' = For(b) /\ \A r \in Requests : billing'[r].bdn # b
  <2>1. billing' = [billing EXCEPT ![q] = [row |-> i, bdn |-> other]] /\ invoice' = invoice
    BY <1>5 DEF Draft
  <2>2. \A r \in Requests : billing'[r].bdn \in {other, billing[r].bdn}
    BY <2>1 DEF MoneyInv, MoneyTyped
  <2> QED
    BY <2>1, <2>2 DEF For
<1>6. ASSUME NEW q \in Requests, NEW i \in Invoices, NEW o \in Operations,
             NEW other \in Bdns \cup {NoBdn}, BeginInvoice(q, i, o, other)
      PROVE  For(b)' = For(b) /\ \A r \in Requests : billing'[r].bdn # b
  <2>1. other # b
    BY <1>6, FinanceAssumption DEF BeginInvoice, Billed
  <2> QED
    BY <1>5, <1>6, <2>1 DEF BeginInvoice
<1>7. ASSUME NEW q \in Requests, NEW i \in Invoices, BeginStandaloneInvoice(q, i)
      PROVE  For(b)' = For(b) /\ \A r \in Requests : billing'[r].bdn # b
  BY <1>5, <1>7, FinanceAssumption DEF BeginStandaloneInvoice
<1>8. ASSUME NEW q \in Requests, CommitInvoice(q)
      PROVE  For(b)' = For(b) /\ \A r \in Requests : billing'[r].bdn # b
  <2>1. /\ billing' = [billing EXCEPT ![q] = NotBilling]
        /\ invoice' = [invoice EXCEPT ![billing[q].row] = [status |-> "draft", bdn |-> billing[q].bdn]]
    BY <1>8 DEF CommitInvoice
  <2>2. billing[q].row \in Invoices /\ invoice[billing[q].row].status = "none" /\ billing[q].bdn # b
    BY <1>8 DEF CommitInvoice, MoneyInv, DraftsApart
  <2>3. For(b)' = For(b)
    BY <2>1, <2>2 DEF For, MoneyInv, MoneyTyped
  <2>4. \A r \in Requests : billing'[r].bdn \in {NoBdn, billing[r].bdn}
    BY <2>1 DEF MoneyInv, MoneyTyped, NotBilling
  <2> QED
    BY <2>3, <2>4, FinanceAssumption
<1>9. ASSUME NEW q \in Requests, UploadFails(q)
      PROVE  For(b)' = For(b) /\ \A r \in Requests : billing'[r].bdn # b
  <2>1. billing' = [billing EXCEPT ![q] = NotBilling] /\ invoice' = invoice
    BY <1>9 DEF UploadFails
  <2>2. \A r \in Requests : billing'[r].bdn \in {NoBdn, billing[r].bdn}
    BY <2>1 DEF MoneyInv, MoneyTyped, NotBilling
  <2> QED
    BY <2>1, <2>2, FinanceAssumption DEF For
<1>10. ASSUME NEW q \in Requests, NEW i \in Invoices, NEW to \in DOMAIN InvoiceMove,
              BeginMoveInvoice(q, i, to)
       PROVE  For(b)' = For(b) /\ \A r \in Requests : billing'[r].bdn # b
  BY <1>1, <1>10 DEF BeginMoveInvoice, invoiceVars
<1>11. ASSUME NEW q \in Requests, CommitMoveInvoice(q)
       PROVE  For(b)' = For(b) /\ \A r \in Requests : billing'[r].bdn # b
  <2>1. /\ invoice' = [invoice EXCEPT ![deciding[q].invoice].status = deciding[q].to]
        /\ billing' = billing
    BY <1>11 DEF CommitMoveInvoice
  <2>2. /\ deciding[q].invoice \in Invoices /\ deciding[q].to # "none"
        /\ invoice[deciding[q].invoice].status # "none"
    BY <1>11 DEF CommitMoveInvoice, MoneyInv, MoneyTyped, Deciding, DecisionsMeant
  <2>3. \A i \in Invoices : /\ invoice'[i].bdn = invoice[i].bdn
                            /\ invoice'[i].status = "none" <=> invoice[i].status = "none"
    BY <2>1, <2>2 DEF MoneyInv, MoneyTyped
  <2> QED
    BY <2>1, <2>3 DEF For
<1>12. CASE InvoiceNext
  BY <1>6, <1>7, <1>8, <1>9, <1>10, <1>11, <1>12 DEF InvoiceNext
<1> QED
  BY <1>2, <1>3, <1>4, <1>12 DEF Next

\* A delivery note with an invoice gets no second one from a request that
\* starts afterwards, however invoices are cancelled, sent and paid meanwhile.
THEOREM BilledOnce == Spec => BilledForGood
<1>1. MoneyInv /\ [Next]_vars => \A b \in Bdns : BilledStep(b)
  BY StepBilled
<1> QED
  BY <1>1, MoneySafe, PTL DEF Spec, BilledForGood

-----------------------------------------------------------------------------
(* What is settled stays settled.                                           *)

LEMMA StepPaid == MoneyInv /\ [Next]_vars => \A i \in Invoices : PaidStep(i)
<1> SUFFICES ASSUME MoneyInv, [Next]_vars, NEW i \in Invoices,
                    invoice[i].status \in {"paid", "cancelled"},
                    \A q \in Requests : deciding[q].invoice # i
             PROVE  invoice'[i] = invoice[i] /\ \A q \in Requests : deciding'[q].invoice # i
  BY DEF PaidStep
<1>1. ASSUME UNCHANGED <<invoice, deciding>>
      PROVE  invoice'[i] = invoice[i] /\ \A q \in Requests : deciding'[q].invoice # i
  BY <1>1
<1>2. CASE UNCHANGED vars
  BY <1>1, <1>2 DEF vars
<1>3. CASE PfiNext \/ \E o \in Operations : SoftDeleteOperation(o)
  BY <1>1, <1>3, PfiSteps DEF moneyVars
<1>4. ASSUME NEW q \in Requests, CommitInvoice(q)
      PROVE  invoice'[i] = invoice[i] /\ deciding' = deciding
  <2>1. billing[q].row # i
    BY <1>4 DEF CommitInvoice, MoneyInv, DraftsApart
  <2> QED
    BY <1>4, <2>1 DEF CommitInvoice, MoneyInv, MoneyTyped
<1>5. ASSUME NEW q \in Requests, NEW x \in Invoices, NEW to \in DOMAIN InvoiceMove,
             BeginMoveInvoice(q, x, to)
      PROVE  invoice' = invoice /\ \A r \in Requests : deciding'[r].invoice # i
  <2>1. x # i
    BY <1>5 DEF BeginMoveInvoice, InvoiceMove
  <2>2. deciding' = [deciding EXCEPT ![q] = Moving(x, to)] /\ invoice' = invoice
    BY <1>5 DEF BeginMoveInvoice, invoiceVars
  <2>3. \A r \in Requests : deciding'[r].invoice \in {x, deciding[r].invoice}
    BY <2>2 DEF MoneyInv, MoneyTyped, Moving
  <2> QED
    BY <2>1, <2>2, <2>3
<1>6. ASSUME NEW q \in Requests, CommitMoveInvoice(q)
      PROVE  invoice'[i] = invoice[i] /\ \A r \in Requests : deciding'[r].invoice # i
  <2>1. /\ invoice' = [invoice EXCEPT ![deciding[q].invoice].status = deciding[q].to]
        /\ deciding' = [deciding EXCEPT ![q] = NotDeciding]
    BY <1>6 DEF CommitMoveInvoice
  <2>2. \A r \in Requests : deciding'[r].invoice \in {NoInvoice, deciding[r].invoice}
    BY <2>1 DEF MoneyInv, MoneyTyped, NotDeciding
  <2> QED
    BY <2>1, <2>2, FinanceAssumption DEF MoneyInv, MoneyTyped
<1>7. CASE InvoiceNext
  BY <1>1, <1>4, <1>5, <1>6, <1>7
     DEF InvoiceNext, BeginInvoice, BeginStandaloneInvoice, Draft, UploadFails
<1>8. ASSUME NEW q \in Requests, NEW v \in Vouchers, NEW to \in Verdicts, NEW by,
             BeginDecide(q, v, to, by)
      PROVE  invoice' = invoice /\ \A r \in Requests : deciding'[r].invoice # i
  <2>1. deciding' = [deciding EXCEPT ![q] = Judging(v, to)] /\ invoice' = invoice
    BY <1>8 DEF BeginDecide, invoiceVars
  <2>2. \A r \in Requests : deciding'[r].invoice \in {NoInvoice, deciding[r].invoice}
    BY <2>1 DEF MoneyInv, MoneyTyped, Judging
  <2> QED
    BY <2>1, <2>2, FinanceAssumption
<1>9. ASSUME NEW q \in Requests, CommitDecide(q)
      PROVE  invoice' = invoice /\ \A r \in Requests : deciding'[r].invoice # i
  <2>1. deciding' = [deciding EXCEPT ![q] = NotDeciding] /\ invoice' = invoice
    BY <1>9 DEF CommitDecide, invoiceVars
  <2>2. \A r \in Requests : deciding'[r].invoice \in {NoInvoice, deciding[r].invoice}
    BY <2>1 DEF MoneyInv, MoneyTyped, NotDeciding
  <2> QED
    BY <2>1, <2>2, FinanceAssumption
<1>10. CASE VoucherNext
  BY <1>1, <1>8, <1>9, <1>10 DEF VoucherNext, CreateVouchers, invoiceVars
<1> QED
  BY <1>2, <1>3, <1>7, <1>10 DEF Next

LEMMA StepDecided == MoneyInv /\ [Next]_vars => \A v \in Vouchers : DecidedStep(v)
<1> SUFFICES ASSUME MoneyInv, [Next]_vars, NEW v \in Vouchers,
                    voucher[v].status \in Final,
                    \A q \in Requests : deciding[q].voucher # v
             PROVE  voucher'[v] = voucher[v] /\ \A q \in Requests : deciding'[q].voucher # v
  BY DEF DecidedStep
<1>1. ASSUME UNCHANGED <<voucher, deciding>>
      PROVE  voucher'[v] = voucher[v] /\ \A q \in Requests : deciding'[q].voucher # v
  BY <1>1
<1>2. CASE UNCHANGED vars
  BY <1>1, <1>2 DEF vars
<1>3. CASE PfiNext \/ \E o \in Operations : SoftDeleteOperation(o)
  BY <1>1, <1>3, PfiSteps DEF moneyVars
<1>4. ASSUME NEW q \in Requests, NEW i \in Invoices, NEW to \in DOMAIN InvoiceMove,
             BeginMoveInvoice(q, i, to)
      PROVE  voucher' = voucher /\ \A r \in Requests : deciding'[r].voucher # v
  <2>1. deciding' = [deciding EXCEPT ![q] = Moving(i, to)] /\ voucher' = voucher
    BY <1>4 DEF BeginMoveInvoice
  <2>2. \A r \in Requests : deciding'[r].voucher \in {NoVoucher, deciding[r].voucher}
    BY <2>1 DEF MoneyInv, MoneyTyped, Moving
  <2> QED
    BY <2>1, <2>2, FinanceAssumption
<1>5. ASSUME NEW q \in Requests, CommitMoveInvoice(q)
      PROVE  voucher' = voucher /\ \A r \in Requests : deciding'[r].voucher # v
  <2>1. deciding' = [deciding EXCEPT ![q] = NotDeciding] /\ voucher' = voucher
    BY <1>5 DEF CommitMoveInvoice
  <2>2. \A r \in Requests : deciding'[r].voucher \in {NoVoucher, deciding[r].voucher}
    BY <2>1 DEF MoneyInv, MoneyTyped, NotDeciding
  <2> QED
    BY <2>1, <2>2, FinanceAssumption
<1>6. CASE InvoiceNext
  BY <1>1, <1>4, <1>5, <1>6
     DEF InvoiceNext, BeginInvoice, BeginStandaloneInvoice, Draft, UploadFails, CommitInvoice
<1>7. ASSUME NEW given \in SUBSET Vouchers, NEW by \in Officers, CreateVouchers(given, by)
      PROVE  voucher'[v] = voucher[v] /\ deciding' = deciding
  BY <1>7 DEF CreateVouchers, Final
<1>9. ASSUME NEW q \in Requests, NEW x \in Vouchers, NEW to \in Verdicts, NEW by,
             BeginDecide(q, x, to, by)
      PROVE  voucher' = voucher /\ \A r \in Requests : deciding'[r].voucher # v
  <2>1. x # v
    BY <1>9 DEF BeginDecide, Decidable, Final, Verdicts
  <2>2. deciding' = [deciding EXCEPT ![q] = Judging(x, to)] /\ voucher' = voucher
    BY <1>9 DEF BeginDecide
  <2>3. \A r \in Requests : deciding'[r].voucher \in {x, deciding[r].voucher}
    BY <2>2 DEF MoneyInv, MoneyTyped, Judging
  <2> QED
    BY <2>1, <2>2, <2>3
<1>10. ASSUME NEW q \in Requests, CommitDecide(q)
       PROVE  voucher'[v] = voucher[v] /\ \A r \in Requests : deciding'[r].voucher # v
  <2>1. /\ deciding' = [deciding EXCEPT ![q] = NotDeciding]
        /\ deciding[q].voucher # v
    BY <1>10 DEF CommitDecide
  <2>2. voucher'[v] = voucher[v]
    BY <1>10, <2>1 DEF CommitDecide, MoneyInv, MoneyTyped
  <2>3. \A r \in Requests : deciding'[r].voucher \in {NoVoucher, deciding[r].voucher}
    BY <2>1 DEF MoneyInv, MoneyTyped, NotDeciding
  <2> QED
    BY <2>2, <2>3, FinanceAssumption
<1>11. CASE VoucherNext
  BY <1>7, <1>9, <1>10, <1>11 DEF VoucherNext
<1> QED
  BY <1>2, <1>3, <1>6, <1>11 DEF Next

\* Paid and cancelled invoices and decided vouchers are changed only by a
\* request that had read the row before it was settled.
THEOREM SettledForGood == Spec => FinalChangesOnlyUnseen
<1>1. MoneyInv /\ [Next]_vars =>
        (\A i \in Invoices : PaidStep(i)) /\ (\A v \in Vouchers : DecidedStep(v))
  BY StepPaid, StepDecided
<1> QED
  BY <1>1, MoneySafe, PTL DEF Spec, FinalChangesOnlyUnseen

-----------------------------------------------------------------------------
(* PFIs and the requests that draw them down: the invariant.                *)

\* Operations, PFIs, allocations, payments and the requests on them keep their types.
DrawTyped ==
  /\ live \subseteq Operations
  /\ pfi \in [Pfis -> Pfi]
  /\ allocation \in [Allocations -> Allocation]
  /\ payment \in [Payments -> Payment]
  /\ drawing \in [Requests -> Drawing]

\* An allocation is of some litres and of a PFI.
DrawnPositive ==
  \A a \in Allocations :
    allocation[a] # FreeAllocation => allocation[a].pfi \in Pfis /\ allocation[a].litres \in Litres

\* A request asks for no more than the room it read, unless it read none at all
\* because the PFI had no quantity; a new row is its own, and a row it edits is
\* of the same PFI still or gone.
DrawMeant(q) ==
  LET d == drawing[q] IN
  d.at # "idle" =>
    /\ d.row \in Allocations /\ d.pfi \in Pfis /\ d.litres \in Litres
    /\ d.litres <= d.room \/ (d.at = "redraw" /\ d.room <= 0)
    /\ d.at = "draw" => /\ d.on \in Operations /\ allocation[d.row] = FreeAllocation
                        /\ \A r \in Requests \ {q} : drawing[r].row # d.row
    /\ d.at = "redraw" => allocation[d.row] = FreeAllocation \/ allocation[d.row].pfi = d.pfi

DrawInv == DrawTyped /\ DrawnPositive /\ \A q \in Requests : DrawMeant(q)

\* A step that draws nothing.
LEMMA DrawsNothing ==
  ASSUME DrawInv, UNCHANGED <<allocation, drawing>>,
         live' \subseteq Operations, pfi' \in [Pfis -> Pfi], payment' \in [Payments -> Payment]
  PROVE  DrawInv'
  BY DEF DrawInv, DrawTyped, DrawnPositive, DrawMeant

LEMMA LitresTyped == Litres \subseteq 0..MaxLitres /\ Litres \subseteq Nat /\ 0 \in 0..MaxLitres
  BY FinanceAssumption DEF Litres

LEMMA FreeTyped == FreeAllocation \in Allocation /\ NotDrawing \in Drawing
  BY LitresTyped DEF FreeAllocation, NotDrawing, Allocation, Drawing

\* What becomes of the PFIs besides the drawing.
LEMMA PfiFacts ==
  ASSUME DrawInv,
         \/ \E p \in Pfis, litres \in Litres \cup {NoQuantity} :
              CreateStandalonePfi(p, litres) \/ UpdatePfi(p, litres)
         \/ \E p \in Pfis : ConfirmPfiPayment(p)
         \/ \E y \in Payments, p \in Pfis, o \in Operations : RecordPayment(y, p, o)
         \/ \E y \in Payments : ConfirmPayment(y)
  PROVE  DrawInv'
<1> USE DEF DrawInv, DrawTyped
<1>1. ASSUME NEW p \in Pfis, NEW litres \in Litres \cup {NoQuantity},
             CreateStandalonePfi(p, litres) \/ UpdatePfi(p, litres)
      PROVE  DrawInv'
  <2>1. litres \in 0..MaxLitres
    BY LitresTyped DEF NoQuantity
  <2>2. pfi' \in [Pfis -> Pfi]
    BY <1>1, <2>1 DEF CreateStandalonePfi, UpdatePfi, Pfi
  <2>3. UNCHANGED <<live, payment, allocation, drawing>>
    BY <1>1 DEF CreateStandalonePfi, UpdatePfi
  <2> HIDE DEF DrawInv
  <2> QED
    BY <2>2, <2>3, DrawsNothing DEF DrawInv
<1>2. ASSUME NEW p \in Pfis, ConfirmPfiPayment(p)
      PROVE  DrawInv'
  <2>1. pfi' \in [Pfis -> Pfi] /\ UNCHANGED <<live, payment, allocation, drawing>>
    BY <1>2 DEF ConfirmPfiPayment, Pfi
  <2> HIDE DEF DrawInv
  <2> QED
    BY <2>1, DrawsNothing DEF DrawInv
<1>3. ASSUME NEW y \in Payments, NEW p \in Pfis, NEW o \in Operations, RecordPayment(y, p, o)
      PROVE  DrawInv'
  <2>1. pfi' \in [Pfis -> Pfi] /\ UNCHANGED <<live, allocation, drawing>>
    BY <1>3 DEF RecordPayment, Pfi
  <2>2. payment' \in [Payments -> Payment]
    BY <1>3 DEF RecordPayment, Payment
  <2> HIDE DEF DrawInv
  <2> QED
    BY <2>1, <2>2, DrawsNothing DEF DrawInv
<1>4. ASSUME NEW y \in Payments, ConfirmPayment(y)
      PROVE  DrawInv'
  <2>1. pfi' \in [Pfis -> Pfi] /\ UNCHANGED <<live, payment, allocation, drawing>>
    BY <1>4 DEF ConfirmPayment, Pfi
  <2> HIDE DEF DrawInv
  <2> QED
    BY <2>1, DrawsNothing DEF DrawInv
<1> QED
  BY <1>1, <1>2, <1>3, <1>4

-----------------------------------------------------------------------------
(* The litres of a PFI.                                                     *)

\* What a table of allocations holds of a PFI.
Volume(t, p) == Total(LitresOf(t, Allocations), {a \in Allocations : t[a].pfi = p})

\* What one of them has of it.
Share(t, a, p) == IF t[a].pfi = p THEN t[a].litres ELSE 0

\* The room of a PFI, before and after a step.
LEMMA RoomIsTotal ==
  ASSUME NEW p \in Pfis
  PROVE  /\ Room(p) = pfi[p].quantity - Volume(allocation, p)
         /\ Room(p)' = pfi'[p].quantity - Volume(allocation', p)
<1>1. Room(p) = pfi[p].quantity - Volume(allocation, p)
  <2>1. Drawn(p) \ {} = {a \in Allocations : allocation[a].pfi = p}
    BY DEF Drawn
  <2> QED
    BY <2>1, LitresAddUp, FinanceAssumption DEF Room, Allocated, Volume, FinanceAssumption
<1>2. Room(p)' = pfi'[p].quantity
                  - MapThenSumSet(LAMBDA a : allocation'[a].litres, Drawn(p)' \ {})
  BY DEF Room, Allocated, MapThenSumSet, MapThenFoldSet
<1>3. Drawn(p)' \ {} = {a \in Allocations : allocation'[a].pfi = p}
  BY DEF Drawn
<1>4. Room(p)' = pfi'[p].quantity - Volume(allocation', p)
  BY <1>2, <1>3, LitresAddUp, FinanceAssumption DEF Volume, FinanceAssumption
<1> QED
  BY <1>1, <1>4

\* A row's share stands beside what the others have.
LEMMA VolumeSplits ==
  ASSUME NEW t \in [Allocations -> Allocation], NEW x \in Allocations, NEW p
  PROVE  LET rest == Total(LitresOf(t, Allocations), {a \in Allocations : t[a].pfi = p} \ {x}) IN
         /\ rest \in Nat /\ Share(t, x, p) \in Nat
         /\ Volume(t, p) = Share(t, x, p) + rest
<1> DEFINE S == {a \in Allocations : t[a].pfi = p}
           f == LitresOf(t, Allocations)
<1>1. IsFiniteSet(S) /\ IsFiniteSet(S \ {x})
  <2>1. S \in SUBSET Allocations /\ S \ {x} \in SUBSET Allocations
    OBVIOUS
  <2> QED
    BY <2>1, FinanceAssumption, FS_Subset DEF FinanceAssumption
<1>2. /\ \A a \in S : f[a] \in Nat /\ f[a] = t[a].litres
      /\ Share(t, x, p) \in Nat
      /\ IF x \in S THEN Share(t, x, p) = f[x] ELSE Share(t, x, p) = 0
  BY DEF LitresOf, Allocation, Share
<1>3. Volume(t, p) = Total(f, S)
  BY DEF Volume
<1> HIDE DEF S, f
<1>4. Total(f, S \ {x}) \in Nat
  BY <1>1, <1>2, TotalNat
<1>5. Total(f, S) = Share(t, x, p) + Total(f, S \ {x})
  <2>1. CASE x \in S
    <3>1. Total(f, S) = f[x] + Total(f, S \ {x})
      <4>1. \A a \in S : f[a] \in Int
        BY <1>2
      <4> QED
        BY <1>1, <2>1, <4>1, TotalRemove
    <3> QED
      BY <1>2, <2>1, <3>1
  <2>2. CASE x \notin S
    <3>1. S \ {x} = S
      BY <2>2
    <3>2. Total(f, S \ {x}) = Total(f, S)
      BY <3>1
    <3> QED
      BY <1>2, <1>4, <2>2, <3>2
  <2> QED
    BY <2>1, <2>2
<1> QED
  BY <1>2, <1>3, <1>4, <1>5 DEF S, f

\* Writing one row moves the litres of a PFI by the change of its share.
LEMMA VolumeMoves ==
  ASSUME NEW t \in [Allocations -> Allocation], NEW u \in [Allocations -> Allocation],
         NEW x \in Allocations, \A a \in Allocations \ {x} : u[a] = t[a], NEW p
  PROVE  /\ Volume(t, p) \in Nat /\ Share(t, x, p) \in Nat /\ Share(u, x, p) \in Nat
         /\ Volume(u, p) = Volume(t, p) - Share(t, x, p) + Share(u, x, p)
<1> DEFINE S == {a \in Allocations : t[a].pfi = p}
           R == {a \in Allocations : u[a].pfi = p}
           f == LitresOf(t, Allocations)
           g == LitresOf(u, Allocations)
<1>1. IsFiniteSet(S) /\ IsFiniteSet(R)
  BY FinanceAssumption, FS_Subset, S \in SUBSET Allocations, R \in SUBSET Allocations
     DEF FinanceAssumption
<1>2. \A a \in Allocations : /\ f[a] = t[a].litres /\ f[a] \in Nat
                             /\ g[a] = u[a].litres /\ g[a] \in Nat
  BY DEF LitresOf, Allocation
<1>3. /\ \A a \in S : f[a] \in Nat
      /\ \A a \in S : f[a] \in Int
      /\ \A a \in R : g[a] \in Int
      /\ S \ {x} = R \ {x} /\ \A a \in S \ {x} : f[a] = g[a]
  BY <1>2
<1>4. /\ Share(t, x, p) = (IF x \in S THEN f[x] ELSE 0) /\ Share(t, x, p) \in Nat
      /\ Share(u, x, p) = (IF x \in R THEN g[x] ELSE 0) /\ Share(u, x, p) \in Nat
  BY <1>2 DEF Share
<1>5. Volume(t, p) = Total(f, S) /\ Volume(u, p) = Total(g, R)
  BY DEF Volume
<1> HIDE DEF S, R, f, g
<1>6. Total(f, S) \in Nat
  BY <1>1, <1>3, TotalNat
<1>7. Total(g, R) = Total(f, S) - (IF x \in S THEN f[x] ELSE 0) + (IF x \in R THEN g[x] ELSE 0)
  BY <1>1, <1>3, TotalMoves
<1> QED
  BY <1>4, <1>5, <1>6, <1>7

-----------------------------------------------------------------------------
(* Drawing down.                                                            *)

\* The room a request may take up with a row: what the PFI has left besides it.
LEMMA RoomBesidesRow ==
  ASSUME DrawInv, NEW a \in Allocations, allocation[a] # FreeAllocation
  PROVE  /\ RoomBesides(a) = Room(allocation[a].pfi) + allocation[a].litres
         /\ RoomBesides(a) \in Int
         /\ pfi[allocation[a].pfi].quantity = NoQuantity => RoomBesides(a) <= 0
<1> DEFINE p == allocation[a].pfi
           S == {x \in Allocations : allocation[x].pfi = p} \ {a}
           rest == Total(LitresOf(allocation, Allocations), S)
<1>1. p \in Pfis /\ allocation[a].litres \in Nat /\ pfi[p].quantity \in Nat
  <2>1. p \in Pfis /\ allocation[a].litres \in Nat
    BY LitresTyped DEF DrawInv, DrawnPositive
  <2>2. pfi[p].quantity \in 0..MaxLitres
    BY <2>1 DEF DrawInv, DrawTyped, Pfi
  <2> QED
    BY <2>1, <2>2, FinanceAssumption
<1>2. rest \in Nat /\ Volume(allocation, p) = allocation[a].litres + rest
  <2>1. allocation \in [Allocations -> Allocation]
    BY DEF DrawInv, DrawTyped
  <2>2. Share(allocation, a, p) = allocation[a].litres
    BY DEF Share
  <2> QED
    BY <2>1, <2>2, VolumeSplits
<1>3. RoomBesides(a) = pfi[p].quantity - rest
  <2>1. Drawn(p) \ {a} = S /\ S \in SUBSET Allocations
    BY DEF Drawn
  <2> QED
    BY <2>1, LitresAddUp, FinanceAssumption DEF RoomBesides, Allocated, FinanceAssumption
<1>4. Room(p) = pfi[p].quantity - Volume(allocation, p)
  BY <1>1, RoomIsTotal
<1> HIDE DEF rest
<1> QED
  BY <1>1, <1>2, <1>3, <1>4 DEF NoQuantity

LEMMA RoomTyped ==
  ASSUME DrawInv, NEW p \in Pfis
  PROVE  Room(p) \in Int
<1>1. pfi[p].quantity \in 0..MaxLitres /\ allocation \in [Allocations -> Allocation]
  BY DEF DrawInv, DrawTyped, Pfi
<1>2. Volume(allocation, p) \in Int
  <2>1. IsFiniteSet({a \in Allocations : allocation[a].pfi = p})
    BY FinanceAssumption, FS_Subset,
       {a \in Allocations : allocation[a].pfi = p} \in SUBSET Allocations DEF FinanceAssumption
  <2>2. \A a \in Allocations : LitresOf(allocation, Allocations)[a] \in Int
    BY <1>1 DEF LitresOf, Allocation
  <2>3. PICK f, S : f = LitresOf(allocation, Allocations) /\ S = {a \in Allocations : allocation[a].pfi = p}
    OBVIOUS
  <2>4. IsFiniteSet(S) /\ \A a \in S : f[a] \in Int
    BY <2>1, <2>2, <2>3
  <2>5. Total(f, S) \in Int
    BY <2>4, TotalType
  <2> QED
    BY <2>3, <2>5 DEF Volume
<1> QED
  BY <1>1, <1>2, RoomIsTotal, FinanceAssumption

LEMMA BeginAllocateFacts ==
  ASSUME DrawInv, NEW q \in Requests, NEW a \in Allocations, NEW p \in Pfis,
         NEW o \in Operations, NEW litres \in Litres, BeginAllocate(q, a, p, o, litres)
  PROVE  DrawInv'
<1> DEFINE d == drawing'[q]
<1>1. /\ UNCHANGED <<live, pfi, allocation, payment>>
      /\ drawing' = [drawing EXCEPT ![q] = d]
      /\ d.at = "draw" /\ d.row = a /\ d.pfi = p /\ d.on = o /\ d.litres = litres
      /\ litres <= d.room /\ d \in Drawing
  <2>1. Room(p) \in Int /\ litres \in 0..MaxLitres /\ drawing \in [Requests -> Drawing]
    BY RoomTyped, LitresTyped DEF DrawInv, DrawTyped
  <2> QED
    BY <2>1 DEF BeginAllocate, Fits, Drawing
<1>2. drawing \in [Requests -> Drawing]
  BY DEF DrawInv, DrawTyped
<1> HIDE DEF d
<1>3. \A r \in Requests : drawing'[r] = IF r = q THEN d ELSE drawing[r]
  BY <1>1, <1>2
<1>4. DrawTyped' /\ DrawnPositive'
  BY <1>1, <1>2 DEF DrawInv, DrawTyped, DrawnPositive
<1>5. allocation[a] = FreeAllocation /\ \A r \in Requests : drawing[r].row # a
  BY DEF BeginAllocate
<1>6. ASSUME NEW r \in Requests PROVE DrawMeant(r)'
  <2>1. CASE r = q
    BY <1>1, <1>3, <1>5, <2>1 DEF DrawMeant
  <2>2. CASE r # q
    BY <1>1, <1>3, <1>5, <2>2 DEF DrawInv, DrawMeant
  <2> QED
    BY <2>1, <2>2
<1> QED
  BY <1>4, <1>6 DEF DrawInv

LEMMA BeginUpdateFacts ==
  ASSUME DrawInv, NEW q \in Requests, NEW a \in Allocations, NEW litres \in Litres,
         BeginUpdateAllocation(q, a, litres)
  PROVE  DrawInv'
<1> DEFINE d == drawing'[q]
           p == allocation[a].pfi
<1>0. drawing \in [Requests -> Drawing] /\ allocation \in [Allocations -> Allocation]
  BY DEF DrawInv, DrawTyped
<1>1. allocation[a] # FreeAllocation
  BY DEF BeginUpdateAllocation
<1>2. /\ p \in Pfis
      /\ RoomBesides(a) = Room(p) + allocation[a].litres /\ RoomBesides(a) \in Int
      /\ pfi[p].quantity = NoQuantity => RoomBesides(a) <= 0
  BY <1>1, RoomBesidesRow DEF DrawInv, DrawnPositive
<1>3. /\ UNCHANGED <<live, pfi, allocation, payment>>
      /\ drawing' = [drawing EXCEPT ![q] = d]
      /\ d.at = "redraw" /\ d.row = a /\ d.pfi = p /\ d.litres = litres
      /\ d.room = RoomBesides(a) /\ d \in Drawing
  <2>1. litres \in 0..MaxLitres /\ allocation[a].on \in Operations \cup {NoOperation}
    BY <1>0, LitresTyped DEF Allocation
  <2> HIDE DEF DrawInv
  <2> QED
    BY <1>0, <1>2, <2>1 DEF BeginUpdateAllocation, Drawing
<1>4. litres <= d.room \/ d.room <= 0
  BY <1>2, <1>3 DEF BeginUpdateAllocation, Fits
<1>5. DrawTyped' /\ DrawnPositive'
  BY <1>0, <1>3 DEF DrawInv, DrawTyped, DrawnPositive
<1> HIDE DEF d
<1>6. \A r \in Requests : drawing'[r] = IF r = q THEN d ELSE drawing[r]
  BY <1>0, <1>3
<1>7. ASSUME NEW r \in Requests PROVE DrawMeant(r)'
  <2>1. CASE r = q
    BY <1>2, <1>3, <1>4, <1>6, <2>1 DEF DrawMeant
  <2>2. CASE r # q
    BY <1>1, <1>3, <1>6, <2>2 DEF DrawInv, DrawMeant
  <2> QED
    BY <2>1, <2>2
<1> QED
  BY <1>5, <1>7 DEF DrawInv

\* What a request that takes effect has asked for.
LEMMA DrawFacts ==
  ASSUME DrawInv, NEW q \in Requests, CommitAllocate(q) \/ CommitUpdateAllocation(q)
  PROVE  LET d == drawing[q] IN
         /\ d \in Drawing /\ d.row \in Allocations /\ d.pfi \in Pfis /\ d.litres \in Litres
         /\ d.litres \in 1..MaxLitres /\ d.room \in Int
         /\ d.litres <= d.room \/ (d.at = "redraw" /\ d.room <= 0)
         /\ d.at = "draw" => /\ d.on \in Operations /\ allocation[d.row] = FreeAllocation
                             /\ \A r \in Requests \ {q} : drawing[r].row # d.row
         /\ d.at = "redraw" => \/ allocation[d.row] = FreeAllocation
                               \/ allocation[d.row].pfi = d.pfi
         /\ drawing' = [drawing EXCEPT ![q] = NotDrawing]
         /\ drawing' \in [Requests -> Drawing] /\ drawing'[q] = NotDrawing
         /\ \A r \in Requests \ {q} : drawing'[r] = drawing[r]
<1> DEFINE d == drawing[q]
<1>1. d.at # "idle" /\ DrawMeant(q)
  BY DEF CommitAllocate, CommitUpdateAllocation, DrawInv
<1>2. d \in Drawing /\ d.room \in Int
  BY DEF DrawInv, DrawTyped, Drawing
<1>3. /\ drawing' = [drawing EXCEPT ![q] = NotDrawing]
      /\ drawing' \in [Requests -> Drawing] /\ drawing'[q] = NotDrawing
      /\ \A r \in Requests \ {q} : drawing'[r] = drawing[r]
  BY FreeTyped DEF CommitAllocate, CommitUpdateAllocation, DrawInv, DrawTyped
<1> QED
  BY <1>1, <1>2, <1>3 DEF DrawMeant, Litres

LEMMA CommitAllocateFacts ==
  ASSUME DrawInv, NEW q \in Requests, CommitAllocate(q)
  PROVE  /\ DrawInv'
         /\ \A a \in Allocations \ {drawing[q].row} : allocation'[a] = allocation[a]
         /\ allocation'[drawing[q].row].pfi = drawing[q].pfi
         /\ allocation'[drawing[q].row].litres = drawing[q].litres
<1> DEFINE d == drawing[q]
           new == [pfi |-> d.pfi, on |-> d.on, litres |-> d.litres]
<1>1. /\ d.at = "draw" /\ allocation' = [allocation EXCEPT ![d.row] = new]
      /\ UNCHANGED <<live, payment>>
  BY DEF CommitAllocate
<1>2. /\ d.row \in Allocations /\ d.pfi \in Pfis /\ d.litres \in Litres /\ d.on \in Operations
      /\ allocation[d.row] = FreeAllocation
      /\ \A r \in Requests \ {q} : drawing[r].row # d.row
      /\ drawing' \in [Requests -> Drawing] /\ drawing'[q] = NotDrawing
      /\ \A r \in Requests \ {q} : drawing'[r] = drawing[r]
  BY <1>1, DrawFacts
<1>3. new \in Allocation
  BY <1>2, LitresTyped DEF Allocation
<1>4. /\ allocation' \in [Allocations -> Allocation] /\ allocation'[d.row] = new
      /\ \A a \in Allocations \ {d.row} : allocation'[a] = allocation[a]
  BY <1>1, <1>2, <1>3 DEF DrawInv, DrawTyped
<1>5. pfi' \in [Pfis -> Pfi]
  BY DEF CommitAllocate, DrawInv, DrawTyped, Pfi
<1>6. DrawTyped' /\ DrawnPositive'
  BY <1>1, <1>2, <1>4, <1>5 DEF DrawInv, DrawTyped, DrawnPositive
<1>7. ASSUME NEW r \in Requests PROVE DrawMeant(r)'
  <2>1. CASE r = q
    BY <1>2, <2>1 DEF DrawMeant, NotDrawing
  <2>2. CASE r # q
    <3>1. drawing'[r] = drawing[r] /\ drawing[r].row # d.row /\ DrawMeant(r)
      BY <1>2, <2>2 DEF DrawInv
    <3>2. \A s \in Requests : drawing'[s].row = drawing[s].row \/ s = q
      BY <1>2
    <3>3. NotDrawing.row \notin Allocations
      BY FinanceAssumption DEF NotDrawing, FinanceAssumption
    <3> HIDE DEF d, new
    <3> QED
      BY <1>2, <1>4, <3>1, <3>2, <3>3 DEF DrawMeant
  <2> QED
    BY <2>1, <2>2
<1> QED
  BY <1>4, <1>6, <1>7 DEF DrawInv

LEMMA CommitUpdateFacts ==
  ASSUME DrawInv, NEW q \in Requests, CommitUpdateAllocation(q)
  PROVE  /\ DrawInv'
         /\ \A a \in Allocations \ {drawing[q].row} : allocation'[a] = allocation[a]
         /\ IF allocation[drawing[q].row] = FreeAllocation
              THEN allocation' = allocation
              ELSE /\ allocation[drawing[q].row].pfi = drawing[q].pfi
                   /\ allocation'[drawing[q].row].pfi = drawing[q].pfi
                   /\ allocation'[drawing[q].row].litres = drawing[q].litres
<1> DEFINE d == drawing[q]
<1>1. d.at = "redraw" /\ UNCHANGED <<live, pfi, payment>>
  BY DEF CommitUpdateAllocation
<1>2. /\ d.row \in Allocations /\ d.litres \in Litres
      /\ allocation[d.row] = FreeAllocation \/ allocation[d.row].pfi = d.pfi
      /\ drawing' \in [Requests -> Drawing] /\ drawing'[q] = NotDrawing
      /\ \A r \in Requests \ {q} : drawing'[r] = drawing[r]
  BY <1>1, DrawFacts
<1>3. /\ allocation' \in [Allocations -> Allocation]
      /\ \A a \in Allocations \ {d.row} : allocation'[a] = allocation[a]
      /\ IF allocation[d.row] = FreeAllocation THEN allocation' = allocation
         ELSE /\ allocation'[d.row].pfi = allocation[d.row].pfi
              /\ allocation'[d.row].litres = d.litres
  <2>1. allocation \in [Allocations -> Allocation] /\ d.litres \in 0..MaxLitres
    BY <1>2, LitresTyped DEF DrawInv, DrawTyped
  <2> QED
    BY <1>2, <2>1 DEF CommitUpdateAllocation, Allocation
<1>4. DrawTyped' /\ DrawnPositive'
  BY <1>1, <1>2, <1>3 DEF DrawInv, DrawTyped, DrawnPositive
<1>5. ASSUME NEW r \in Requests PROVE DrawMeant(r)'
  <2>1. CASE r = q
    BY <1>2, <2>1 DEF DrawMeant, NotDrawing
  <2>2. CASE r # q
    <3>1. drawing'[r] = drawing[r] /\ DrawMeant(r)
      BY <1>2, <2>2 DEF DrawInv
    <3>2. \A s \in Requests : drawing'[s].row = drawing[s].row \/ s = q
      BY <1>2
    <3>3. NotDrawing.row \notin Allocations
      BY FinanceAssumption DEF NotDrawing, FinanceAssumption
    <3>4. \A a \in Allocations :
            (allocation[a] = FreeAllocation => allocation'[a] = FreeAllocation)
            /\ (allocation'[a] = allocation[a] \/ allocation'[a].pfi = allocation[a].pfi)
      BY <1>3
    <3> HIDE DEF d
    <3> QED
      BY <1>2, <3>1, <3>2, <3>3, <3>4 DEF DrawMeant
  <2> QED
    BY <2>1, <2>2
<1> QED
  BY <1>2, <1>3, <1>4, <1>5 DEF DrawInv

LEMMA DeleteFacts ==
  ASSUME DrawInv, NEW a \in Allocations, DeleteAllocation(a)
  PROVE  DrawInv'
<1>1. /\ allocation' = [allocation EXCEPT ![a] = FreeAllocation]
      /\ UNCHANGED <<live, pfi, payment, drawing>>
  BY DEF DeleteAllocation
<1>2. allocation' \in [Allocations -> Allocation]
  BY <1>1, FreeTyped DEF DrawInv, DrawTyped
<1>3. \A x \in Allocations : allocation'[x] = IF x = a THEN FreeAllocation ELSE allocation[x]
  BY <1>1 DEF DrawInv, DrawTyped
<1>4. DrawTyped' /\ DrawnPositive'
  BY <1>1, <1>2, <1>3 DEF DrawInv, DrawTyped, DrawnPositive
<1>5. ASSUME NEW r \in Requests PROVE DrawMeant(r)'
  BY <1>1, <1>3 DEF DrawInv, DrawMeant
<1> QED
  BY <1>4, <1>5 DEF DrawInv

LEMMA StepDrawn == DrawInv /\ [Next]_vars => DrawInv'
<1> SUFFICES ASSUME DrawInv, [Next]_vars
             PROVE  DrawInv'
  OBVIOUS
<1>1. CASE UNCHANGED <<live, pfi, allocation, payment, drawing>>
  BY <1>1 DEF DrawInv, DrawTyped, DrawnPositive, DrawMeant
<1>2. CASE PfiNext
  BY <1>2, PfiFacts, BeginAllocateFacts, BeginUpdateFacts, CommitAllocateFacts,
     CommitUpdateFacts, DeleteFacts DEF PfiNext, GeneratePfi
<1>3. CASE InvoiceNext
  BY <1>1, <1>3 DEF InvoiceNext, BeginInvoice, BeginStandaloneInvoice, Draft, CommitInvoice,
                    UploadFails, BeginMoveInvoice, CommitMoveInvoice, pfiVars
<1>4. CASE VoucherNext
  BY <1>1, <1>4 DEF VoucherNext, CreateVouchers, BeginDecide, CommitDecide, pfiVars
<1>5. ASSUME NEW o \in Operations, SoftDeleteOperation(o)
      PROVE  DrawInv'
  <2>1. live' \subseteq Operations /\ UNCHANGED <<pfi, allocation, payment, drawing>>
    BY <1>5 DEF SoftDeleteOperation, pfiVars, DrawInv, DrawTyped
  <2>2. pfi' \in [Pfis -> Pfi] /\ payment' \in [Payments -> Payment]
    BY <2>1 DEF DrawInv, DrawTyped
  <2> QED
    BY <2>1, <2>2, DrawsNothing
<1> QED
  BY <1>1, <1>2, <1>3, <1>4, <1>5 DEF Next, vars

\* No request takes up a row or a room that is not its own to take up: the
\* invariant of the drawing down.
THEOREM DrawSafe == Spec => []DrawInv
<1>1. Init => DrawInv
  <2> SUFFICES ASSUME Init PROVE DrawInv
    OBVIOUS
  <2>1. DrawTyped
    BY FreeTyped, LitresTyped DEF Init, DrawTyped, Pfi, Payment, NoQuantity
  <2>2. DrawnPositive /\ \A q \in Requests : DrawMeant(q)
    BY DEF Init, DrawnPositive, DrawMeant, NotDrawing
  <2> QED
    BY <2>1, <2>2 DEF DrawInv
<1> QED
  BY <1>1, StepDrawn, PTL DEF Spec

\* Every table of the money side keeps its types, whatever requests overlap.
THEOREM FinanceTypeCorrect == Spec => []TypeOK
<1>1. MoneyInv /\ DrawInv => TypeOK
  BY DEF MoneyInv, MoneyTyped, DrawInv, DrawTyped, TypeOK
<1> QED
  BY <1>1, MoneySafe, DrawSafe, PTL

-----------------------------------------------------------------------------
(* A PFI is overdrawn.                                                      *)

\* A request that commits over the room it has read leaves room.
LEMMA AllocateFits ==
  ASSUME DrawInv, DrawInv', NEW q \in Requests, NEW p \in Pfis, CommitAllocate(q),
         Room(p) >= 0, Room(p)' < 0, pfi'[p].quantity = pfi[p].quantity
  PROVE  /\ drawing[q].pfi = p /\ drawing'[q] = NotDrawing /\ drawing[q].at = "draw"
         /\ drawing[q].room # Room(p)
<1> DEFINE d == drawing[q]
<1>1. d.at = "draw"
  BY DEF CommitAllocate
<1>2. /\ d.row \in Allocations /\ d.litres \in Int /\ d.room \in Int /\ d.litres <= d.room
      /\ allocation[d.row] = FreeAllocation /\ drawing'[q] = NotDrawing
  BY <1>1, DrawFacts, FinanceAssumption
<1>3. /\ \A a \in Allocations \ {d.row} : allocation'[a] = allocation[a]
      /\ allocation'[d.row].pfi = d.pfi /\ allocation'[d.row].litres = d.litres
  BY CommitAllocateFacts
<1>4. /\ Volume(allocation, p) \in Nat
      /\ Volume(allocation', p) = Volume(allocation, p) - Share(allocation, d.row, p)
                                   + Share(allocation', d.row, p)
  BY <1>2, <1>3, VolumeMoves DEF DrawInv, DrawTyped
<1>5. Share(allocation, d.row, p) = 0
  BY <1>2, FinanceAssumption DEF Share, FreeAllocation
<1>6. Share(allocation', d.row, p) = IF d.pfi = p THEN d.litres ELSE 0
  BY <1>3 DEF Share
<1>7. pfi[p].quantity \in 0..MaxLitres
  BY DEF DrawInv, DrawTyped, Pfi
<1>8. /\ Room(p) = pfi[p].quantity - Volume(allocation, p)
      /\ Room(p)' = pfi[p].quantity - Volume(allocation', p)
  BY RoomIsTotal
<1> HIDE DEF d
<1>9. Room(p)' = Room(p) - IF d.pfi = p THEN d.litres ELSE 0
  BY <1>2, <1>4, <1>5, <1>6, <1>7, <1>8, FinanceAssumption
<1>10. Room(p) \in Int
  BY RoomTyped
<1>11. d.pfi = p /\ d.room # Room(p)
  BY <1>2, <1>9, <1>10
<1> QED
  BY <1>1, <1>2, <1>11 DEF d

LEMMA UpdateFits ==
  ASSUME DrawInv, DrawInv', NEW q \in Requests, NEW p \in Pfis, CommitUpdateAllocation(q),
         Room(p) >= 0, Room(p)' < 0
  PROVE  /\ drawing[q].pfi = p /\ drawing'[q] = NotDrawing /\ drawing[q].at = "redraw"
         /\ drawing[q].room # Room(p) + allocation[drawing[q].row].litres
<1> DEFINE d == drawing[q]
<1>0. d.at = "redraw" /\ pfi' = pfi
  BY DEF CommitUpdateAllocation
<1>1. pfi[p].quantity \in 0..MaxLitres
  BY DEF DrawInv, DrawTyped, Pfi
<1>2. /\ Room(p) = pfi[p].quantity - Volume(allocation, p)
      /\ Room(p)' = pfi[p].quantity - Volume(allocation', p)
  BY <1>0, RoomIsTotal
<1>3. /\ d.row \in Allocations /\ d.litres \in Int /\ d.litres > 0 /\ d.room \in Int
      /\ d.litres <= d.room \/ d.room <= 0
      /\ drawing'[q] = NotDrawing
  BY <1>0, DrawFacts, FinanceAssumption
<1>4. allocation[d.row] # FreeAllocation
  <2>1. allocation' # allocation
    <3>1. allocation' = allocation => Room(p)' = Room(p)
      BY <1>2
    <3>2. Room(p) \in Int
      BY RoomTyped
    <3> QED
      BY <3>1, <3>2
  <2> QED
    BY <2>1, CommitUpdateFacts
<1>5. /\ \A a \in Allocations \ {d.row} : allocation'[a] = allocation[a]
      /\ allocation[d.row].pfi = d.pfi /\ allocation'[d.row].pfi = d.pfi
      /\ allocation'[d.row].litres = d.litres
  BY <1>4, CommitUpdateFacts
<1>6. /\ Volume(allocation, p) \in Nat
      /\ Volume(allocation', p) = Volume(allocation, p) - Share(allocation, d.row, p)
                                   + Share(allocation', d.row, p)
  BY <1>3, <1>5, VolumeMoves DEF DrawInv, DrawTyped
<1>7. allocation[d.row].litres \in 1..MaxLitres
  BY <1>3, <1>4 DEF DrawInv, DrawnPositive, Litres
<1>8. PICK old : old = allocation[d.row].litres
  OBVIOUS
<1>9. /\ Share(allocation, d.row, p) = IF d.pfi = p THEN old ELSE 0
      /\ Share(allocation', d.row, p) = IF d.pfi = p THEN d.litres ELSE 0
  BY <1>5, <1>8 DEF Share
<1>10. old \in Int /\ old > 0
  BY <1>7, <1>8, FinanceAssumption
<1> HIDE DEF d
<1>11. Room(p)' = IF d.pfi = p THEN Room(p) + old - d.litres ELSE Room(p)
  BY <1>1, <1>2, <1>3, <1>6, <1>9, <1>10, FinanceAssumption
<1>12. Room(p) \in Int
  BY RoomTyped
<1>13. d.pfi = p /\ d.room # Room(p) + old
  BY <1>3, <1>10, <1>11, <1>12
<1> QED
  BY <1>0, <1>3, <1>8, <1>13 DEF d

\* A row that is taken out leaves more room.
LEMMA DeleteFits ==
  ASSUME DrawInv, DrawInv', NEW a \in Allocations, NEW p \in Pfis, DeleteAllocation(a),
         Room(p) >= 0
  PROVE  Room(p)' >= 0
<1>1. /\ pfi' = pfi /\ \A x \in Allocations \ {a} : allocation'[x] = allocation[x]
      /\ allocation'[a] = FreeAllocation
  BY DEF DeleteAllocation, DrawInv, DrawTyped
<1>2. /\ Volume(allocation, p) \in Nat /\ Share(allocation, a, p) \in Nat
      /\ Volume(allocation', p) = Volume(allocation, p) - Share(allocation, a, p)
                                   + Share(allocation', a, p)
  BY <1>1, VolumeMoves DEF DrawInv, DrawTyped
<1>3. Share(allocation', a, p) = 0
  BY <1>1, FinanceAssumption DEF Share, FreeAllocation
<1>4. /\ Room(p) = pfi[p].quantity - Volume(allocation, p)
      /\ Room(p)' = pfi[p].quantity - Volume(allocation', p)
  BY <1>1, RoomIsTotal
<1>5. pfi[p].quantity \in 0..MaxLitres
  BY DEF DrawInv, DrawTyped, Pfi
<1> QED
  BY <1>2, <1>3, <1>4, <1>5, FinanceAssumption

OverdrawnStep(p) ==
  Room(p) >= 0 /\ Room(p)' < 0 =>
    \/ pfi'[p].quantity # pfi[p].quantity
    \/ pfi[p].quantity = NoQuantity
    \/ \E q \in Requests :
         /\ drawing[q].pfi = p /\ drawing'[q] = NotDrawing
         /\ drawing[q].room # Room(p) + (IF drawing[q].at = "redraw"
                                         THEN allocation[drawing[q].row].litres ELSE 0)

LEMMA StepOverdraws ==
  ASSUME DrawInv, DrawInv', [Next]_vars, NEW p \in Pfis
  PROVE  OverdrawnStep(p)
<1> SUFFICES ASSUME Room(p) >= 0, Room(p)' < 0, pfi'[p].quantity = pfi[p].quantity
             PROVE  \E q \in Requests :
                      /\ drawing[q].pfi = p /\ drawing'[q] = NotDrawing
                      /\ drawing[q].room # Room(p) + (IF drawing[q].at = "redraw"
                                         THEN allocation[drawing[q].row].litres ELSE 0)
  BY DEF OverdrawnStep
<1>1. Room(p) \in Int
  BY RoomTyped
<1>2. allocation' # allocation
  <2>1. allocation' = allocation => Room(p)' = Room(p)
    BY RoomIsTotal
  <2> QED
    BY <1>1, <2>1
<1>3. ASSUME NEW q \in Requests, CommitAllocate(q)
      PROVE  \E r \in Requests :
               /\ drawing[r].pfi = p /\ drawing'[r] = NotDrawing
               /\ drawing[r].room # Room(p) + (IF drawing[r].at = "redraw"
                                         THEN allocation[drawing[r].row].litres ELSE 0)
  BY <1>1, <1>3, AllocateFits
<1>4. ASSUME NEW q \in Requests, CommitUpdateAllocation(q)
      PROVE  \E r \in Requests :
               /\ drawing[r].pfi = p /\ drawing'[r] = NotDrawing
               /\ drawing[r].room # Room(p) + (IF drawing[r].at = "redraw"
                                         THEN allocation[drawing[r].row].litres ELSE 0)
  BY <1>4, UpdateFits
<1>5. ASSUME NEW a \in Allocations, DeleteAllocation(a)
      PROVE  FALSE
  <2>1. Room(p)' >= 0
    BY <1>5, DeleteFits
  <2>2. Room(p)' \in Int
    <3>1. pfi'[p].quantity \in 0..MaxLitres
      BY DEF DrawInv, DrawTyped, Pfi
    <3>2. Volume(allocation', p) \in Nat
      BY VolumeMoves DEF DrawInv, DrawTyped
    <3> QED
      BY <3>1, <3>2, RoomIsTotal, FinanceAssumption
  <2> QED
    BY <2>1, <2>2
<1> QED
  BY <1>2, <1>3, <1>4, <1>5
     DEF Next, vars, PfiNext, CreateStandalonePfi, GeneratePfi, UpdatePfi, ConfirmPfiPayment,
         BeginAllocate, BeginUpdateAllocation, RecordPayment, ConfirmPayment,
         InvoiceNext, BeginInvoice, BeginStandaloneInvoice, Draft, CommitInvoice, UploadFails,
         BeginMoveInvoice, CommitMoveInvoice, VoucherNext, CreateVouchers,
         BeginDecide, CommitDecide, SoftDeleteOperation, pfiVars

\* A PFI comes to have more litres allocated than it covers only by an edit of its
\* quantity or a commit over a room that was no longer there, for any number of
\* PFIs, allocations and overlapping requests.
THEOREM OverdraftNeedsStaleRoom == Spec => OverdrawnOnlyUnseen
<1>1. DrawInv /\ DrawInv' /\ [Next]_vars => \A p \in Pfis : OverdrawnStep(p)
  BY StepOverdraws
<1>2. DrawInv /\ DrawInv' /\ [Next]_vars =>
        \A p \in Pfis : Room(p) >= 0 /\ Room(p)' < 0 =>
          \/ pfi'[p].quantity # pfi[p].quantity
          \/ pfi[p].quantity = NoQuantity
          \/ \E q \in Requests :
               /\ drawing[q].pfi = p /\ drawing'[q] = NotDrawing
               /\ drawing[q].room # Room(p) + (IF drawing[q].at = "redraw"
                                               THEN allocation[drawing[q].row].litres ELSE 0)
  BY <1>1 DEF OverdrawnStep
<1> QED
  BY <1>2, DrawSafe, PTL DEF Spec, OverdrawnOnlyUnseen

-----------------------------------------------------------------------------
(* Accounts: the invariant.                                                 *)

\* A call that is making an identity.
Makes(q) == request[q].kind \in {"register", "reactivate", "bootstrap"}

\* No row, call or identity bears a number that was not made yet.
NumbersMade ==
  /\ \A u \in Users : identity[u] <= minted[u] /\ user[u].auth <= minted[u]
  /\ \A q \in Calls : request[q].on \in Users =>
       request[q].saw.auth <= minted[request[q].on]

\* An open call is about somebody, and what it asks for follows from what it saw.
CallMeant(q) ==
  LET r == request[q] IN
  /\ r = Idle \/ (r.kind # "none" /\ r.on \in Users)
  /\ r.kind \in {"update", "delete", "reactivate"} => r.saw # NoRow
  /\ r.kind = "update" =>
       /\ r.to.auth = r.saw.auth
       /\ r.saw.role = "bunker_manager" =>
            Cardinality(r.managers) > 1 \/ (r.to.role = "bunker_manager" /\ r.to.active)
  /\ r.kind = "delete" =>
       /\ r.to = NoRow \/ r.to.auth = r.saw.auth
       /\ r.saw.role = "bunker_manager" => Cardinality(r.managers) > 1
       /\ r.flushed /\ faults = 0 => identity[r.on] = 0 \/ identity[r.on] # r.saw.auth
  /\ r.kind = "reactivate" => ~r.saw.active

\* A call that makes an identity owns it until it ends: it is the address's only
\* one, and neither the row nor another call knows of it.
MadeApart(q) ==
  Makes(q) =>
    LET r == request[q] IN
    /\ r.to.auth > 0 /\ identity[r.on] = r.to.auth
    /\ user[r.on].auth # r.to.auth
    /\ \A p \in Calls \ {q} : request[p].on = r.on => ~Makes(p)
    /\ \A p \in Calls : request[p].on = r.on => request[p].saw.auth # r.to.auth

AccountsInv ==
  /\ AccountsTypeOK /\ NumbersMade
  /\ \A q \in Calls : CallMeant(q) /\ MadeApart(q)

-----------------------------------------------------------------------------
(* Rows and calls.                                                          *)

LEMMA AuthIsInt == Auth \subseteq Nat /\ Auth \subseteq Int /\ 0 \in Auth
  BY AccountsAssumption DEF Auth, AccountsAssumption

LEMMA IdleTyped ==
  /\ NoRow \in Row /\ NoRow.auth = 0 /\ NoRow.role = NoRole /\ NoRow.active = FALSE
  /\ Idle \in Request /\ Idle.kind = "none" /\ Idle.on \notin Users /\ Idle.saw = NoRow
  BY AuthIsInt, AccountsAssumption
     DEF NoRow, Row, Idle, Request, AccountsAssumption, NoRole, UserRoles

\* The numbers in rows, identities and calls are integers.
LEMMA NumbersTyped ==
  ASSUME AccountsTypeOK
  PROVE  /\ \A u \in Users : /\ identity[u] \in Int /\ minted[u] \in Int /\ user[u] \in Row
                             /\ user[u].auth \in Int /\ user[u].auth >= 0
                             /\ identity[u] >= 0 /\ minted[u] >= 0
         /\ \A q \in Calls : /\ request[q] \in Request
                             /\ request[q].saw \in Row /\ request[q].to \in Row
                             /\ request[q].saw.auth \in Int /\ request[q].to.auth \in Int
                             /\ request[q].on \in Users \cup {Nobody}
<1>1. \A u \in Users : identity[u] \in Auth /\ minted[u] \in Auth /\ user[u] \in Row
  BY DEF AccountsTypeOK
<1>2. \A q \in Calls : /\ request[q] \in Request
                       /\ request[q].saw \in Row /\ request[q].to \in Row
                       /\ request[q].on \in Users \cup {Nobody}
  BY DEF AccountsTypeOK, Request
<1>3. \A r \in Row : r.auth \in Auth
  BY DEF Row
<1>4. \A n \in Auth : n \in Int /\ n >= 0
  BY AuthIsInt
<1> QED
  BY <1>1, <1>2, <1>3, <1>4

\* What a commit writes, column by column.
LEMMA WrittenFacts ==
  ASSUME AccountsTypeOK, NEW q \in Calls, request[q].on \in Users
  PROVE  LET r == request[q] IN
         /\ Written(q) \in Row
         /\ Written(q).role = IF r.to.role = r.saw.role THEN user[r.on].role ELSE r.to.role
         /\ Written(q).active = IF r.to.active = r.saw.active THEN user[r.on].active ELSE r.to.active
         /\ Written(q).auth = IF r.to.auth = r.saw.auth THEN user[r.on].auth ELSE r.to.auth
<1>1. PICK row \in Row : row = user[request[q].on]
  BY NumbersTyped
<1>2. PICK to \in Row : to = request[q].to
  BY NumbersTyped
<1>3. PICK saw \in Row : saw = request[q].saw
  BY NumbersTyped
<1> DEFINE role == IF to.role = saw.role THEN row.role ELSE to.role
           active == IF to.active = saw.active THEN row.active ELSE to.active
           auth == IF to.auth = saw.auth THEN row.auth ELSE to.auth
<1>4. Written(q) = [row EXCEPT !.role = role, !.active = active, !.auth = auth]
  BY <1>1, <1>2, <1>3 DEF Written
<1>5. /\ role \in UserRoles \cup {NoRole} /\ active \in BOOLEAN /\ auth \in Auth
      /\ row.acting_as_role \in UserRoles \cup {NoRole}
  BY DEF Row
<1>6. role = (IF to.role = saw.role THEN row.role ELSE to.role)
      /\ active = (IF to.active = saw.active THEN row.active ELSE to.active)
      /\ auth = (IF to.auth = saw.auth THEN row.auth ELSE to.auth)
  OBVIOUS
<1> HIDE DEF role, active, auth
<1>7. /\ Written(q) \in Row
      /\ Written(q).role = role /\ Written(q).active = active /\ Written(q).auth = auth
  BY <1>4, <1>5 DEF Row
<1> QED
  BY <1>1, <1>2, <1>3, <1>6, <1>7

-----------------------------------------------------------------------------
(* The invariant.                                                           *)

OthersStay(q) == \A p \in Calls \ {q} : request'[p] = request[p]

\* No call but q is making an identity for u.
NoOtherMaker(q, u) == \A p \in Calls \ {q} : request[p].on = u => ~Makes(p)

\* A call that ends, whatever it wrote of the row and took of the identity it
\* made, keeps the invariant.
LEMMA EndKeeps ==
  ASSUME AccountsInv, NEW q \in Calls, Answer(q), UNCHANGED minted,
         faults' \in 0 .. MaxFaults, faults' >= faults,
         user' \in [Users -> Row],
         \A u \in Users : \/ user'[u].auth = user[u].auth
                          \/ user'[u].auth = 0
                          \/ user'[u].auth <= minted[u] /\ NoOtherMaker(q, u),
         \A u \in Users : \/ identity'[u] = identity[u]
                          \/ identity'[u] = 0 /\ NoOtherMaker(q, u),
         identity' \in [Users -> Auth]
  PROVE  AccountsInv'
<1>1. request' \in [Calls -> Request] /\ request'[q] = Idle /\ OthersStay(q)
  BY IdleTyped DEF AccountsInv, AccountsTypeOK, Answer, OthersStay
<1>2. AccountsTypeOK'
  BY <1>1 DEF AccountsInv, AccountsTypeOK
<1>3. faults \in Int /\ faults' \in Int /\ faults >= 0
  BY AccountsAssumption DEF AccountsAssumption, AccountsInv, AccountsTypeOK
<1>4. NumbersMade'
  <2>1. ASSUME NEW u \in Users PROVE identity'[u] <= minted'[u] /\ user'[u].auth <= minted'[u]
    BY NumbersTyped DEF AccountsInv, NumbersMade
  <2>2. ASSUME NEW p \in Calls, request'[p].on \in Users
        PROVE  request'[p].saw.auth <= minted'[request'[p].on]
    BY <1>1, <2>2, IdleTyped DEF AccountsInv, NumbersMade, OthersStay
  <2> QED
    BY <2>1, <2>2 DEF NumbersMade
<1>5. ASSUME NEW p \in Calls PROVE CallMeant(p)'
  <2>1. CASE p = q
    BY <1>1, <2>1, IdleTyped DEF CallMeant
  <2>2. CASE p # q
    <3>1. request'[p] = request[p] /\ CallMeant(p)
      BY <1>1, <2>2 DEF OthersStay, AccountsInv
    <3>2. faults' = 0 => faults = 0
      BY <1>3
    <3>3. request[p].on \in Users =>
            \/ identity'[request[p].on] = identity[request[p].on]
            \/ identity'[request[p].on] = 0
      OBVIOUS
    <3>4. request[p].kind = "delete" => request[p].on \in Users
      BY <3>1, IdleTyped DEF CallMeant
    <3> QED
      BY <3>1, <3>2, <3>3, <3>4 DEF CallMeant
  <2> QED
    BY <2>1, <2>2
<1>6. ASSUME NEW p \in Calls PROVE MadeApart(p)'
  <2> SUFFICES ASSUME Makes(p)' PROVE MadeApart(p)'
    BY DEF MadeApart
  <2>1. p # q
    BY <1>1, IdleTyped DEF Makes
  <2>2. request'[p] = request[p] /\ Makes(p) /\ MadeApart(p) /\ request[p].on \in Users
    <3>1. request'[p] = request[p] /\ MadeApart(p) /\ CallMeant(p)
      BY <1>1, <2>1 DEF OthersStay, AccountsInv
    <3> QED
      BY <3>1, IdleTyped DEF Makes, CallMeant
  <2> DEFINE u == request[p].on
             n == request[p].to.auth
  <2>3. ~NoOtherMaker(q, u)
    BY <2>1, <2>2 DEF NoOtherMaker
  <2>4. identity'[u] = identity[u] /\ (user'[u].auth = user[u].auth \/ user'[u].auth = 0)
    BY <2>2, <2>3
  <2>5. /\ n > 0 /\ identity[u] = n /\ user[u].auth # n
        /\ \A c \in Calls \ {p} : request[c].on = u => ~Makes(c)
        /\ \A c \in Calls : request[c].on = u => request[c].saw.auth # n
    BY <2>2 DEF MadeApart
  <2>6. \A c \in Calls : request'[c].on = u =>
          c # q /\ request'[c] = request[c] /\ request[c].on = u /\ (Makes(c)' => Makes(c))
    BY <1>1, <2>2, IdleTyped DEF OthersStay, Makes
  <2>7. n \in Int /\ user'[u].auth # n
    BY <2>2, <2>4, <2>5, NumbersTyped DEF AccountsInv
  <2> HIDE DEF u, n
  <2>8. /\ n > 0 /\ identity'[u] = n /\ user'[u].auth # n
        /\ \A c \in Calls \ {p} : request'[c].on = u => ~Makes(c)'
        /\ \A c \in Calls : request'[c].on = u => request'[c].saw.auth # n
    BY <2>4, <2>5, <2>6, <2>7
  <2>9. u = request'[p].on /\ n = request'[p].to.auth
    BY <2>2 DEF u, n
  <2> QED
    BY <2>8, <2>9 DEF MadeApart
<1> QED
  BY <1>2, <1>4, <1>5, <1>6 DEF AccountsInv

MakingKinds == {"register", "reactivate", "bootstrap"}

\* Where the numbers stand after an identity was made.
LEMMA MintFacts ==
  ASSUME AccountsInv, NEW u \in Users, Mint(u)
  PROVE  /\ identity[u] = 0 /\ minted[u] + 1 \in Auth
         /\ minted' \in [Users -> Auth] /\ identity' \in [Users -> Auth]
         /\ minted'[u] = minted[u] + 1 /\ identity'[u] = minted[u] + 1
         /\ \A v \in Users \ {u} : minted'[v] = minted[v] /\ identity'[v] = identity[v]
<1>1. minted[u] \in Int /\ minted[u] >= 0 /\ minted[u] < MaxMinted
  BY NumbersTyped DEF AccountsInv, Mint
<1>2. minted[u] + 1 \in Auth
  BY <1>1, AccountsAssumption DEF Auth, AccountsAssumption
<1> QED
  BY <1>2 DEF Mint, AccountsInv, AccountsTypeOK

\* A call that opens on what it has just read keeps the invariant, whether or not
\* it makes an identity.
LEMMA BeginKeeps ==
  ASSUME AccountsInv, NEW q \in Calls, NEW kind \in Kinds, NEW u \in Users, NEW to \in Row,
         Begin(q, kind, u, to), UNCHANGED <<user, faults>>,
         IF kind \in MakingKinds
           THEN Mint(u) /\ to.auth = minted[u] + 1
           ELSE UNCHANGED <<identity, minted>>,
         kind \in {"update", "delete", "reactivate"} => user[u] # NoRow,
         kind = "update" =>
           /\ to.auth = user[u].auth
           /\ user[u].role = "bunker_manager" =>
                Cardinality(ActiveManagers) > 1 \/ (to.role = "bunker_manager" /\ to.active),
         kind = "delete" =>
           /\ to = NoRow \/ to.auth = user[u].auth
           /\ user[u].role = "bunker_manager" => Cardinality(ActiveManagers) > 1,
         kind = "reactivate" => ~user[u].active
  PROVE  AccountsInv'
<1> DEFINE r == [kind |-> kind, on |-> u, saw |-> user[u], to |-> to,
                 managers |-> ActiveManagers, flushed |-> FALSE]
<1>1. /\ r \in Request /\ r.kind = kind /\ r.on = u /\ r.saw = user[u] /\ r.to = to
      /\ r.managers = ActiveManagers /\ r.flushed = FALSE
  BY NumbersTyped DEF Request, ActiveManagers, AccountsInv
<1>2. request[q] = Idle /\ request' = [request EXCEPT ![q] = r]
  BY DEF Begin
<1> HIDE DEF r
<1>3. request' \in [Calls -> Request] /\ request'[q] = r /\ OthersStay(q)
  BY <1>1, <1>2 DEF AccountsInv, AccountsTypeOK, OthersStay
<1>4. /\ minted' \in [Users -> Auth] /\ identity' \in [Users -> Auth]
      /\ \A v \in Users \ {u} : minted'[v] = minted[v] /\ identity'[v] = identity[v]
      /\ kind \in MakingKinds =>
           identity[u] = 0 /\ minted'[u] = minted[u] + 1 /\ identity'[u] = minted[u] + 1
      /\ kind \notin MakingKinds => minted'[u] = minted[u] /\ identity'[u] = identity[u]
  BY MintFacts DEF AccountsInv, AccountsTypeOK
<1>5. AccountsTypeOK'
  BY <1>3, <1>4 DEF AccountsInv, AccountsTypeOK
<1>6. \A v \in Users : minted'[v] \in Int /\ minted[v] \in Int /\ minted[v] <= minted'[v]
  BY <1>4, <1>5, NumbersTyped, AuthIsInt DEF AccountsInv
<1>7. NumbersMade'
  <2>1. ASSUME NEW v \in Users PROVE identity'[v] <= minted'[v] /\ user'[v].auth <= minted'[v]
    <3>1. user[v].auth <= minted[v] /\ identity[v] <= minted[v]
      BY DEF AccountsInv, NumbersMade
    <3>2. user'[v].auth <= minted'[v]
      BY <1>6, <3>1, NumbersTyped DEF AccountsInv
    <3>3. identity'[v] = identity[v] \/ identity'[v] = minted'[v]
      BY <1>4
    <3>4. identity[v] \in Int
      BY NumbersTyped DEF AccountsInv
    <3> QED
      BY <1>6, <3>1, <3>2, <3>3, <3>4
  <2>2. ASSUME NEW p \in Calls, request'[p].on \in Users
        PROVE  request'[p].saw.auth <= minted'[request'[p].on]
    <3>1. CASE p = q
      BY <1>1, <1>3, <2>1, <3>1
    <3>2. CASE p # q
      <4>1. request'[p] = request[p] /\ request[p].saw.auth <= minted[request[p].on]
        BY <1>3, <2>2, <3>2 DEF OthersStay, AccountsInv, NumbersMade
      <4>2. request[p].saw.auth \in Int
        BY NumbersTyped DEF AccountsInv
      <4> QED
        BY <1>6, <2>2, <4>1, <4>2
    <3> QED
      BY <3>1, <3>2
  <2> QED
    BY <2>1, <2>2 DEF NumbersMade
\* The address has no identity when one is made, so nobody else is making one.
<1>8. kind \in MakingKinds => NoOtherMaker(q, u)
  <2> SUFFICES ASSUME kind \in MakingKinds, NEW p \in Calls, request[p].on = u, Makes(p)
               PROVE  FALSE
    BY DEF NoOtherMaker
  <2>1. identity[u] = request[p].to.auth /\ request[p].to.auth > 0
    BY DEF AccountsInv, MadeApart
  <2> QED
    BY <1>4, <2>1
<1>9. ASSUME NEW p \in Calls PROVE CallMeant(p)'
  <2>1. CASE p = q
    BY <1>1, <1>3, <2>1 DEF CallMeant, Kinds
  <2>2. CASE p # q
    <3>1. request'[p] = request[p] /\ CallMeant(p)
      BY <1>3, <2>2 DEF OthersStay, AccountsInv
    <3>2. request[p].kind = "delete" => request[p].on \in Users
      BY <3>1, IdleTyped DEF CallMeant
    <3>3. request[p].kind = "delete" => request[p].saw.auth <= minted[request[p].on]
      BY <3>2 DEF AccountsInv, NumbersMade
    <3>4. request[p].kind = "delete" =>
            \/ identity'[request[p].on] = identity[request[p].on]
            \/ identity'[request[p].on] # request[p].saw.auth
      <4> DEFINE v == request[p].on
      <4> SUFFICES ASSUME request[p].kind = "delete", identity'[v] # identity[v]
                   PROVE  identity'[v] # request[p].saw.auth
        OBVIOUS
      <4>1. identity'[v] = minted[v] + 1
        BY <1>4, <3>2
      <4>2. minted[v] \in Int /\ request[p].saw.auth \in Int /\ request[p].saw.auth <= minted[v]
        BY <3>2, <3>3, NumbersTyped DEF AccountsInv
      <4> QED
        BY <4>1, <4>2
    <3> QED
      BY <3>1, <3>2, <3>4 DEF CallMeant
  <2> QED
    BY <2>1, <2>2
<1>10. ASSUME NEW p \in Calls PROVE MadeApart(p)'
  <2> SUFFICES ASSUME Makes(p)' PROVE MadeApart(p)'
    BY DEF MadeApart
  <2>1. CASE p = q
    <3> DEFINE n == minted[u] + 1
    <3>1. kind \in MakingKinds /\ to.auth = n
      BY <1>1, <1>3, <2>1 DEF Makes, MakingKinds
    <3>2. \A c \in Calls : request'[c].on = u =>
            c = q \/ (request'[c] = request[c] /\ request[c].on = u)
      BY <1>3 DEF OthersStay
    <3>3. minted[u] \in Int /\ minted[u] >= 0 /\ user[u].auth \in Int /\ user[u].auth <= minted[u]
      BY NumbersTyped DEF AccountsInv, NumbersMade
    <3>4. n > 0 /\ user[u].auth # n
      BY <3>3
    <3>5. \A c \in Calls : request[c].on = u => request[c].saw.auth # n
      <4> SUFFICES ASSUME NEW c \in Calls, request[c].on = u PROVE request[c].saw.auth # n
        OBVIOUS
      <4>1. request[c].saw.auth \in Int /\ request[c].saw.auth <= minted[u]
        BY NumbersTyped DEF AccountsInv, NumbersMade
      <4> QED
        BY <3>3, <4>1
    <3>6. \A c \in Calls \ {q} : request'[c].on = u => ~Makes(c)'
      BY <1>8, <3>1, <3>2 DEF NoOtherMaker, Makes
    <3>7. \A c \in Calls : request'[c].on = u => request'[c].saw.auth # n
      BY <1>1, <1>3, <3>2, <3>4, <3>5
    <3>8. identity'[u] = n
      BY <1>4, <3>1
    <3> HIDE DEF n
    <3> QED
      BY <1>1, <1>3, <2>1, <3>1, <3>4, <3>6, <3>7, <3>8 DEF MadeApart
  <2>2. CASE p # q
    <3> DEFINE v == request[p].on
               n == request[p].to.auth
    <3>1. request'[p] = request[p] /\ Makes(p) /\ v \in Users
      <4>1. request'[p] = request[p] /\ CallMeant(p)
        BY <1>3, <2>2 DEF OthersStay, AccountsInv
      <4> QED
        BY <4>1, IdleTyped DEF Makes, CallMeant
    <3>2. /\ n > 0 /\ identity[v] = n /\ user[v].auth # n
          /\ \A c \in Calls \ {p} : request[c].on = v => ~Makes(c)
          /\ \A c \in Calls : request[c].on = v => request[c].saw.auth # n
      BY <3>1 DEF AccountsInv, MadeApart
    <3>3. u = v => kind \notin MakingKinds
      BY <1>8, <2>2, <3>1 DEF NoOtherMaker
    <3>4. identity'[v] = n
      BY <1>4, <3>1, <3>2, <3>3
    <3>5. \A c \in Calls : request'[c].on = v =>
            \/ c = q /\ u = v
            \/ c # q /\ request'[c] = request[c] /\ request[c].on = v
      BY <1>1, <1>3 DEF OthersStay
    <3>6. u = v => ~Makes(q)' /\ request'[q].saw.auth # n
      BY <1>1, <1>3, <3>2, <3>3 DEF Makes, MakingKinds
    <3> HIDE DEF v, n
    <3>7. \A c \in Calls \ {p} : request'[c].on = v => ~Makes(c)'
      BY <3>2, <3>5, <3>6 DEF Makes
    <3>8. \A c \in Calls : request'[c].on = v => request'[c].saw.auth # n
      BY <3>2, <3>5, <3>6
    <3> QED
      BY <3>1, <3>2, <3>4, <3>7, <3>8 DEF MadeApart, v, n
  <2> QED
    BY <2>1, <2>2
<1> QED
  BY <1>5, <1>7, <1>9, <1>10 DEF AccountsInv

\* The row is held and the identity it names is taken back, or the call to do so
\* is lost.
LEMMA FlushKeeps ==
  ASSUME AccountsInv, NEW q \in Calls, FlushDelete(q)
  PROVE  AccountsInv'
<1> DEFINE u == request[q].on
           n == request[q].saw.auth
<1>1. /\ request[q].kind = "delete" /\ request' = [request EXCEPT ![q].flushed = TRUE]
      /\ UNCHANGED <<user, minted>>
      /\ \/ identity' = [identity EXCEPT ![u] = IF @ = n THEN 0 ELSE @] /\ faults' = faults
         \/ faults < MaxFaults /\ faults' = faults + 1 /\ identity' = identity
  BY DEF FlushDelete, Fault
<1>2. u \in Users /\ CallMeant(q)
  BY <1>1, IdleTyped DEF AccountsInv, CallMeant
<1>3. /\ faults' \in 0 .. MaxFaults /\ faults \in Int /\ faults >= 0
      /\ faults' = 0 => faults = 0
      /\ faults' = 0 => identity'[u] = 0 \/ identity'[u] # n
  BY <1>1, <1>2, AccountsAssumption DEF AccountsAssumption, AccountsInv, AccountsTypeOK
<1>4. /\ identity' \in [Users -> Auth]
      /\ \A v \in Users : identity'[v] = identity[v] \/ (v = u /\ identity[v] = n /\ identity'[v] = 0)
  BY <1>1, <1>2, AuthIsInt DEF AccountsInv, AccountsTypeOK
<1>5. /\ request' \in [Calls -> Request] /\ OthersStay(q)
      /\ request'[q].kind = "delete" /\ request'[q].on = u /\ request'[q].saw = request[q].saw
      /\ request'[q].to = request[q].to /\ request'[q].managers = request[q].managers
  <2>1. PICK r \in Request : r = request[q]
    BY NumbersTyped DEF AccountsInv
  <2>2. /\ [r EXCEPT !.flushed = TRUE] \in Request
        /\ [r EXCEPT !.flushed = TRUE].kind = r.kind /\ [r EXCEPT !.flushed = TRUE].on = r.on
        /\ [r EXCEPT !.flushed = TRUE].saw = r.saw /\ [r EXCEPT !.flushed = TRUE].to = r.to
        /\ [r EXCEPT !.flushed = TRUE].managers = r.managers
    BY DEF Request
  <2>3. request' = [request EXCEPT ![q] = [r EXCEPT !.flushed = TRUE]]
    BY <1>1, <2>1
  <2> QED
    BY <1>1, <2>1, <2>2, <2>3 DEF AccountsInv, AccountsTypeOK, OthersStay
<1>6. AccountsTypeOK'
  BY <1>1, <1>3, <1>4, <1>5 DEF AccountsInv, AccountsTypeOK
<1>7. \A p \in Calls : /\ request'[p].on = request[p].on /\ request'[p].saw = request[p].saw
                       /\ request'[p].to = request[p].to /\ (Makes(p)' <=> Makes(p))
  BY <1>1, <1>5 DEF OthersStay, Makes
<1> HIDE DEF n, u
<1>8. NumbersMade'
  BY <1>1, <1>4, <1>7, NumbersTyped DEF AccountsInv, NumbersMade
<1>9. ASSUME NEW p \in Calls PROVE CallMeant(p)'
  <2>1. CASE p = q
    BY <1>1, <1>2, <1>3, <1>5, <2>1 DEF CallMeant, n, u, Idle
  <2>2. CASE p # q
    <3>1. request'[p] = request[p] /\ CallMeant(p)
      BY <1>5, <2>2 DEF OthersStay, AccountsInv
    <3>2. request[p].kind = "delete" => request[p].on \in Users
      BY <3>1, IdleTyped DEF CallMeant
    <3> QED
      BY <1>3, <1>4, <3>1, <3>2 DEF CallMeant
  <2> QED
    BY <2>1, <2>2
<1>10. ASSUME NEW p \in Calls PROVE MadeApart(p)'
  <2> SUFFICES ASSUME Makes(p) PROVE MadeApart(p)'
    BY <1>7 DEF MadeApart
  <2>1. MadeApart(p) /\ request[p].on \in Users
    BY IdleTyped DEF AccountsInv, CallMeant, Makes
  <2>2. identity'[request[p].on] = identity[request[p].on]
    BY <1>2, <1>4, <2>1 DEF MadeApart, n, u
  <2> QED
    BY <1>1, <1>7, <2>1, <2>2 DEF MadeApart
<1> QED
  BY <1>6, <1>8, <1>9, <1>10 DEF AccountsInv

\* Acting as another role touches neither a number nor a call.
LEMMA ActingKeeps ==
  ASSUME AccountsInv, NEW u \in Users, NEW role \in UserRoles \cup {NoRole},
         user' = [user EXCEPT ![u].acting_as_role = role],
         UNCHANGED <<identity, minted, request, faults>>
  PROVE  /\ AccountsInv'
         /\ \A v \in Users : /\ user'[v].auth = user[v].auth /\ user'[v].role = user[v].role
                             /\ user'[v].active = user[v].active
<1>1. PICK row \in Row : row = user[u]
  BY NumbersTyped DEF AccountsInv
<1>2. /\ [row EXCEPT !.acting_as_role = role] \in Row
      /\ [row EXCEPT !.acting_as_role = role].auth = row.auth
      /\ [row EXCEPT !.acting_as_role = role].role = row.role
      /\ [row EXCEPT !.acting_as_role = role].active = row.active
  BY DEF Row
<1>3. user' = [user EXCEPT ![u] = [row EXCEPT !.acting_as_role = role]]
  BY <1>1
<1>4. user' \in [Users -> Row]
  BY <1>2, <1>3 DEF AccountsInv, AccountsTypeOK
<1>5. \A v \in Users : /\ user'[v].auth = user[v].auth /\ user'[v].role = user[v].role
                       /\ user'[v].active = user[v].active
  BY <1>1, <1>2, <1>3 DEF AccountsInv, AccountsTypeOK
<1>6. AccountsTypeOK' /\ NumbersMade'
  BY <1>4, <1>5 DEF AccountsInv, AccountsTypeOK, NumbersMade
<1>7. ASSUME NEW p \in Calls PROVE CallMeant(p)' /\ MadeApart(p)'
  <2>1. CallMeant(p) /\ MadeApart(p)
    BY DEF AccountsInv
  <2>2. Makes(p) => request[p].on \in Users
    BY <2>1, IdleTyped DEF CallMeant, Makes
  <2>3. CallMeant(p)'
    BY <2>1 DEF CallMeant
  <2>4. MadeApart(p)'
    BY <1>5, <2>1, <2>2 DEF MadeApart, Makes
  <2> QED
    BY <2>3, <2>4
<1> QED
  BY <1>5, <1>6, <1>7 DEF AccountsInv

LEMMA BeginUpdateKeeps ==
  ASSUME AccountsInv, NEW q \in Calls, NEW a \in Users, NEW u \in Users,
         NEW role \in Roles, NEW active \in BOOLEAN, BeginUpdate(q, a, u, role, active)
  PROVE  AccountsInv'
<1> DEFINE to == [user[u] EXCEPT !.role = role, !.active = active]
<1>1. PICK row \in Row : row = user[u]
  BY NumbersTyped DEF AccountsInv
<1>2. to \in Row /\ to.auth = user[u].auth /\ to.role = role /\ to.active = active
  BY <1>1, AccountsAssumption DEF Row, AccountsAssumption
<1>3. /\ Begin(q, "update", u, to) /\ UNCHANGED <<user, faults>> /\ UNCHANGED <<identity, minted>>
      /\ user[u] # NoRow
      /\ user[u].role = "bunker_manager" =>
           Cardinality(ActiveManagers) > 1 \/ (role = "bunker_manager" /\ active)
  BY DEF BeginUpdate, Exists, SpareManager, IsManager
<1> HIDE DEF to
<1> QED
  BY <1>2, <1>3, BeginKeeps DEF Kinds, MakingKinds

LEMMA BeginDeleteKeeps ==
  ASSUME AccountsInv, NEW q \in Calls, NEW a \in Users, NEW u \in Users, BeginDelete(q, a, u)
  PROVE  AccountsInv'
<1>1. PICK to \in {NoRow, [user[u] EXCEPT !.active = FALSE]} : Begin(q, "delete", u, to)
  BY DEF BeginDelete
<1>2. PICK row \in Row : row = user[u]
  BY NumbersTyped DEF AccountsInv
<1>3. to \in Row /\ (to = NoRow \/ to.auth = user[u].auth)
  BY <1>1, <1>2, IdleTyped DEF Row
<1>4. /\ UNCHANGED <<user, faults>> /\ UNCHANGED <<identity, minted>> /\ user[u] # NoRow
      /\ user[u].role = "bunker_manager" => Cardinality(ActiveManagers) > 1
  BY DEF BeginDelete, Exists, SpareManager, IsManager
<1> QED
  BY <1>1, <1>3, <1>4, BeginKeeps DEF Kinds, MakingKinds

LEMMA BeginCreateKeeps ==
  ASSUME AccountsInv, NEW q \in Calls, NEW a \in Users, NEW u \in Users, NEW role \in Roles,
         BeginCreate(q, a, u, role)
  PROVE  AccountsInv'
<1> DEFINE kind == IF Exists(u) /\ ~user[u].active THEN "reactivate" ELSE "register"
           to == [user[u] EXCEPT !.role = role, !.active = TRUE, !.auth = minted[u] + 1]
<1>1. PICK row \in Row : row = user[u]
  BY NumbersTyped DEF AccountsInv
<1>2. Begin(q, kind, u, to) /\ Mint(u) /\ UNCHANGED <<user, faults>>
  BY DEF BeginCreate
<1>3. to \in Row /\ to.auth = minted[u] + 1
  BY <1>1, <1>2, MintFacts, AccountsAssumption DEF Row, AccountsAssumption
<1>4. /\ kind \in Kinds /\ kind \in MakingKinds /\ kind # "update" /\ kind # "delete"
      /\ kind = "reactivate" => user[u] # NoRow /\ ~user[u].active
  BY DEF Kinds, MakingKinds, Exists
<1> HIDE DEF kind, to
<1> QED
  BY <1>2, <1>3, <1>4, BeginKeeps

LEMMA BeginBootstrapKeeps ==
  ASSUME AccountsInv, NEW q \in Calls, NEW u \in Users, BeginBootstrap(q, u)
  PROVE  AccountsInv'
<1> DEFINE to == [role |-> "bunker_manager", acting_as_role |-> NoRole,
                  active |-> TRUE, auth |-> minted[u] + 1]
<1>1. Begin(q, "bootstrap", u, to) /\ Mint(u) /\ UNCHANGED <<user, faults>>
  BY DEF BeginBootstrap
<1>2. to \in Row /\ to.auth = minted[u] + 1
  BY <1>1, MintFacts DEF Row, UserRoles
<1> HIDE DEF to
<1> QED
  BY <1>1, <1>2, BeginKeeps DEF Kinds, MakingKinds

-----------------------------------------------------------------------------
(* What a commit does to its row.                                           *)

\* A call under way is about somebody; one that makes an identity is the only one
\* that does so for him.
LEMMA OpenCall ==
  ASSUME AccountsInv, NEW q \in Calls, request[q].kind # "none"
  PROVE  /\ request[q] # Idle /\ request[q].on \in Users /\ CallMeant(q) /\ MadeApart(q)
         /\ Makes(q) => NoOtherMaker(q, request[q].on)
  BY IdleTyped DEF AccountsInv, CallMeant, MadeApart, NoOtherMaker

\* A commit that writes columns onto the row as it is: an update, a deactivation,
\* a reactivation.
LEMMA WriteKeeps ==
  ASSUME AccountsInv, NEW q \in Calls, request[q].kind \in {"update", "delete", "reactivate"},
         request[q].to.auth = request[q].saw.auth \/ Makes(q),
         user' = [user EXCEPT ![request[q].on] = Written(q)],
         Answer(q), UNCHANGED <<identity, minted, faults>>
  PROVE  /\ AccountsInv'
         /\ user'[request[q].on] = Written(q)
         /\ \A v \in Users \ {request[q].on} : user'[v] = user[v]
<1> DEFINE u == request[q].on
<1>1. u \in Users /\ (Makes(q) => NoOtherMaker(q, u)) /\ MadeApart(q)
  BY OpenCall
<1>2. /\ Written(q) \in Row
      /\ \/ Written(q).auth = user[u].auth
         \/ Makes(q) /\ Written(q).auth = request[q].to.auth
  BY <1>1, WrittenFacts DEF AccountsInv
<1>3. user' \in [Users -> Row] /\ user'[u] = Written(q) /\ \A v \in Users \ {u} : user'[v] = user[v]
  BY <1>1, <1>2 DEF AccountsInv, AccountsTypeOK
<1>4. Makes(q) => request[q].to.auth <= minted[u]
  BY <1>1 DEF MadeApart, AccountsInv, NumbersMade
<1>5. /\ faults' \in 0 .. MaxFaults /\ faults' >= faults
      /\ identity' \in [Users -> Auth]
  BY AccountsAssumption DEF AccountsAssumption, AccountsInv, AccountsTypeOK
<1> HIDE DEF u
<1>6. \A v \in Users : user'[v].auth = user[v].auth
                       \/ (user'[v].auth <= minted[v] /\ NoOtherMaker(q, v))
  BY <1>1, <1>2, <1>3, <1>4
<1> QED
  BY <1>3, <1>5, <1>6, EndKeeps DEF u

\* The row is there with the identity that was made for it.
LEMMA RegisterKeeps ==
  ASSUME AccountsInv, NEW q \in Calls, CommitRegister(q)
  PROVE  /\ AccountsInv' /\ Makes(q)
         /\ user[request[q].on] = NoRow /\ user'[request[q].on].auth = request[q].to.auth
         /\ \A v \in Users \ {request[q].on} : user'[v] = user[v]
<1> DEFINE u == request[q].on
           row == [request[q].to EXCEPT !.acting_as_role = NoRole]
<1>1. /\ Makes(q) /\ request[q].kind # "none" /\ user[u] = NoRow
      /\ user' = [user EXCEPT ![u] = row]
      /\ Answer(q) /\ UNCHANGED <<identity, minted, faults>>
  BY DEF CommitRegister, Registering, Makes, Exists
<1>2. u \in Users /\ NoOtherMaker(q, u) /\ MadeApart(q)
  BY <1>1, OpenCall
<1>3. row \in Row /\ row.auth = request[q].to.auth
  <2>1. PICK to \in Row : to = request[q].to
    BY NumbersTyped DEF AccountsInv
  <2> QED
    BY <2>1 DEF Row
<1>4. request[q].to.auth <= minted[u]
  BY <1>1, <1>2 DEF MadeApart, AccountsInv, NumbersMade
<1> HIDE DEF row
<1>5. user' \in [Users -> Row] /\ user'[u] = row /\ \A v \in Users \ {u} : user'[v] = user[v]
  BY <1>1, <1>2, <1>3 DEF AccountsInv, AccountsTypeOK
<1>6. /\ faults' \in 0 .. MaxFaults /\ faults' >= faults
      /\ identity' \in [Users -> Auth]
  BY <1>1, AccountsAssumption DEF AccountsAssumption, AccountsInv, AccountsTypeOK
<1> HIDE DEF u
<1>7. \A v \in Users : user'[v].auth = user[v].auth
                       \/ (user'[v].auth <= minted[v] /\ NoOtherMaker(q, v))
  BY <1>2, <1>3, <1>4, <1>5
<1>8. AccountsInv'
  BY <1>1, <1>5, <1>6, <1>7, EndKeeps
<1> QED
  BY <1>1, <1>3, <1>5, <1>8 DEF u

\* The row goes, or is deactivated as it stands.
LEMMA DeleteKeeps ==
  ASSUME AccountsInv, NEW q \in Calls, CommitDelete(q)
  PROVE  /\ AccountsInv'
         /\ user'[request[q].on] = IF request[q].to = NoRow THEN NoRow ELSE Written(q)
         /\ \A v \in Users \ {request[q].on} : user'[v] = user[v]
<1>1. /\ request[q].kind = "delete" /\ Answer(q) /\ UNCHANGED <<identity, minted, faults>>
      /\ user' = [user EXCEPT ![request[q].on] =
                    IF request[q].to = NoRow THEN NoRow ELSE Written(q)]
  BY DEF CommitDelete
<1>2. request[q].on \in Users /\ CallMeant(q)
  BY <1>1, OpenCall
<1>3. CASE request[q].to = NoRow
  <2>1. /\ user' \in [Users -> Row] /\ user'[request[q].on] = NoRow
        /\ \A v \in Users \ {request[q].on} : user'[v] = user[v]
    BY <1>1, <1>2, <1>3, IdleTyped DEF AccountsInv, AccountsTypeOK
  <2>2. \A v \in Users : user'[v].auth = user[v].auth \/ user'[v].auth = 0
    BY <2>1, IdleTyped
  <2>3. /\ faults' \in 0 .. MaxFaults /\ faults' >= faults
        /\ identity' \in [Users -> Auth]
    BY <1>1, AccountsAssumption DEF AccountsAssumption, AccountsInv, AccountsTypeOK
  <2> QED
    BY <1>1, <2>1, <2>2, <2>3, EndKeeps
<1>4. CASE request[q].to # NoRow
  <2>1. /\ request[q].to.auth = request[q].saw.auth
        /\ user' = [user EXCEPT ![request[q].on] = Written(q)]
    BY <1>1, <1>2, <1>4 DEF CallMeant
  <2> QED
    BY <1>1, <1>4, <2>1, WriteKeeps
<1> QED
  BY <1>3, <1>4

\* A call that ends without writing a row.
LEMMA NothingWrittenKeeps ==
  ASSUME AccountsInv, NEW q \in Calls, RefuseRegister(q) \/ LoseCommit(q) \/ WriteNothing(q)
  PROVE  AccountsInv'
<1>1. /\ Answer(q) /\ UNCHANGED <<user, minted>>
      /\ faults' = faults \/ (faults < MaxFaults /\ faults' = faults + 1)
      /\ \/ identity' = identity
         \/ /\ Makes(q)
            /\ identity' = [identity EXCEPT ![request[q].on] =
                              IF @ = request[q].to.auth THEN 0 ELSE @]
  BY DEF RefuseRegister, LoseCommit, WriteNothing, Fault, Registering, Makes
<1>2. faults' \in 0 .. MaxFaults /\ faults' >= faults
  BY <1>1, AccountsAssumption DEF AccountsAssumption, AccountsInv, AccountsTypeOK
<1>3. Makes(q) => request[q].kind # "none"
  BY DEF Makes
<1>4. /\ identity' \in [Users -> Auth]
      /\ \A v \in Users : identity'[v] = identity[v] \/ (identity'[v] = 0 /\ NoOtherMaker(q, v))
  BY <1>1, <1>3, OpenCall, AuthIsInt DEF AccountsInv, AccountsTypeOK
<1>5. user' \in [Users -> Row]
  BY <1>1 DEF AccountsInv, AccountsTypeOK
<1> QED
  BY <1>1, <1>2, <1>4, <1>5, EndKeeps

LEMMA StepKeeps ==
  ASSUME AccountsInv, [AccountsNext]_accountVars
  PROVE  AccountsInv'
<1>1. ASSUME NEW q \in Calls, CommitUpdate(q) \/ CommitReactivate(q)
      PROVE  AccountsInv'
  <2>1. /\ request[q].kind \in {"update", "reactivate"} /\ request[q].kind # "none"
        /\ user' = [user EXCEPT ![request[q].on] = Written(q)]
        /\ Answer(q) /\ UNCHANGED <<identity, minted, faults>>
    BY <1>1 DEF CommitUpdate, CommitReactivate
  <2>2. request[q].to.auth = request[q].saw.auth \/ Makes(q)
    BY <2>1, OpenCall DEF CallMeant, Makes
  <2> QED
    BY <2>1, <2>2, WriteKeeps
<1>2. ASSUME NEW u \in Users, ClearActAs(u) \/ \E role \in Roles : ActAs(u, role)
      PROVE  AccountsInv'
  <2>1. PICK role \in UserRoles \cup {NoRole} : /\ user' = [user EXCEPT ![u].acting_as_role = role]
                                               /\ UNCHANGED <<identity, minted, request, faults>>
    BY <1>2, AccountsAssumption DEF ClearActAs, ActAs, AccountsAssumption
  <2> QED
    BY <2>1, ActingKeeps
<1>3. CASE UNCHANGED accountVars
  BY <1>3 DEF accountVars, AccountsInv, AccountsTypeOK, NumbersMade, CallMeant, MadeApart, Makes
<1> QED
  BY <1>1, <1>2, <1>3, BeginUpdateKeeps, BeginDeleteKeeps, BeginCreateKeeps, BeginBootstrapKeeps,
     FlushKeeps, DeleteKeeps, RegisterKeeps, NothingWrittenKeeps
     DEF AccountsNext

\* No call forgets what it is about, and an identity under way is known to the
\* call that makes it alone: the invariant of accounts and identities.
THEOREM AccountsSafe == AccountsSpec => []AccountsInv
<1>1. AccountsInit => AccountsInv
  <2> SUFFICES ASSUME AccountsInit PROVE AccountsInv
    OBVIOUS
  <2>1. AccountsTypeOK /\ NumbersMade
    BY IdleTyped, AuthIsInt, AccountsAssumption
       DEF AccountsInit, AccountsTypeOK, NumbersMade, AccountsAssumption
  <2>2. ASSUME NEW q \in Calls PROVE CallMeant(q) /\ MadeApart(q)
    BY IdleTyped DEF AccountsInit, CallMeant, MadeApart, Makes
  <2> QED
    BY <2>1, <2>2 DEF AccountsInv
<1>2. AccountsInv /\ [AccountsNext]_accountVars => AccountsInv'
  BY StepKeeps
<1> QED
  BY <1>1, <1>2, PTL DEF AccountsSpec

\* Users, identities and calls keep their types, whichever requests overlap.
THEOREM AccountsTypeCorrect == AccountsSpec => []AccountsTypeOK
<1>1. AccountsInv => AccountsTypeOK
  BY DEF AccountsInv
<1> QED
  BY <1>1, AccountsSafe, PTL

-----------------------------------------------------------------------------
(* The last manager.                                                        *)

Manages(row) == row.role = "bunker_manager" /\ row.active

\* Whoever else is a manager remains one when another's row is written.
LEMMA AnotherRemains ==
  ASSUME NEW u \in Users, \A v \in Users \ {u} : user'[v] = user[v],
         \/ ActiveManagers # {} /\ u \notin ActiveManagers
         \/ Cardinality(ActiveManagers) > 1
         \/ Manages(user'[u])
  PROVE  ActiveManagers' # {}
<1>1. ActiveManagers \in SUBSET Users /\ IsFiniteSet(ActiveManagers)
  <2>1. ActiveManagers \in SUBSET Users
    BY DEF ActiveManagers
  <2> QED
    BY <2>1, AccountsAssumption, FS_Subset DEF AccountsAssumption
<1>2. CASE Manages(user'[u])
  BY <1>2 DEF Manages, ActiveManagers, IsManager
<1>3. CASE Cardinality(ActiveManagers) > 1
  <2>1. PICK v \in ActiveManagers : v # u
    <3>1. SUFFICES ASSUME ActiveManagers \in SUBSET {u} PROVE FALSE
      OBVIOUS
    <3>2. IsFiniteSet({u}) /\ Cardinality({u}) = 1
      BY FS_Singleton
    <3>3. Cardinality(ActiveManagers) <= 1 /\ Cardinality(ActiveManagers) \in Nat
      BY <1>1, <3>1, <3>2, FS_Subset, FS_CardinalityType
    <3> QED
      BY <1>3, <3>3
  <2> QED
    BY <2>1 DEF ActiveManagers, IsManager
<1>4. CASE ActiveManagers # {} /\ u \notin ActiveManagers
  BY <1>4 DEF ActiveManagers, IsManager
<1> QED
  BY <1>2, <1>3, <1>4

LEMMA StepManaged ==
  ASSUME AccountsInv, [AccountsNext]_accountVars, ActiveManagers # {}, ActiveManagers' = {}
  PROVE  \E q \in Calls : EndsStale(q)
<1>1. ASSUME user' = user PROVE FALSE
  BY <1>1 DEF ActiveManagers, IsManager
<1>2. ASSUME \A v \in Users : user'[v].role = user[v].role /\ user'[v].active = user[v].active
      PROVE  FALSE
  BY <1>2 DEF ActiveManagers, IsManager
<1>3. ASSUME NEW q \in Calls, CommitUpdate(q) \/ CommitReactivate(q) \/ CommitDelete(q),
             ~EndsStale(q)
      PROVE  FALSE
  <2> DEFINE r == request[q]
             u == request[q].on
  <2>1. /\ r.kind \in {"update", "reactivate", "delete"} /\ r.kind # "none"
        /\ r.kind # "delete" => user' = [user EXCEPT ![u] = Written(q)]
        /\ Answer(q) /\ UNCHANGED <<identity, minted, faults>>
    BY <1>3 DEF CommitUpdate, CommitReactivate, CommitDelete
  <2>2. u \in Users /\ CallMeant(q) /\ r # Idle
    BY <2>1, OpenCall
  <2>3. r.saw = user[u] /\ r.managers = ActiveManagers
    BY <1>3, <2>1, <2>2 DEF EndsStale, Stale, Answer, AccountsInv, AccountsTypeOK
  <2>4. r.to.auth = r.saw.auth \/ Makes(q) \/ r.kind = "delete"
    BY <2>1, <2>2 DEF CallMeant, Makes
  <2>5. /\ \A v \in Users \ {u} : user'[v] = user[v]
        /\ r.kind # "delete" => user'[u] = Written(q)
    <3>1. CASE r.kind = "delete"
      BY <1>3, <3>1, DeleteKeeps DEF CommitUpdate, CommitReactivate
    <3>2. CASE r.kind # "delete"
      BY <2>1, <2>4, <3>2, WriteKeeps
    <3> QED
      BY <3>1, <3>2
  <2>6. Written(q).role = r.to.role /\ Written(q).active = r.to.active
    BY <2>2, <2>3, WrittenFacts DEF AccountsInv
  <2>7. u \in ActiveManagers => r.saw.role = "bunker_manager" /\ r.saw.active
    BY <2>3 DEF ActiveManagers, IsManager
  <2>8. \/ ActiveManagers # {} /\ u \notin ActiveManagers
        \/ Cardinality(ActiveManagers) > 1
        \/ Manages(user'[u])
    BY <2>1, <2>2, <2>3, <2>5, <2>6, <2>7 DEF CallMeant, Manages
  <2> HIDE DEF r, u
  <2> QED
    BY <2>2, <2>5, <2>8, AnotherRemains
<1>4. ASSUME NEW q \in Calls, CommitRegister(q) PROVE FALSE
  <2>1. /\ request[q].on \in Users /\ user[request[q].on] = NoRow
        /\ \A v \in Users \ {request[q].on} : user'[v] = user[v]
    BY <1>4, RegisterKeeps, OpenCall DEF Makes
  <2>2. request[q].on \notin ActiveManagers
    BY <2>1, IdleTyped DEF ActiveManagers
  <2> QED
    BY <2>1, <2>2, AnotherRemains
<1>5. ASSUME NEW u \in Users, ClearActAs(u) \/ \E role \in Roles : ActAs(u, role)
      PROVE  FALSE
  <2>1. PICK role \in UserRoles \cup {NoRole} : /\ user' = [user EXCEPT ![u].acting_as_role = role]
                                               /\ UNCHANGED <<identity, minted, request, faults>>
    BY <1>5, AccountsAssumption DEF ClearActAs, ActAs, AccountsAssumption
  <2> QED
    BY <1>2, <2>1, ActingKeeps
<1> QED
  BY <1>1, <1>3, <1>4, <1>5
     DEF AccountsNext, accountVars, BeginUpdate, BeginDelete, BeginCreate, BeginBootstrap,
         FlushDelete, RefuseRegister, LoseCommit, WriteNothing

\* Requests that do not overlap never demote, deactivate or delete the last active
\* Bunker Manager, for any number of users: it takes one whose count, or whose
\* picture of its user, no longer holds.
THEOREM LastManagerNeedsStaleCount == AccountsSpec => LastManagerLeavesOnlyStale
<1>1. AccountsInv /\ [AccountsNext]_accountVars =>
        (ActiveManagers # {} /\ ActiveManagers' = {} => \E q \in Calls : EndsStale(q))
  BY StepManaged
<1> QED
  BY <1>1, AccountsSafe, PTL DEF AccountsSpec, LastManagerLeavesOnlyStale

-----------------------------------------------------------------------------
(* Identities nobody owns.                                                  *)

\* What keeps an identity from being orphaned: nothing of its owner changed.
OwnersStay(u) ==
  /\ identity'[u] = identity[u] \/ identity'[u] = 0
  /\ user'[u].auth = user[u].auth
  /\ Making(u) => Making(u)'

LEMMA StaysOwned ==
  ASSUME NEW u \in Users, OwnersStay(u), Orphaned(u)'
  PROVE  Orphaned(u)
  BY DEF OwnersStay, Orphaned

\* A call that makes nothing may come, go on or end.
LEMMA MakersStay ==
  ASSUME NEW q \in Calls, ~Makes(q), OthersStay(q), NEW u
  PROVE  Making(u) => Making(u)'
  BY DEF Making, Makes, OthersStay

\* A call that has ended changed nothing of the others.
LEMMA EndFacts ==
  ASSUME AccountsInv, NEW q \in Calls, Answer(q)
  PROVE  request'[q] = Idle /\ OthersStay(q)
  BY DEF Answer, OthersStay, AccountsInv, AccountsTypeOK

OrphanedStep ==
  \A u \in Users : Orphaned(u)' /\ ~Orphaned(u) =>
    faults' > 0 \/ \E q \in Calls : EndsStale(q)

\* A call that opens takes nothing away, and what it makes is under way.
LEMMA OpensOwned ==
  ASSUME AccountsInv, NEW q \in Calls, NEW u \in Users, NEW kind \in Kinds, NEW to,
         Begin(q, kind, u, to), UNCHANGED user,
         UNCHANGED identity \/ (Mint(u) /\ kind \in MakingKinds),
         NEW v \in Users, Orphaned(v)'
  PROVE  Orphaned(v)
<1>1. /\ request[q] = Idle /\ OthersStay(q)
      /\ request'[q].kind = kind /\ request'[q].on = u
  BY DEF Begin, OthersStay, AccountsInv, AccountsTypeOK
<1>2. \A w : Making(w) => Making(w)'
  <2>1. ~Makes(q)
    BY <1>1, IdleTyped DEF Makes
  <2> QED
    BY <1>1, <2>1, MakersStay
<1>3. CASE identity'[v] = identity[v]
  BY <1>2, <1>3, StaysOwned DEF OwnersStay
<1>4. CASE identity'[v] # identity[v]
  <2>1. v = u /\ kind \in MakingKinds
    BY <1>4, MintFacts
  <2>2. Making(u)'
    BY <1>1, <2>1 DEF Making, MakingKinds
  <2> QED
    BY <2>1, <2>2 DEF Orphaned
<1> QED
  BY <1>3, <1>4

\* A commit of an update, a deletion or a reactivation whose reads hold leaves its
\* user's identity with an owner.
LEMMA WritesOwned ==
  ASSUME AccountsInv, NEW q \in Calls, CommitUpdate(q) \/ CommitReactivate(q) \/ CommitDelete(q),
         ~EndsStale(q), ~(faults' > 0), NEW v \in Users, Orphaned(v)'
  PROVE  Orphaned(v)
<1> DEFINE r == request[q]
           u == request[q].on
<1>1. /\ r.kind \in {"update", "reactivate", "delete"} /\ r.kind # "none"
      /\ r.kind # "delete" => user' = [user EXCEPT ![u] = Written(q)]
      /\ r.kind = "delete" => CommitDelete(q) /\ r.flushed
      /\ Answer(q) /\ UNCHANGED <<identity, minted, faults>>
  BY DEF CommitUpdate, CommitReactivate, CommitDelete
<1>2. u \in Users /\ CallMeant(q) /\ MadeApart(q) /\ r # Idle
  BY <1>1, OpenCall
<1>3. request'[q] = Idle /\ OthersStay(q)
  BY <1>1, EndFacts
<1>4. r.saw = user[u]
  BY <1>1, <1>2, <1>3 DEF EndsStale, Stale
<1>5. /\ \A w \in Users \ {u} : user'[w] = user[w]
      /\ r.kind # "delete" => user'[u] = Written(q)
      /\ r.kind = "delete" => user'[u] = IF r.to = NoRow THEN NoRow ELSE Written(q)
  <2>1. CASE r.kind = "delete"
    BY <1>1, <2>1, DeleteKeeps
  <2>2. CASE r.kind # "delete"
    <3>1. r.to.auth = r.saw.auth \/ Makes(q)
      BY <1>1, <1>2, <2>2 DEF CallMeant, Makes
    <3> QED
      BY <1>1, <2>2, <3>1, WriteKeeps
  <2> QED
    BY <2>1, <2>2
<1>6. Written(q).auth = r.to.auth
  BY <1>2, <1>4, WrittenFacts DEF AccountsInv
<1>7. faults = 0
  BY <1>1, AccountsAssumption DEF AccountsInv, AccountsTypeOK, AccountsAssumption
<1>8. CASE Makes(q)
  <2>1. r.kind # "delete" /\ identity'[u] = user'[u].auth
    BY <1>1, <1>2, <1>5, <1>6, <1>8 DEF Makes, MadeApart
  <2>2. v # u
    BY <2>1 DEF Orphaned
  <2>3. Making(v) => Making(v)'
    BY <1>3, <2>2 DEF Making, OthersStay
  <2> QED
    BY <1>1, <1>5, <2>2, <2>3, StaysOwned DEF OwnersStay
<1>9. CASE ~Makes(q)
  <2>1. Making(v) => Making(v)'
    BY <1>3, <1>9, MakersStay
  <2>2. CASE user'[v].auth = user[v].auth
    BY <1>1, <2>1, <2>2, StaysOwned DEF OwnersStay
  <2>3. CASE user'[v].auth # user[v].auth
    <3>1. v = u
      BY <1>5, <2>3
    <3>2. r.kind = "delete"
      BY <1>1, <1>2, <1>4, <1>5, <1>6, <1>9, <2>3, <3>1 DEF CallMeant, Makes
    <3>3. identity[u] = 0 \/ identity[u] # user[u].auth
      BY <1>1, <1>2, <1>4, <1>7, <3>2 DEF CallMeant
    <3> QED
      BY <1>1, <2>1, <3>1, <3>3 DEF Orphaned
  <2> QED
    BY <2>2, <2>3
<1> QED
  BY <1>8, <1>9

LEMMA StepOrphans ==
  ASSUME AccountsInv, [AccountsNext]_accountVars
  PROVE  OrphanedStep
<1> SUFFICES ASSUME NEW v \in Users, Orphaned(v)', ~Orphaned(v), ~(faults' > 0),
                    \A q \in Calls : ~EndsStale(q)
             PROVE  FALSE
  BY DEF OrphanedStep
<1>1. ASSUME NEW q \in Calls, NEW a \in Users, NEW u \in Users,
             \/ \E role \in Roles, active \in BOOLEAN : BeginUpdate(q, a, u, role, active)
             \/ BeginDelete(q, a, u)
             \/ \E role \in Roles : BeginCreate(q, a, u, role)
             \/ BeginBootstrap(q, u)
      PROVE  FALSE
  <2>1. PICK kind \in Kinds : \E to :
               /\ Begin(q, kind, u, to) /\ UNCHANGED user
               /\ UNCHANGED identity \/ (Mint(u) /\ kind \in MakingKinds)
    BY <1>1 DEF BeginUpdate, BeginDelete, BeginCreate, BeginBootstrap, Kinds, MakingKinds
  <2> QED
    BY <2>1, OpensOwned
<1>2. ASSUME NEW q \in Calls, FlushDelete(q) PROVE FALSE
  <2>1. /\ ~Makes(q) /\ OthersStay(q) /\ request[q].on \in Users
        /\ UNCHANGED user
        /\ \/ identity' = identity
           \/ identity' = [identity EXCEPT ![request[q].on] = IF @ = request[q].saw.auth THEN 0 ELSE @]
    BY <1>2, OpenCall DEF FlushDelete, Fault, Makes, OthersStay, AccountsInv, AccountsTypeOK
  <2>2. Making(v) => Making(v)'
    BY <2>1, MakersStay
  <2>3. identity'[v] = identity[v] \/ identity'[v] = 0
    BY <2>1 DEF AccountsInv, AccountsTypeOK
  <2> QED
    BY <2>1, <2>2, <2>3, StaysOwned DEF OwnersStay
<1>3. ASSUME NEW q \in Calls, CommitRegister(q) PROVE FALSE
  <2>1. /\ Makes(q) /\ Answer(q) /\ UNCHANGED identity
        /\ user'[request[q].on].auth = request[q].to.auth
        /\ \A w \in Users \ {request[q].on} : user'[w] = user[w]
    BY <1>3, RegisterKeeps DEF CommitRegister
  <2>2. identity[request[q].on] = request[q].to.auth
    BY <2>1 DEF AccountsInv, MadeApart
  <2>3. v # request[q].on
    BY <2>1, <2>2 DEF Orphaned
  <2>4. Making(v) => Making(v)'
    BY <2>1, <2>3, EndFacts DEF Making, OthersStay
  <2> QED
    BY <2>1, <2>3, <2>4, StaysOwned DEF OwnersStay
<1>4. ASSUME NEW q \in Calls, RefuseRegister(q) PROVE FALSE
  <2>1. /\ Makes(q) /\ Answer(q) /\ UNCHANGED user /\ request[q].on \in Users
        /\ faults' = faults \/ faults' = faults + 1
    BY <1>4, OpenCall DEF RefuseRegister, Registering, Makes, Fault
  <2>2. faults \in Int /\ faults >= 0
    BY AccountsAssumption DEF AccountsInv, AccountsTypeOK, AccountsAssumption
  <2>3. identity' = [identity EXCEPT ![request[q].on] = IF @ = request[q].to.auth THEN 0 ELSE @]
    BY <1>4, <2>2 DEF RefuseRegister, Fault
  <2>4. identity[request[q].on] = request[q].to.auth
    BY <2>1 DEF AccountsInv, MadeApart
  <2>5. identity'[request[q].on] = 0 /\ identity'[v] \in {0, identity[v]}
    BY <2>1, <2>3, <2>4 DEF AccountsInv, AccountsTypeOK
  <2>6. v # request[q].on
    BY <2>5 DEF Orphaned
  <2>7. Making(v) => Making(v)'
    BY <2>1, <2>6, EndFacts DEF Making, OthersStay
  <2> QED
    BY <2>1, <2>5, <2>7, StaysOwned DEF OwnersStay
<1>5. ASSUME NEW q \in Calls, LoseCommit(q) PROVE FALSE
  BY <1>5, AccountsAssumption DEF LoseCommit, Fault, AccountsInv, AccountsTypeOK, AccountsAssumption
<1>6. ASSUME NEW q \in Calls, WriteNothing(q) PROVE FALSE
  <2>1. /\ request[q].kind \in {"update", "delete", "reactivate"} /\ request[q].kind # "none"
        /\ user[request[q].on] = NoRow
        /\ Answer(q) /\ UNCHANGED <<user, identity>>
    BY <1>6 DEF WriteNothing, Exists
  <2>2. request[q].saw # NoRow /\ request[q] # Idle
    BY <2>1, OpenCall DEF CallMeant
  <2>3. EndsStale(q)
    BY <2>1, <2>2, EndFacts DEF EndsStale, Stale
  <2> QED
    BY <2>3
<1>7. ASSUME NEW u \in Users, ClearActAs(u) \/ \E role \in Roles : ActAs(u, role)
      PROVE  FALSE
  <2>1. PICK role \in UserRoles \cup {NoRole} : /\ user' = [user EXCEPT ![u].acting_as_role = role]
                                               /\ UNCHANGED <<identity, minted, request, faults>>
    BY <1>7, AccountsAssumption DEF ClearActAs, ActAs, AccountsAssumption
  <2> QED
    BY <2>1, ActingKeeps, StaysOwned DEF OwnersStay, Making
<1>8. CASE UNCHANGED accountVars
  BY <1>8 DEF accountVars, Orphaned, Making
<1> QED
  BY <1>1, <1>2, <1>3, <1>4, <1>5, <1>6, <1>7, <1>8, WritesOwned DEF AccountsNext

\* An identity loses its owner only by a lost commit, a lost deletion, or a
\* request whose user changed under it: what is refused or fails in a handler
\* takes back exactly what it made, for any number of users and requests.
THEOREM OrphansComeOfFaults == AccountsSpec => OrphansNeedAFault
<1>1. AccountsInv /\ [AccountsNext]_accountVars =>
        \A u \in Users : Orphaned(u)' /\ ~Orphaned(u) =>
          faults' > 0 \/ \E q \in Calls : EndsStale(q)
  BY StepOrphans DEF OrphanedStep
<1> QED
  BY <1>1, AccountsSafe, PTL DEF AccountsSpec, OrphansNeedAFault
=============================================================================
