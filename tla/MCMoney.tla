------------------------------ MODULE MCMoney -------------------------------
(***************************************************************************)
(* The team's money for TLC: the ledger with its show allocations, the     *)
(* family accounts, fundraising, the finance of shows, what the team owes, *)
(* and the billing of barn accounts.  `part` says which of them moves; all *)
(* but billing share the ledger.                                           *)
(***************************************************************************)
EXTENDS Fundraising, ShowFinance, Payables, BillingRuns

CONSTANTS Parts,          \* the parts a run explores
          HybridPercent   \* the share of the hybrid policy

ASSUME MoneyAssumption == HybridPercent \in Percents /\ 1 \in Categories /\ 1 \in Amounts

VARIABLE part
moneyVars == <<part, ledgerVars, accountVars, giftVars, showFinanceVars, payableVars, billingVars>>

MCSeasonOf  == <<1, 2>>           \* a show in each of two seasons
MCFeePolicy == <<"manual", "included">>
MCRiding    == <<{1, 2}, {1}>>
MCLoginOf   == [treasurer |-> [super |-> FALSE, role |-> "parent", committee |-> {"treasurer"}, leads |-> FALSE],
                parent    |-> [super |-> FALSE, role |-> "parent", committee |-> {}, leads |-> FALSE],
                rider     |-> [super |-> FALSE, role |-> "rider", committee |-> {}, leads |-> FALSE]]
MCBill(id, amount, status) ==
  [id |-> id, member |-> 1, type |-> IF id = 1 THEN "membership_dues" ELSE "other", amount |-> amount, due |-> id,
   show |-> None, status |-> status, rate |-> None]
MCBilled    == {{}, {MCBill(1, 2, "open")}, {MCBill(1, 2, "open"), MCBill(2, 1, "open")},
                {MCBill(1, 2, "waived")}, {MCBill(1, 2, "closed")}}

NothingOwed  == UNCHANGED <<payableVars, billingVars>>
OnlyLedger   == UNCHANGED <<accountVars, giftVars, showFinanceVars>> /\ NothingOwed
OnlyFamily   == UNCHANGED <<giftVars, showFinanceVars>> /\ NothingOwed
OnlyShows    == UNCHANGED giftVars /\ NothingOwed
OnlyPayables == UNCHANGED <<accountVars, giftVars, showFinanceVars, billingVars>>
OnlyBilling  == UNCHANGED <<ledgerVars, accountVars, giftVars, showFinanceVars, payableVars>>

\* The ledger touched by hand: a row voided, or its amount changed.
ByHand == \E i \in DOMAIN tx : \/ FinanceTransactionDelete(i, FALSE)
                               \/ \E amount \in Amounts : FinanceTransactionEdit(i, tx[i].kind, tx[i].cat, tx[i].season, amount)

MoneyInit ==
  /\ part \in Parts
  /\ LedgerInit /\ FamilyInit /\ FundraisingInit /\ ShowFinanceInit /\ PayablesInit /\ BillingInit
  /\ part # "billing" => rules = {}
  /\ part \in {"ledger", "dues", "fees", "show_budgets", "season_budgets", "reimbursements", "payables", "billing"} => charges = {}
  /\ part = "assistance" => charges = {MCBill(1, 2, "open")}
  /\ part = "payments" => Cardinality(charges) = 2
  /\ part = "gifts" => Cardinality(charges) = 2
  /\ part # "dues" => \A m \in Memberships : homeBarn[m] = None
  /\ part = "relief" => charges # {}

\* The inputs a part enumerates.
MCTransactions == /\ TransactionStep
                  /\ \A i \in DOMAIN tx' : tx'[i].cat = 1
FamilyDues ==
  \/ DuesStep /\ barns' # {} /\ \A b \in Barns : rates'[b] \in {NoRate, 1}
  \/ \E c \in charges, type \in ChargeTypes : FamilyChargeSave([c EXCEPT !.type = type])
FamilyRelief ==
  \/ \E r \in {r \in Credit : r.id = 1} : FamilyCreditSave(r)
  \/ \E r \in {r \in Service : r.id = 1 /\ r.member = 1} : ServiceAgreementSave(r)
  \/ \E c \in charges, amount \in 0..MaxAmount, status \in {"open", "waived", "closed"} :
       FamilyChargeSave([c EXCEPT !.amount = amount, !.status = status])
  \/ \E r \in {r \in Payment : r.id = 1 /\ r.cat = 1} : FamilyPaymentSave(r)
Awards == \E a \in {a \in Award : a.id = 1 /\ a.member = 1} : AssistanceAwardSave(a)
Claims == \E r \in {r \in Claim : r.award = 1 /\ r.charge = 1 /\ r.cat = 1 /\ r.relief \in Amounts /\ r.reimbursed \in {0, 1}} :
            AssistanceClaimSave(r)
Payments ==
  \/ PaymentStep /\ (\A r \in payments' : r.cat = 1)
  \/ FinanceCategoryStep /\ UNCHANGED accountVars
MCPolicy == {[model |-> "team_wide", percent |-> 0, types |-> {}], [model |-> "family_credit", percent |-> 100, types |-> {}],
             [model |-> "hybrid", percent |-> HybridPercent, types |-> {"other"}]}
MCGifts == {g \in Forms : g.cat = 1 /\ g.member # 2 /\ g.campaign = 1 /\ g.credit # 2}
Given == \/ GiftStep(MCGifts)
         \/ \E p \in MCPolicy : FundraisingPolicyEdit(p)
         \/ CampaignStep /\ Len(campaigns') = 1 /\ campaigns'[1] # "planned"
HandCredit == \E r \in credits : FamilyCreditSave([r EXCEPT !.status = "cancelled"])
FeeWaived == \E c \in charges, status \in {"open", "waived"} : FamilyChargeSave([c EXCEPT !.status = status])
MCForms == {r \in Request : /\ r.season = 1 /\ r.cat = 1 /\ r.show # 2 /\ r.link = None /\ r.status \in {"draft", "submitted"}
                            /\ r.by \in {"parent", "rider"} /\ r.amount = r.id}
MCPayables == PayablesStep /\ (\A o \in obligations' : o.cat = 1 /\ o.season = o.id - 1 /\ o.amount = 2)
MCCategory == \E kind \in Kinds \cup {"both"} : FinanceCategorySave(1, [kind |-> kind, active |-> TRUE])
MCAllocate == AllocationStep /\ \A a \in allocations' : a.amount = 1

MoneyNext ==
  /\ UNCHANGED part
  /\ \/ part = "ledger" /\ (MCTransactions \/ AllocationStep) /\ OnlyLedger
     \/ part = "dues" /\ FamilyDues /\ OnlyFamily
     \/ part = "relief" /\ FamilyRelief /\ OnlyFamily
     \/ part = "assistance" /\ (((Awards \/ Claims) /\ OnlyFamily) \/ (ByHand /\ OnlyLedger))
     \/ part = "payments" /\ ((Payments /\ OnlyFamily) \/ (ByHand /\ OnlyLedger))
     \/ part = "gifts" /\ ((Given /\ UNCHANGED showFinanceVars /\ NothingOwed) \/ (HandCredit /\ OnlyFamily)
                           \/ ((ByHand \/ (tx = <<>> /\ FinanceTransactionCreate("income", 1, CurrentSeason, 1))) /\ OnlyLedger))
     \/ part = "show_budgets" /\ ShowBudgetStep /\ (\A l \in budgetLines' : l.amount > 0) /\ OnlyShows
     \/ part = "season_budgets" /\ SeasonBudgetStep /\ (\A l \in seasonLines' : l.amount > 0 /\ (l.season = 1 \/ (l.cat = 1 /\ l.amount = 1))) /\ OnlyShows
     \/ part = "fees" /\ ((FeeStep /\ OnlyShows) \/ (FeeWaived /\ OnlyFamily))
     \/ part = "reimbursements" /\ ((ReimbursementStep(MCForms) /\ OnlyShows) \/ ((ByHand \/ MCAllocate) /\ OnlyLedger))
     \/ part = "payables" /\ ((MCPayables /\ OnlyPayables) \/ ((ByHand \/ MCCategory) /\ OnlyLedger))
     \/ part = "billing" /\ BillingStep /\ OnlyBilling

MoneySpec == MoneyInit /\ [][MoneyNext]_moneyVars

(*------------------------------ properties -------------------------------*)

\* What holds of the team's money between two requests: allocations fit their transaction, each
\* payment, claim and gift has one posting that says the same, a bill is never relieved below
\* nothing, budgets are mirrored in the generic ones, a request has its expense iff it is paid, no
\* obligation is overpaid, and overlapping runs bill each key once and never wait in a circle.
MoneyInvariant ==
  /\ ShowFinanceTypeOK /\ FundraisingTypeOK
  /\ AllocationsFit
  /\ OnePostingPerSource /\ BalanceCoversTheBill /\ VoidPaymentsHaveNoIncome /\ ClaimLinkFollowsStatus
  /\ GiftsMatchTheLedger
  /\ BudgetsAreMirrored /\ ExpenseIffPaid
  /\ PayablesTypeOK /\ NeverOverpaid /\ PaymentsAreBooked
  /\ BillingTypeOK /\ ChargedOnce /\ DoneMeansBilled /\ FailedRunsBillNobody /\ BatchesNeverDeadlock

\* What no request may do with it: bill dues or a show fee a second time, or credit a family for a
\* contribution that is void.
MoneySteps == DuesAreGeneratedOnce /\ VoidGiftsCreditNoOne /\ FeesAreGeneratedOnce
=============================================================================
