--------------------------- MODULE FamilyAccount ----------------------------
(***************************************************************************)
(* The family account of a rider's season (view_modules/family_finance.py, *)
(* family_finance_helpers.py, models.py): charges, the dues generated from *)
(* the rate of the rider's home barn, credits, service agreements, outside *)
(* assistance with its claims, and payments.  Claims that are reimbursed   *)
(* and payments have a row of the team's ledger each.                      *)
(***************************************************************************)
EXTENDS TeamLedger

CONSTANTS Memberships,   \* rider seasons, all of CurrentSeason
          CurrentSeason, Barns,
          Billed         \* the sets of charges an account may start with

ChargeTypes   == {"membership_dues", "show_fee", "other"}
Charge  == [id : LedgerIds, member : Memberships, type : ChargeTypes, amount : 0..MaxAmount, due : {0, 1, 2, 3},
            show : Shows \cup {None}, status : {"open", "waived", "closed"}, rate : Barns \cup {None}]
Credit  == [id : LedgerIds, charge : LedgerIds, amount : 1..MaxAmount, status : {"pending", "applied", "cancelled"}]
Service == [id : LedgerIds, member : Memberships, charge : LedgerIds, amount : 1..MaxAmount,
            status : {"pending", "applied", "cancelled"}]
Award   == [id : LedgerIds, member : Memberships, maximum : 1..MaxAmount]
ClaimStatuses == {"draft", "submitted", "approved", "reimbursed", "denied", "cancelled"}
Claim   == [id : LedgerIds, award : LedgerIds, charge : LedgerIds, relief : 0..MaxAmount, reimbursed : 0..MaxAmount,
            status : ClaimStatuses, cat : Categories, link : 0..MaxTx]
Payment == [id : LedgerIds, charge : LedgerIds, amount : 1..MaxAmount, cat : Categories, status : {"posted", "void"},
            link : 0..MaxTx]

ASSUME FamilyAccountAssumption ==
  /\ CurrentSeason \in Seasons /\ None \notin Barns \cup Memberships
  /\ \A set \in Billed : set \subseteq Charge /\ \A c, d \in set : c.id = d.id => c = d

VARIABLES barns,      \* the active home barns
          homeBarn,   \* the home barn of a membership
          rates,      \* MembershipDuesRate: the amount of a barn, or NoRate
          charges, credits, services, awards, claims, payments

accountVars == <<barns, homeBarn, rates, charges, credits, services, awards, claims, payments>>
duesVars    == <<barns, homeBarn, rates>>
familyVars  == <<ledgerVars, accountVars>>
NoRate      == -1

FamilyInit ==
  /\ barns = Barns
  /\ homeBarn \in [Memberships -> Barns \cup {None}]
  /\ rates = [b \in Barns |-> NoRate]
  /\ charges \in Billed
  /\ credits = {} /\ services = {} /\ awards = {} /\ claims = {} /\ payments = {}

(*------------------------------- balances --------------------------------*)
On(rows, c)  == {r \in rows : r.charge = c.id}
Relief(rows) == SumFunction([r \in rows |-> r.relief])
AppliedCredit(c)  == Total({r \in On(credits, c) : r.status = "applied"})
ServiceCredit(c)  == Total({r \in On(services, c) : r.status = "applied"})
Assistance(c)     == Relief({r \in On(claims, c) : r.status \notin {"draft", "denied", "cancelled"}})
Paid(c)           == Total({r \in On(payments, c) : r.status = "posted"})
RawBalance(c)     == c.amount - AppliedCredit(c) - ServiceCredit(c) - Assistance(c) - Paid(c)

\* Mutant: only an open charge is owed.
Balance_Open(c) == IF c.status # "open" THEN 0 ELSE Larger(RawBalance(c), 0)

\* What is still owed on a charge: nothing when waived, never less than nothing.
Balance(c) == IF c.status = "waived" THEN 0 ELSE Larger(RawBalance(c), 0)

ChargesOf(m)   == {c \in charges : c.member = m}
ChargeOf(r)    == CHOOSE c \in charges : c.id = r.charge
AccountOf(m)   ==
  LET own == ChargesOf(m) IN
  [billed     |-> Total({c \in own : c.status # "waived"}),
   credits    |-> SumFunction([c \in own |-> AppliedCredit(c)]) + SumFunction([c \in own |-> ServiceCredit(c)]),
   assistance |-> SumFunction([c \in own |-> Assistance(c)]),
   paid       |-> SumFunction([c \in own |-> Paid(c)]),
   balance    |-> SumFunction([c \in own |-> Balance(c)])]

\* The receivable report on day 2 with one day's notice: a charge is due (0: no date) on day 1, 2 or 3.
Today      == 2
Owing(m)   == {c \in ChargesOf(m) : Balance(c) > 0 /\ c.due # 0}
Overdue(m) == SumFunction([c \in {x \in Owing(m) : x.due < Today} |-> Balance(c)])
DueSoon(m) == SumFunction([c \in {x \in Owing(m) : x.due = Today} |-> Balance(c)])
NextDue(m) == IF Owing(m) = {} THEN 0 ELSE Min({c.due : c \in Owing(m)})
ReceivableStatus(m) ==
  IF Overdue(m) > 0 THEN "overdue"
  ELSE IF DueSoon(m) > 0 THEN "due_soon"
  ELSE IF AccountOf(m).balance <= 0 /\ AccountOf(m).billed > 0 THEN "paid" ELSE "current"

(*--------------------------------- dues ----------------------------------*)
\* home_barn_create, home_barn_edit, and the home barn of a membership.
HomeBarnSave(b, active) ==
  /\ barns' = IF active THEN barns \cup {b} ELSE barns \ {b}
  /\ UNCHANGED <<homeBarn, rates, charges, credits, services, awards, claims, payments, ledgerVars>>
HomeBarnChange(m, b) ==
  /\ homeBarn' = [homeBarn EXCEPT ![m] = b]
  /\ UNCHANGED <<barns, rates, charges, credits, services, awards, claims, payments, ledgerVars>>

\* dues_rate_create and dues_rate_edit: one rate for a barn, which an edit may move to another barn.
DuesRateSave(from, b, amount) ==
  /\ b \in barns \/ (b = from /\ rates[b] # NoRate)
  /\ from # b => rates[from] # NoRate /\ rates[b] = NoRate
  /\ rates' = [c \in Barns |-> IF c = b THEN amount ELSE IF c = from THEN NoRate ELSE rates[c]]
  /\ UNCHANGED <<barns, homeBarn, charges, credits, services, awards, claims, payments, ledgerVars>>

\* Mutant: dues from another rate do not count as existing.
HasDues_SameRate(m) == \E c \in ChargesOf(m) : c.rate = homeBarn[m]

\* A charge of the dues type, however it was made, stops the generation.
HasDues(m) == \E c \in ChargesOf(m) : c.type = "membership_dues"
\* Mutant: the rate is not looked for.
Billable_Unrated == {m \in Memberships : ~HasDues(m) /\ homeBarn[m] # None}

\* Those the generation bills: home barn, rate and no dues yet.
Billable   == {m \in Memberships : ~HasDues(m) /\ homeBarn[m] # None /\ rates[homeBarn[m]] # NoRate}
FreeIds(n) == {ids \in SUBSET {i \in LedgerIds : \A c \in charges : c.id # i} : Cardinality(ids) = n}
DuesCharge(m, id) ==
  [id |-> id, member |-> m, type |-> "membership_dues", amount |-> rates[homeBarn[m]], due |-> 3, show |-> None,
   status |-> "open", rate |-> homeBarn[m]]

\* Bill the members of `who`, each with a charge of its own.
Generate(who) ==
  /\ \E ids \in FreeIds(Cardinality(who)) : \E number \in [who -> ids] :
       /\ \A m, n \in who : m # n => number[m] # number[n]
       /\ charges' = charges \cup {DuesCharge(m, number[m]) : m \in who}
  /\ UNCHANGED <<duesVars, credits, services, awards, claims, payments, ledgerVars>>
MembershipDuesGenerate(m) == m \in Billable /\ Generate({m})
MembershipDuesGenerateAll == Generate(Billable)

(*-------------------------- charges and credits --------------------------*)
\* family_charge_create and family_charge_edit: any field but the rate, at any time.
FamilyChargeSave(c) ==
  /\ \A old \in charges : old.id = c.id => old.member = c.member /\ old.rate = c.rate
  /\ NewIn(charges, c) => c.rate = None
  /\ c.show # None => SeasonOf[c.show] = CurrentSeason
  /\ charges' = ById(charges, c)
  /\ UNCHANGED <<duesVars, credits, services, awards, claims, payments, ledgerVars>>

\* family_credit_add and family_credit_edit; the charge of a credit is not on the form.
FamilyCreditSave(r) ==
  /\ \A old \in credits : old.id = r.id => old.charge = r.charge
  /\ \E c \in charges : c.id = r.charge
  /\ credits' = ById(credits, r)
  /\ UNCHANGED <<duesVars, charges, services, awards, claims, payments, ledgerVars>>

\* A service agreement reduces a charge of its own rider season.
ServiceAgreementSave(r) ==
  /\ \E c \in ChargesOf(r.member) : c.id = r.charge
  /\ \A old \in services : old.id = r.id => old.member = r.member
  /\ services' = ById(services, r)
  /\ UNCHANGED <<duesVars, charges, credits, awards, claims, payments, ledgerVars>>

(*------------------------------ assistance -------------------------------*)
ClaimsOf(a)   == {r \in claims : r.award = a.id}
LiveClaims(rows) == {r \in rows : r.status \notin {"denied", "cancelled"}}
Allocated(a)  == Relief(LiveClaims(ClaimsOf(a)))
Remaining(a)  == Larger(a.maximum - Allocated(a), 0)
AwardReport(a) ==
  [allocated |-> Allocated(a), remaining |-> Remaining(a),
   reimbursed  |-> SumFunction([r \in ClaimsOf(a) |-> r.reimbursed]),
   drafts      |-> Cardinality({r \in ClaimsOf(a) : r.status = "draft"}),
   outstanding |-> Cardinality({r \in ClaimsOf(a) : r.status \in {"submitted", "approved"}})]

\* assistance_award_add and assistance_award_edit: the maximum is not compared with the claims.
AssistanceAwardSave(a) ==
  /\ \A old \in awards : old.id = a.id => old.member = a.member
  /\ awards' = ById(awards, a)
  /\ UNCHANGED <<duesVars, charges, credits, services, claims, payments, ledgerVars>>

\* Mutant: drafts are not counted against the award.
WithinAward_Drafts(r, a) == Relief({o \in LiveClaims(ClaimsOf(a)) : o.id # r.id /\ o.status # "draft"}) + r.relief <= a.maximum

WithinAward(r, a) == Relief({o \in LiveClaims(ClaimsOf(a)) : o.id # r.id}) + r.relief <= a.maximum

IncomeCategory(cat) == categories[cat].active /\ Allows(cat, "income")
ClaimClean(r) ==
  /\ \E a \in awards : a.id = r.award /\ (\E c \in ChargesOf(a.member) : c.id = r.charge) /\ WithinAward(r, a)
  /\ IncomeCategory(r.cat)
  /\ r.status = "reimbursed" => r.reimbursed > 0

\* Mutant: the claim is unlinked and its income kept.
ClaimSync_Kept(r) == IF r.status # "reimbursed" THEN UNCHANGED tx
                     ELSE PostFor(r.link, Posting("income", r.cat, CurrentSeason, r.reimbursed, <<"claim", r.id>>))

\* _sync_assistance_transaction: income only while the claim is reimbursed.
ClaimSync(r) ==
  IF r.status # "reimbursed" THEN tx' = VoidRow(r.link)
  ELSE PostFor(r.link, Posting("income", r.cat, CurrentSeason, r.reimbursed, <<"claim", r.id>>))

\* assistance_claim_add and assistance_claim_edit, one transaction; `link` is not on the form.
AssistanceClaimSave(r) ==
  /\ IF NewIn(claims, r) THEN r.link = None ELSE \E old \in claims : old.id = r.id /\ old.award = r.award /\ old.link = r.link
  /\ ClaimClean(r)
  /\ ClaimSync(r)
  /\ claims' = ById(claims, [r EXCEPT !.link = IF r.status = "reimbursed" THEN RowOf(r.link) ELSE None])
  /\ UNCHANGED <<duesVars, charges, credits, services, awards, payments, categories, allocations, budgetLines>>

(*------------------------------- payments --------------------------------*)
PaymentClean(r) == IncomeCategory(r.cat) /\ \E c \in charges : c.id = r.charge
PaymentPosting(r) == Posting("income", r.cat, CurrentSeason, r.amount, <<"payment", r.id>>)

\* family_payment_add and family_payment_edit: nothing compares the amount with the balance, and an
\* existing ledger row keeps its status.
FamilyPaymentSave(r) ==
  /\ PaymentClean(r) /\ r.status = "posted"
  /\ IF NewIn(payments, r) THEN r.link = None
     ELSE \E old \in payments : /\ old.id = r.id /\ old.link = r.link /\ old.status = "posted"
                                /\ ChargeOf(old).member = ChargeOf(r).member
  /\ PostFor(r.link, PaymentPosting(r))
  /\ payments' = ById(payments, [r EXCEPT !.link = RowOf(r.link)])
  /\ UNCHANGED <<duesVars, charges, credits, services, awards, claims, categories, allocations, budgetLines>>

\* Mutant: the ledger row is voided only when it is still as the payment left it.
PaymentVoidRow_Same(r) == IF tx[r.link].amount = r.amount THEN VoidRow(r.link) ELSE tx

PaymentVoidRow(r) == VoidRow(r.link)

FamilyPaymentDelete(r) ==
  /\ r.status = "posted"
  /\ payments' = ById(payments, [r EXCEPT !.status = "void"])
  /\ tx' = PaymentVoidRow(r)
  /\ UNCHANGED <<duesVars, charges, credits, services, awards, claims, categories, allocations, budgetLines>>

(*------------------------------ properties -------------------------------*)
FamilyTypeOK ==
  /\ LedgerTypeOK
  /\ barns \subseteq Barns /\ homeBarn \in [Memberships -> Barns \cup {None}] /\ rates \in [Barns -> 0..MaxAmount \cup {NoRate}]
  /\ charges \subseteq Charge /\ credits \subseteq Credit /\ services \subseteq Service
  /\ awards \subseteq Award /\ claims \subseteq Claim /\ payments \subseteq Payment

\* An account never shows less owing than its bills minus everything taken
\* off them: an overpaid charge pays for no other, and only waiving forgives.
BalanceCoversTheBill ==
  \A m \in Memberships : LET a == AccountOf(m) IN a.balance >= a.billed - a.credits - a.assistance - a.paid

\* A voided payment leaves no income behind, whatever happened to its ledger row before.
VoidPaymentsHaveNoIncome ==
  \A r \in payments : r.status = "void" => r.link # None /\ tx[r.link].status = "void"

\* A claim has income exactly while it is reimbursed: when it stops being so its row is voided and let go.
ClaimLinkFollowsStatus ==
  /\ \A r \in claims : (r.status = "reimbursed") = (r.link # None)
  /\ \A i \in DOMAIN tx : tx[i].origin[1] = "claim" /\ (\A r \in claims : r.link # i) => tx[i].status = "void"

\* No claim, new, edited or revived, takes an award past its maximum, drafts included.
ClaimsStayWithinTheAward ==
  [][\A r \in claims' \ claims : \A a \in awards : a.id = r.award => Allocated(a)' <= a.maximum]_familyVars

\* A generated dues charge appears only on a rider season without dues, and the rider it is for gets one.
DuesAreGeneratedOnce ==
  [][\A m \in Memberships :
       LET new == {c \in charges' \ charges : c.member = m /\ c.rate # None /\ \A old \in charges : old.id # c.id} IN
       Cardinality(new) <= 1 /\ (new # {} => \A c \in charges : c.member = m => c.type # "membership_dues")]_familyVars

(*------------------------------- behaviour -------------------------------*)
DuesStep ==
  \/ \E b \in Barns, active \in BOOLEAN : HomeBarnSave(b, active)
  \/ \E m \in Memberships, b \in Barns \cup {None} : HomeBarnChange(m, b)
  \/ \E from, b \in Barns, amount \in 0..MaxAmount : DuesRateSave(from, b, amount)
  \/ \E m \in Memberships : MembershipDuesGenerate(m)
  \/ MembershipDuesGenerateAll
PaymentStep ==
  \/ \E r \in Payment : FamilyPaymentSave(r)
  \/ \E r \in payments : FamilyPaymentDelete(r)
=============================================================================
