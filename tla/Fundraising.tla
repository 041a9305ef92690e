---------------------------- MODULE Fundraising -----------------------------
(***************************************************************************)
(* Fundraising (view_modules/fundraising.py, fundraising_helpers.py,       *)
(* forms_legacy.py, models.py): the policy of the season, campaigns, and   *)
(* contributions, each of which owns one row of the team's ledger and, when*)
(* part of it goes to a family, one credit on a charge of that family.     *)
(***************************************************************************)
EXTENDS FamilyAccount

CONSTANT Percents   \* default shares a hybrid policy may use

PolicyModels == {"team_wide", "family_credit", "hybrid"}
Policy   == [model : PolicyModels, percent : Percents \cup {0, 100}, types : SUBSET ChargeTypes]
Gift     == [id : LedgerIds, campaign : LedgerIds, amount : 1..MaxAmount, member : Memberships \cup {None},
             credit : 0..MaxAmount, charge : LedgerIds \cup {None}, cat : Categories, status : {"posted", "void"},
             link : 0..MaxTx, creditRow : LedgerIds \cup {None}]
ASSUME FundraisingAssumption == Percents \subseteq 0..100

VARIABLES policy,      \* FundraisingPolicy of the season
          campaigns,   \* the status of each FundraisingCampaign
          gifts        \* FundraisingContribution rows

giftVars == <<policy, campaigns, gifts>>
fundraisingVars == <<familyVars, giftVars>>

\* _fundraising_policy creates a team-wide policy the first time it is read.
FundraisingInit ==
  /\ policy = [model |-> "team_wide", percent |-> 0, types |-> {}]
  /\ campaigns = <<>>
  /\ gifts = {}

PolicyClean(p) ==
  /\ p.model = "team_wide" => p.percent = 0
  /\ p.model = "family_credit" => p.percent = 100
FundraisingPolicyEdit(p) ==
  /\ PolicyClean(p)
  /\ policy' = p
  /\ UNCHANGED <<campaigns, gifts, familyVars>>

CampaignStatuses == {"planned", "active", "closed"}
\* fundraising_campaign_create and fundraising_campaign_edit; a closed campaign may be opened again.
FundraisingCampaignSave(k, status) ==
  /\ k \in DOMAIN campaigns \/ k = Len(campaigns) + 1
  /\ campaigns' = IF k \in DOMAIN campaigns THEN [campaigns EXCEPT ![k] = status] ELSE Append(campaigns, status)
  /\ UNCHANGED <<policy, gifts, familyVars>>

\* amount * percent / 100 in whole cents, a half going to the even cent.
HalfEven(n, d) == LET q == n \div d  r == n % d IN IF 2 * r > d \/ (2 * r = d /\ q % 2 = 1) THEN q + 1 ELSE q
DefaultCredit(amount) ==
  CASE policy.model = "team_wide" -> 0
    [] policy.model = "family_credit" -> amount
    [] OTHER -> HalfEven(amount * policy.percent, 100)
\* A blank credit is the policy's share when the gift names a family.
CreditFor(blank, g) == IF ~blank THEN g.credit ELSE IF g.member = None THEN 0 ELSE DefaultCredit(g.amount)

CreditRow(g) == {r \in credits : r.id = g.creditRow}

\* Mutant: the credit the gift already gives is available whatever charge it is on.
OwnCredit_AnyCharge(g) == {r \in CreditRow(g) : r.status = "applied"}

\* What the gift itself already takes off the charge chosen.
OwnCredit(g) == {r \in CreditRow(g) : r.charge = g.charge /\ r.status = "applied"}

\* FundraisingContributionForm.clean and FundraisingContribution.clean.
GiftClean(g) ==
  /\ g.credit <= g.amount /\ IncomeCategory(g.cat)
  /\ policy.model = "team_wide" => g.credit = 0
  /\ (g.charge = None) = (g.credit = 0)
  /\ \A c \in charges : c.id = g.charge =>
       /\ c.member = g.member
       /\ policy.types = {} \/ c.type \in policy.types
       /\ g.credit <= Balance(c) + Total(OwnCredit(g))
  /\ g.charge # None => \E c \in charges : c.id = g.charge

GiftPosting(g) == Posting("income", g.cat, CurrentSeason, g.amount, <<"gift", g.id>>)

\* _sync_fundraising_contribution, the family's side: credit the charge, or cancel the credit given before.
GiftCredit(g) ==
  IF g.credit > 0
  THEN \E id \in IF g.creditRow # None THEN {g.creditRow} ELSE {i \in LedgerIds : \A r \in credits : r.id # i} :
         /\ credits' = ById(credits, [id |-> id, charge |-> g.charge, amount |-> g.credit, status |-> "applied"])
         /\ gifts' = ById(gifts, [g EXCEPT !.link = RowOf(g.link), !.creditRow = id])
  ELSE /\ credits' = (credits \ CreditRow(g)) \cup {[r EXCEPT !.status = "cancelled"] : r \in CreditRow(g)}
       /\ gifts' = ById(gifts, [g EXCEPT !.link = RowOf(g.link)])

\* A contribution with its ledger row and its credit, one transaction.
GiftSync(g) ==
  /\ GiftClean(g)
  /\ PostFor(g.link, GiftPosting(g))
  /\ GiftCredit(g)
  /\ UNCHANGED <<policy, campaigns, duesVars, charges, services, awards, claims, payments, categories, allocations, budgetLines>>

\* A closed campaign takes no new contribution.
FundraisingContributionAdd(g) ==
  /\ NewIn(gifts, g) /\ g.campaign \in DOMAIN campaigns /\ campaigns[g.campaign] # "closed"
  /\ GiftSync([g EXCEPT !.link = None, !.creditRow = None])

GiftEditable(g) == g.status = "posted"

\* Only the form's fields come from `new`.
FundraisingContributionEdit(g, new) ==
  /\ GiftEditable(g)
  /\ GiftSync([new EXCEPT !.id = g.id, !.campaign = g.campaign, !.status = g.status, !.link = g.link, !.creditRow = g.creditRow])

\* Mutant: the void forgets the family's credit.
GiftVoidCredit_Kept(g) == UNCHANGED credits

GiftVoidCredit(g) == credits' = (credits \ CreditRow(g)) \cup {[r EXCEPT !.status = "cancelled"] : r \in CreditRow(g)}

FundraisingContributionVoid(g) ==
  /\ g.status = "posted"
  /\ gifts' = ById(gifts, [g EXCEPT !.status = "void"])
  /\ tx' = VoidRow(g.link)
  /\ GiftVoidCredit(g)
  /\ UNCHANGED <<policy, campaigns, duesVars, charges, services, awards, claims, payments, categories, allocations, budgetLines>>

(*-------------------------------- reports --------------------------------*)
PostedGifts(rows)  == {g \in rows : g.status = "posted"}
GiftsOf(k)         == PostedGifts({g \in gifts : g.campaign = k})
Credited(rows)     == SumFunction([g \in rows |-> g.credit])
CampaignRow(k)     == [raised |-> Total(GiftsOf(k)), family |-> Credited(GiftsOf(k)), retained |-> Total(GiftsOf(k)) - Credited(GiftsOf(k))]
GoalPercent(k, goal) == IF goal = 0 THEN 0 ELSE Min({(CampaignRow(k).raised * 100) \div goal, 100})
FamilyRaised(m)    == LET own == PostedGifts({g \in gifts : g.member = m})
                      IN [raised |-> Total(own), credit |-> Credited(own), team |-> Total(own) - Credited(own)]

(*------------------------------ properties -------------------------------*)
FundraisingTypeOK ==
  /\ FamilyTypeOK
  /\ policy \in Policy /\ campaigns \in Seq(CampaignStatuses) /\ gifts \subseteq Gift

\* fundraising_contribution_void says ledger income and family credit are corrected together: a
\* contribution and its ledger row agree in amount and status, and it is posted income.
GiftsMatchTheLedger ==
  \A g \in gifts : g.link # None /\ tx[g.link].kind = "income" /\ tx[g.link].amount = g.amount /\ tx[g.link].status = g.status

\* Unless somebody edits the credit by hand, a void contribution credits no one.
VoidGiftsCreditNoOne ==
  [][\A g \in gifts : \A h \in gifts' :
       g.id = h.id /\ g.status = "posted" /\ h.status = "void" =>
         \A r \in credits' : r.id = h.creditRow => r.status = "cancelled"]_fundraisingVars

\* A charge that was not taken below zero by hand is not taken there by a
\* contribution, new or edited, moved between charges or resynchronised.
GiftsNeverOverCredit ==
  [][gifts' # gifts => \A c \in charges : RawBalance(c) >= 0 => RawBalance(c)' >= 0]_fundraisingVars

(*------------------------------- behaviour -------------------------------*)
CampaignStep == \E k \in LedgerIds, status \in CampaignStatuses : FundraisingCampaignSave(k, status)
Forms == {[id |-> id, campaign |-> k, amount |-> amount, member |-> m, credit |-> credit, charge |-> c, cat |-> cat,
           status |-> "posted", link |-> None, creditRow |-> None] :
             id \in LedgerIds, k \in DOMAIN campaigns, amount \in Amounts, m \in Memberships \cup {None},
             credit \in 0..MaxAmount, c \in {c.id : c \in charges} \cup {None}, cat \in Categories}
Filled(g, blank) == [g EXCEPT !.credit = CreditFor(blank, g)]
GiftStep(forms) ==
  \/ \E form \in forms, blank \in BOOLEAN :
       \/ FundraisingContributionAdd(Filled(form, blank))
       \/ \E g \in gifts : FundraisingContributionEdit(g, Filled(form, blank))
  \/ \E g \in gifts : FundraisingContributionVoid(g)
=============================================================================
