SPECIFICATION MoneySpec
CONSTANTS
  Parts = {"ledger", "dues", "relief", "assistance", "payments", "gifts", "show_budgets", "season_budgets", "fees", "reimbursements", "payables", "billing"}
  Seasons = {1, 2}
  Shows = {1, 2}
  SeasonOf <- MCSeasonOf
  Hosted = {1}
  Categories = {1, 2}
  Amounts = {1, 2}
  MaxAmount = 2
  LedgerIds = {1, 2}
  MaxTx = 2
  Memberships = {1, 2}
  CurrentSeason = 1
  Barns = {1, 2}
  Billed <- MCBilled
  Percents = {25, 50}
  HybridPercent = 50
  FeePolicy <- MCFeePolicy
  Riding <- MCRiding
  Logins = {"treasurer", "parent", "rider"}
  LoginOf <- MCLoginOf
  MaxReviews = 1
  Rules = {1, 2}
  Months = {1}
  Riders = {1}
  Shifts = {1}
  MaxRuns = 3
 
PROPERTIES MoneySteps ClaimsStayWithinTheAward GiftsNeverOverCredit
CHECK_DEADLOCK FALSE
