SPECIFICATION Spec
CONSTANTS
  m1 = m1
  m2 = m2
  b1 = b1
  w1 = w1
  w2 = w2
  t1 = t1
  t2 = t2
  Members = {m1}
  Boxes = {b1}
  Currencies = {"USD"}
  Tenant = Tenant
  Txns = {t1}
  Workers = {w1}
  Ops = {"approve", "reject", "pay", "deliver", "reverse", "edit", "set_limit", "deposit", "withdraw", "payment", "adjust"}
  Drafts <- OneDraft
  Quotes <- OneQuote
  Edits <- OneEdit
  Keep = Keep
  NoBox = NoBox
  BoxCurrencies <- MCBoxCurrencies
  SettleAmounts = {1}
  LimitValues = {2}
  Unit = 1
  RateScale = 2
  Claims = {1,2,3,4,5,6,7,8,9}
  Margins = {1,2,3}
  Moves <- SerialMoves
  MaxEntries = 5
INVARIANTS BalancesExplained ReportsAgree
PROPERTY ImplementsOfficeBooks
CHECK_DEADLOCK FALSE
