SPECIFICATION Spec
CONSTANTS
  m1 = m1
  m2 = m2
  b1 = b1
  w1 = w1
  w2 = w2
  t1 = t1
  t2 = t2
  Members = {m1, m2}
  Boxes = {b1}
  Currencies = {"USD", "TRY"}
  Tenant = Tenant
  Txns = {t1, t2}
  Workers = {w1}
  Ops = {"approve", "reject", "pay", "deliver", "reverse", "edit", "set_limit"}
  Drafts <- SerialDrafts
  Quotes <- SerialQuotes
  Edits <- SerialEdits
  Keep = Keep
  NoBox = NoBox
  BoxCurrencies <- MCBoxCurrencies
  SettleAmounts = {1}
  LimitValues = {16}
  Unit = 2
  RateScale = 4
  Claims = {4,6,8,10,12,14}
  Margins = {2,4}
  Moves <- SerialMoves
  MaxEntries = 5
INVARIANTS LedgerFollowsStatus BalancesExplained ReportsAgree
PROPERTIES DeliveryIsFinal ImplementsOfficeBooks
SYMMETRY TxnSymmetry
CHECK_DEADLOCK FALSE
