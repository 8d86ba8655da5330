SPECIFICATION Spec
CONSTANTS
  m1 = m1
  m2 = m2
  b1 = b1
  w1 = w1
  w2 = w2
  t1 = t1
  t2 = t2
  Members = {m1}
  Boxes = {b1}
  Currencies = {"USD"}
  Tenant = Tenant
  Txns = {t1}
  Workers = {w1, w2}
  Ops = {"approve", "pay", "set_limit"}
  Drafts <- OneDraft
  Quotes <- OneQuote
  Edits <- OneEdit
  Keep = Keep
  NoBox = NoBox
  BoxCurrencies <- MCBoxCurrencies
  SettleAmounts = {1}
  LimitValues = {9}
  Unit = 1
  RateScale = 1
  Claims = {}
  Margins = {}
  Moves = {}
  MaxEntries = 4
INVARIANT PaidOnce
CHECK_DEADLOCK FALSE
