SPECIFICATION Spec
CONSTANTS
    usd = usd
    eur = eur
    e1 = e1
    e2 = e2
    s1 = s1
    s2 = s2
    Currencies = {usd, eur}
    Lines = {e1, e2}
    CurrencyOf <- TwoAccounts
    Net <- SumOfAmounts
    Sessions = {s1, s2}
    MaxRecords = 3
SYMMETRY SessionSymmetry
INVARIANTS
    CountedOnce
    LinesAccounted
    ClosingExplained
