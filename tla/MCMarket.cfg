SPECIFICATION Spec
CONSTANTS
    ann = ann
    bob = bob
    f1 = f1
    f2 = f2
    None = None
    Wallets <- MCWallets
    Players = {ann, bob}
    Expirer = ticker
    Flushers = {f1, f2}
    Prices = {1, 2}
    Quantities = {1, 2}
    Stock = 2
    Cash = 4
    TaxPct = 50
    MaxOrders = 2
    BrokeBuys = FALSE
    Budgets <- MCBudgets
INVARIANTS Conserved  BookOrder StoreMatches
PROPERTIES RestartKeeps ImplementsPlayerFlush
SYMMETRY PlayerSymmetry
CHECK_DEADLOCK FALSE
