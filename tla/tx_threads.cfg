\* Two threads share one context and their calls interleave.
SPECIFICATION Spec
CONSTANTS
    Scopes = {s1, s2}
    TxId = {t1, t2, t3}
    NoTx = NoTx
    Disciplined = FALSE
    MayMismatch = FALSE
    StartMayFail = FALSE
    EndMayFail = FALSE
INVARIANTS
    InsideHasTransaction
