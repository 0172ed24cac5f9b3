\* Scopes share a context: calls overlap only inside an enclosing block.  The
\* program may refuse to start or end a transaction, or lose it while it does,
\* and a scope may release without having acquired.
SPECIFICATION FairSpec
CONSTANTS
    Scopes = {s1, s2, s3, s4}
    TxId = {t1, t2}
    NoTx = NoTx
    Disciplined = TRUE
    MayMismatch = TRUE
    StartMayFail = TRUE
    EndMayFail = TRUE
INVARIANTS
    TypeOK
    InsideHasTransaction
    NoForgottenTransaction
PROPERTIES
    OutcomeFollowsFlag
    NoCommitOnceDropped
    ImplementsScope
    LastReleaseEnds
