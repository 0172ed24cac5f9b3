------------------------- MODULE MCTransactionContext -------------------------
(***************************************************************************)
(* TransactionContext on a few scopes.                                      *)
(***************************************************************************)
EXTENDS TransactionContext
=============================================================================
