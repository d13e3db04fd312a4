\* A stream fails, and the transaction is aborted.
SPECIFICATION Spec
CONSTANTS
  Tx = {t1, t2, t3}
  NoTx = NoTx
  MaxWrites = 1
  Disciplined = TRUE
SYMMETRY AnyOrder
INVARIANT NoBlockLeft
\* The program may have used up its objects.
CHECK_DEADLOCK FALSE
