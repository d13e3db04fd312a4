\* Three objects that nest as documented.
SPECIFICATION Spec
CONSTANTS
  Tx = {t1, t2, t3}
  NoTx = NoTx
  MaxWrites = 2
  Disciplined = TRUE
SYMMETRY AnyOrder
INVARIANTS TypeOK SlotIsAlive OpenBlockIsOwned DurableWasCommitted AllOrNothing
\* The program may have used up its objects.
CHECK_DEADLOCK FALSE
