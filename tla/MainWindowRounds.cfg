\* Lists of up to two servers, settings opened up to twice: three rounds.
SPECIFICATION FairSpec
CONSTANTS
  Server = {s1, s2}
  MaxServers = 2
  MaxOpens = 2
  Lists <- AnyList
INVARIANTS WindowInv ThreadsAreListed IdleServesList
PROPERTIES WindowReturns ImplementsRounds
\* The program ends when it is told to.
CHECK_DEADLOCK FALSE
