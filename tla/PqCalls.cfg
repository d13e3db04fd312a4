\* Three attempts; three queries; three receivers on two channels; two connections.
SPECIFICATION CallsSpec
CONSTANTS
  Attempts = 3
  MaxChecks = 3
  MaxQueries = 3
  MaxRetain = 1
  Receiver = {"r1", "r2", "r3"}
  ChannelOf <- MCChannelOf
  MaxNotifs = 2
  MaxDepth = 2
  Liberties = {}
  Conn = {c1, c2}
  Handle = {p1, p2}
  Handler = {e1}
  Trans = {t1, t2}
  Null = Null
  MaxNames = 2
INVARIANTS
  CallsInv QueueIsSound ResultsAreOwn QueriesRunAsTold
  ReceiversAreCalled LoopsAreValid ListensForReceivers HandlesAreOwned MovesAreWhole
PROPERTIES
  ImplementsPromise EachPerformReturns LoopsReturn BreaksAreTold
\* The program may stop calling.
CHECK_DEADLOCK FALSE
