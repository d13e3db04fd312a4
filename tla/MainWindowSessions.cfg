\* One server; the settings are opened once.
SPECIFICATION Spec
CONSTANTS
  Server = {s1}
  MaxServers = 1
  MaxOpens = 1
  Lists <- AnyList
INVARIANT SessionsAreListed
CHECK_DEADLOCK FALSE
