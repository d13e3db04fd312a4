\* Two visits to the settings, each process crash and restart between them.
SPECIFICATION Spec
CONSTANTS
  Addr = {"u@h1"}
  Password = {"p", "q"}
  ListString <- OwnText
  MaxServers = 1
  SavedLists <- AnySaved
  MaxOpens = 2
INVARIANTS WindowServesStored StoredWhenIdle
