\* A server is added to a list that was saved before.
SPECIFICATION Spec
CONSTANTS
  Addr = {"u@h1", "u@h2"}
  Password = {"p", "q"}
  ListString <- OwnText
  MaxServers = 2
  SavedLists <- AnySaved
PROPERTIES SaveKeepsStored
