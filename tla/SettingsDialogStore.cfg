\* Two servers that may differ in the password alone, over every saved list.
SPECIFICATION Spec
CONSTANTS
  Addr = {"u@h1", "u@h2"}
  Password = {"p", "q"}
  ListString <- OwnText
  MaxServers = 2
  SavedLists <- AnySaved
PROPERTIES StoreRoundTrip CloseAsks
