\* The selection changes while a server is edited.
SPECIFICATION Spec
CONSTANTS
  Addr = {"u@h1", "u@h2"}
  Password = {"p", "q"}
  ListString <- OwnText
  MaxServers = 2
  SavedLists <- NoneSaved
PROPERTIES SaveHitsOpened
