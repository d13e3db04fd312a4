\* Three servers of three addresses, two of which print the same.
SPECIFICATION Spec
CONSTANTS
  Addr = {"u@h1", "a@b@c", "a@(b@c)"}
  Password = {"p"}
  ListString <- SharedText
  MaxServers = 3
  SavedLists <- NoneSaved
INVARIANTS TypeOK ButtonsMatchForm RowsMatchServers
