SPECIFICATION Spec
CONSTANTS
  MaxLines = 5
  EntrySize = 4
  SizeMod = 64
  Settings <- MCSettings
  Processes = {1, 2}
  Names = {"a", "b", "c"}
  MaxInodes = 5
INVARIANTS
  TypeOK
  LookupExact
  FilesApart
  NothingLeft
CHECK_DEADLOCK FALSE
