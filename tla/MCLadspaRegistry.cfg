SPECIFICATION Spec
CONSTANTS
  File <- MCFile
  Name <- MCName
  Libraries <- MCLibraries
  Documents <- MCDocuments
  Unloadable = Unloadable
  Absent = Absent
  Malformed = Malformed
  MessageLength = 1
INVARIANTS
  TypeOK
  OneToOne
  DecidedByContents
  RightTypes
CHECK_DEADLOCK FALSE
