SPECIFICATION ChainSpec
CONSTANTS
  Absent = Absent
  Garbage = Garbage
  Unreadable = Unreadable
  MaxI64 = 68256005
  MaxU64 = 16
  Certs <- MCCerts
  Calls <- MCCalls
  MaxPathLen = 2
  MaxNodeVisits = 9
INVARIANTS
  SomeValidPathIsAccepted
CHECK_DEADLOCK FALSE
