SPECIFICATION VerifierSpec
CONSTANTS
  Absent = Absent
  Garbage = Garbage
  Unreadable = Unreadable
  MaxI64 = 68256005
  MaxU64 = 16
  KbSkew = 2
  PidTypes = {"urn:pid", "pid"}
  NamedTypes = {"urn:pid", "urn:eaa"}
  Certs <- MCCerts
  Calls = {}
  MaxPathLen = 2
  MaxNodeVisits = 9
  Jobs <- MCJobs
INVARIANTS
  VerifierTypeOK
  PathIsValid
  SearchIsExhaustive
  ReasonIsKept
  ShownIsSigned
  QualifiedIsEarned
  AnswersTheQuery
PROPERTIES
  DocumentMeetsBar
  DisclosuresAreSigned
  StatusIsKnown
