SPECIFICATION ExchangeSpec
CONSTANTS
  Absent = Absent
  Garbage = Garbage
  Unreadable = Unreadable
  MaxI64 = 68256005
  MaxU64 = 16
  KbSkew = 2
  PidTypes = {"urn:pid"}
  NamedTypes = {"urn:pid"}
  Certs <- MCCerts
  Calls = {}
  MaxPathLen = 1
  MaxNodeVisits = 1
  Jobs = {}
  SchemaVersion = 1
  Offers <- MCOffers
  Backends <- MCBackends
  Templates <- MCTemplates
  Requests <- MCRequests
  Selections <- MCSelections
  Keys = {"holder", "other"}
  HolderKey = "holder"
  Times <- MCTimes
  PresentedAt = 68256000
  HostAnchors <- MCHostAnchors
  StatusAnswers <- MCStatusAnswers
  MaxAttempts = 3
  MaxMade = 2
INVARIANTS
  AcceptedWasMadeForIt
  HonestIsAccepted
  OnlySelectedIsShown
  SatisfiedMeetsQuery
PROPERTIES
  ObtainEnds
CHECK_DEADLOCK FALSE
