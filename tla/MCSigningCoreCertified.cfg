SPECIFICATION Spec
CONSTANTS
  None = None
  alice = alice
  bob = bob
  c1 = c1
  Subjects <- MCSubjects
  Credentials <- MCCredentials
  Times <- MCTimes
  DocKinds = {"unsigned"}
  PersistEffects = TRUE
  MaxFresh = 3
  MaxRestarts = 0
INVARIANTS
  ExpectedSignerCertified
