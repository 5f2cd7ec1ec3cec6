SPECIFICATION FairSpec
CONSTANTS
  None = None
  alice = alice
  bob = bob
  c1 = c1
  Subjects = {alice}
  Credentials <- MCCredentials
  Times = {1}
  DocKinds = {"unsigned"}
  PersistEffects = TRUE
  MaxFresh = 6
  MaxRestarts = 1
PROPERTIES
  ConsentIsSettled
