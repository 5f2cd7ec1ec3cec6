SPECIFICATION Spec
CONSTANTS
  None = None
  alice = alice
  bob = bob
  c1 = c1
  Subjects <- MCSubjects
  Credentials <- MCCredentials
  Times <- MCTimes
  DocKinds = {"unsigned", "not_pdf", "signed", "hidden_signature", "no_pages", "off_page", "unloadable"}
  PersistEffects = TRUE
  MaxFresh = 6
  MaxRestarts = 1
INVARIANTS
  TypeOK
  CarriedFields
  NoMissingField
  SignsWhatWasApproved
  DoneIsSigned
  DoneIsTimestamped
  DoneEvidence
  TokenIsReadBack
PROPERTIES
  FlowMovesForward
  ImplementsFlow
SYMMETRY Symmetry
