SPECIFICATION Spec
CONSTANTS
  MaxHAMembers = 2
  MaxAssociations = 2
  MaxPaths = 2
  MaxNeighbors = 2
  MaxEvents = 2
  OutputLimit = 10
  Greetings <- MCGreetings
  Answers <- MCAnswers
  Manifest <- MCManifest
  Requested <- MCRequested
  Collections <- MCCollections
  MaxTransportFailures = 2
  ProbeOutputs <- MCProbeOutputs
INVARIANTS
  WholeAnswer
  TrailTellsOutcome
  ClaimsAreObserved
CHECK_DEADLOCK FALSE
