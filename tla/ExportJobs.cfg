SPECIFICATION Spec
CONSTANTS
  Run = {1, 2}
  Wallet = {1}
  Transfer = {1, 2}
  Fingerprint = {"a", "b"}
  Reported <- ProviderAnswers
  Window <- Windows
  Export = {1, 2}
  May <- Callers
  Written = {5}
  MaxFaults = 1
CONSTRAINT Bounded
INVARIANTS
  EndedMeansWhole
  CandidatesExplained
  OverlapIsHarmless
  RunExportsReproducible
  JobsTellTheTruth
CHECK_DEADLOCK FALSE
