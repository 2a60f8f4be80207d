SPECIFICATION FairSpec
CONSTANTS
  sink = sink
  n1 = n1
  n2 = n2
  n3 = n3
  Node = {n1, n2, n3}
  Link <- Lasso
  Sink = sink
  Restamp = 1
  Window = 1
  Silence = 2
  MaxAge = 2
  MaxTopologies = 2
INVARIANTS TypeOK LastReportKept HandedOverAreTrees
PROPERTIES ThreadsSurvive OutdatedLeave
