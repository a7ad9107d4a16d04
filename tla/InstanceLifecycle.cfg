SPECIFICATION Spec
CONSTANTS
  Clients = {c1, c2}
  Readers = {r1}
  Workflows = {w1, w2}
  Kinds = {"readOnly", "destroy"}
  MayWarn = TRUE
  MaxResults <- MCMaxResults
  MaxCrashes = 1
SYMMETRY Symmetry
INVARIANTS
  TypeOK
  OneUnderWay
  UnderWayIsBusy
  NoOrphan
  BusyIsExplained
PROPERTIES
  OutcomeIsFinal
  FlowsKeepContract
CHECK_DEADLOCK FALSE
