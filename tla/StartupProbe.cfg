\* The loop over the thresholds, with probes of any outcome.
SPECIFICATION Spec
CONSTANTS
  NoConf = NoConf
  Confs <- MCConfs
  IntBits <- MCIntBits
  Window <- MCWindow
INVARIANTS
  TypeOK
  ThresholdExact
PROPERTIES
  LoopEnds
CHECK_DEADLOCK FALSE
