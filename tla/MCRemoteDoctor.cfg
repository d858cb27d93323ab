\* Every host with up to two drifts under --fix, one without it; one fault.
SPECIFICATION Spec
CONSTANTS
  Drifts = 2
  Faults = 1
  Overlong = {"sudo", "accounts"}
  Configs <- MCConfigs
CHECK_DEADLOCK FALSE
INVARIANTS TypeOK RefreshedPassHolds 
PROPERTIES TrustedRepairs
