CONSTANTS
  ConnectTimeout = 4
  ReconnectDelay = 2
  InitialTimeout = 8
  JoinLimit = 1
  LeaseLimit = 1
  MaxFaults = 2
  Installed = {"bme280", "scd30", "sds011"}
  MaxCycle = 1
SPECIFICATION FairSpec
INVARIANTS
  TypeOK
  CompleteSample
  AtMostOnce
  BootInTime
PROPERTIES
  OnlyResetRecovers
  RecoversFromStranded
  Delivers
