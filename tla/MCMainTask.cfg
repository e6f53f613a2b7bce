CONSTANTS
  Watchdog = 60
  WifiLimit = 20
  CheckInterval = 7
  Interval = 3
  MaxRetries = 5
  RetryDelay = 5
  InitLimit = 2
  CheckLimit = 50
  SampleLimit = 30
  ConnectLimit = 5
  HandshakeLimit = 20
  MqttLimit = 3
  CheckResults = {"Ok", "Other"}
  MaxFaults = 5
SPECIFICATION FairSpec
INVARIANTS
  TypeOK
  WatchdogOnlyOnHang
PROPERTIES
  MeasurementNears
  MeasuresAgain
  ChecksAgain
