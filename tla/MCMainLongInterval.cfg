CONSTANTS
  Watchdog = 60
  WifiLimit = 20
  CheckInterval = 3
  Interval = 4
  MaxRetries = 5
  RetryDelay = 5
  InitLimit = 2
  CheckLimit = 50
  SampleLimit = 30
  ConnectLimit = 5
  HandshakeLimit = 20
  MqttLimit = 3
  CheckResults = {"Other"}
  MaxFaults = 0
SPECIFICATION FairSpec
PROPERTIES
  OnlySkipsCycle
