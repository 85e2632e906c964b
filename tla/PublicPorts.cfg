CONSTANTS
  Ports = {1, 2}
  Requests = {q1}
  Keeper = Keeper
  Watchdog = Watchdog
  Streams = {f1}
  MaxTroubles = 2
  SettingsFiles <- AllOn
  None = None
SPECIFICATION FairSpec
INVARIANTS
  ListenersHaveAClient
  EveryServerIsKnown
  StreamsObeyTheSwitch
  StoppedLeavesNothing
PROPERTIES
  PortsSettle
CHECK_DEADLOCK FALSE
