SPECIFICATION Spec
CONSTANTS
  Uent = {1, 2}
  MaxPosition = 7
  Base = 2
  Guid = {1, 2}
  IDEV = {1}
  CommandLines <- AllLines
  InitialConfig <- Contents
  MaxUnplug = 1
INVARIANTS TypeOK WithinConfigSpace SingleEntityExact ReadBack ExitStatus
  RequestMatchesCommandLine ClusterBindsIDEV NoRequestAfterFailure
