CONSTANTS
  MaxCalls = 2
  WindowMs = 3
  MaxTime = 8
  MaxHistory = 6
SPECIFICATION HostSpec
INVARIANTS WellTyped WindowExact CountsAgree CacheIsExact AudioInItsPlace PluginsInOrder EditsConsistent
CHECK_DEADLOCK FALSE
