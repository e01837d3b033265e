SPECIFICATION ProcessSpec
CONSTANTS
  a = a
  b = b
  c = c
  ping = ping
  extra = extra
  NotGiven = NotGiven
  NotCached = NotCached
  Word = {a, b, c, ping, extra}
  Plan <- MCPlan
  Builtin <- MCBuiltin
  Plugin <- MCPlugin
  MaxMounts = 3
  MaxAttempts = 2
  SettingsClass = {"shlink", "zammad"}
  Host <- MCHost
  Port = {0, 8000, 9000}
  Transport = {"streamable-http", "stdio", "sse", ""}
  Fragment = {"pat", "pin"}
  Environ <- MCEnviron
  Command <- MCCommand
INVARIANTS
  ServingIsWhole
  OrphansHaveACause
  NamesakesNeedNestedPrefixes
  ListensAsTold
PROPERTIES
  RedactionNeverShrinks
CHECK_DEADLOCK FALSE
