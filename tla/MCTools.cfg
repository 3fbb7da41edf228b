SPECIFICATION Spec
CONSTANTS
  LastLog = 3
  out_max = 3
  MaxChunks = 4
  MaxStarts = 3
  copy_limit = 4
  MaxSize = 3
  MaxChanges = 1
  W = 3
  MapLines <- MCLines
  Hosts = {"A", " "}
  Sources <- MCSources
  Ports = {1, 2}
  MaxLines <- MCMaxLines
  MaxPackets = 3
  DISPLAY_TTL = 2
  HNODE_MAX_MALLOC = 2
  CapLists = {{}, {"chown"}, {"net_admin", "dac_override"}}
  MaxMoves = 3
  Progs = {"a", "b"}
  Machines <- MCMachines
  ignorelist_maxlen = 2
  MaxFirecfg = 2
 
INVARIANT CookieInPlace
INVARIANT LogIsRecent
INVARIANT TraceConsistent
PROPERTY CopyFaithful
 
CHECK_DEADLOCK FALSE
