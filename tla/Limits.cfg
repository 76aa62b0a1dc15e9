SPECIFICATION Spec
CONSTANTS
  Conn = {c1, c2}
  MaxFd = 5
  ItemsMax = 4
  FdMod = 256
  MaxConn = 2
  MaxAddrs = 2
  ConnectOutcomes = {"inprogress", "immediate", "error"}
  Leftover = {TRUE, FALSE}
SYMMETRY Symmetry
INVARIANTS
  AttachmentsLive
  HandlerExists
  ResolverOwnsConn
