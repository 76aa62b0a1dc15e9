SPECIFICATION FairSpec
CONSTANTS
  Conn = {c1, c2}
  MaxFd = 3
  ItemsMax = 100
  FdMod = 256
  MaxConn = 2
  MaxAddrs = 1
  ConnectOutcomes = {"inprogress"}
  Leftover = {FALSE}
INVARIANTS
  TypeOK
  CountsMatch
  OnlyAuthorised
  NoFdLeak
  NoAbort
  NoConnStuck
PROPERTIES
  ProtocolRefined
  ConnectEnds
