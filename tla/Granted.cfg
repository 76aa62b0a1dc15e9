SPECIFICATION Spec
CONSTANTS
  Conn = {c1, c2, c3}
  MaxFd = 6
  ItemsMax = 100
  FdMod = 256
  MaxConn = 3
  MaxAddrs = 1
  ConnectOutcomes = {"inprogress"}
  Leftover = {FALSE}
SYMMETRY Symmetry
INVARIANT SuccessMeansConnected
