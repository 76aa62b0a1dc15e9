SPECIFICATION Spec
CONSTANTS
  Conn = {c1}
  MaxFd = 4
  ItemsMax = 100
  FdMod = 256
  MaxConn = 1
  MaxAddrs = 2
  ConnectOutcomes = {"inprogress"}
  Leftover = {FALSE}
PROPERTY AllAddressesTried
