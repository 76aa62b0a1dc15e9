SPECIFICATION FairSpec
CONSTANTS
  Admin = {1, 2, 3}
  Null = Null
  Garbage = Garbage
  AdminUser <- MCAdminUser
  InitialUsers <- MCInitialUsers
  InitialSize = 4
  MaxUsers = 2
  MaxCredentialsLen = 1
  MinBufferSize = 4
  MaxBuffSize = 5
  SizeMod = 64
  Visits <- MCVisits
CHECK_DEADLOCK FALSE
INVARIANTS
  TypeOK
  ListExact
PROPERTIES
  ServiceRefined
  Answered
