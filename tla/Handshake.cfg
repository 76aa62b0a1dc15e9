SPECIFICATION FairSpec
CONSTANTS
  Limit = 12
  Streams <- MCStreams
  Users <- MCUsers
  PartialReplies = {"GREETING_WRITE", "AUTH_WRITE"}
INVARIANTS
  TypeOK
  VerdictOfStream
  RepliesInOrder
PROPERTY Answered
