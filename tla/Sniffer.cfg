SPECIFICATION Spec
CONSTANTS
  CredentialsSize = 4
  Pop3Buff = 12
  Symbol <- MCSymbol
  Logins <- MCLogins
  Texts <- MCTexts
  MaxTries = 4
  Pipelined = FALSE
  UserAnswers = {TRUE}
INVARIANTS
  TypeOK
  IndexWithinWord
  LoggedWereAccepted
  LoggedIffLookedAt
  NeverMissesTwo
