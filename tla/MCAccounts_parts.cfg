\* Sign-in, codes, identities and the deletion of accounts, two requests at a time.
\* The parts may stop: every id, password and token used.
SPECIFICATION PartsSpec
CONSTANTS
  s1 = s1
  s2 = s2
  r1 = r1
  r2 = r2
  m1 = m1
  x1 = x1
  x2 = x2
  Session <- TwoSessions
  Request <- TwoRequests
  NoSession = NoSession
  LegacyIat = {1, 2}
  StartTime = 2
  MaxTime = 3
  RefreshTtl = 1
  MaxPassword = 2
  MaxToken = 3
  Purpose = {"verify_email", "reset_password"}
  CodeCoolDown = 1
  CodeTtl = 1
  CodeWindow = 1
  MaxCodesPerHour = 2
  MaxGuesses = 1
  MaxCodes = 3
  MaxCodeTime = 1
  Email <- OneEmail
  Provider = {"google", "apple"}
  Subject <- TwoSubjects
  MaxUsers = 2
  MaxHashes = 3
  Nobody = NoSession
  OwnSubject <- OneSubject
  ReauthTtl = 1
  ReauthWindow = 1
  MaxReauthsPerHour = 2
  MaxAttempts = 1
  MaxReauths = 2
  MaxGrants = 1
  MaxOwnHashes = 2
  MaxLost = 1
  MaxReauthTime = 1
  Nothing = NoSession
SYMMETRY Symmetric
CHECK_DEADLOCK FALSE
INVARIANTS
  TypesOK
  RefreshedOnce
  NothingOutlivesReset
  IssueLimit
  AlwaysSignIn
  ChallengeOrGrant
  GuessesLimited
PROPERTIES
  AnsweredTokenWorks
  LinkedWithProof
  DeletedWithCurrentProof
