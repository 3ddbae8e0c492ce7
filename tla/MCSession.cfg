\* Two people, one of them with a temporary password, and two sign-ins.
CONSTANTS
  User = {ann, bob}
  NewUser = {bob}
  Home = home
  Login = Login
  None = None
  Countdown = 2
  MaxVersion = 1
  MaxTokens = 2
  MaxFailures = 1
  MaxOpen = 1
SPECIFICATION FairSpec
INVARIANTS
  SessionsAreWhole
  WarningIsOfIdleSession
  DemandIsTheServers
PROPERTIES
  CapsConverge
  LoadingEnds
