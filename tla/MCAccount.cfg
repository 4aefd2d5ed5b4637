CONSTANTS
  None = None
  Account = {ann, bob}
  Registered = {bob}
  Roleless = {bob}
  Requests = 2
  Handler = {h1, h2}
  Service = {s1, s2}
  Notice = {n1}
  Call = {c1, c2}
  Depth = 2
SPECIFICATION Spec
INVARIANTS
  SessionTypeOK
  TokenAgrees
  ScreensSignedIn
  LoadingHasCall
  KycTypeOK
  FlagIsRole
  OneKycCall
  DecisionIsReal
  FavouritesTypeOK
  ListAgrees
  NoticesTypeOK
  ShownReadIsRead
PROPERTIES
  OnlyLateAnswersMix
  GoneIsDeleted
  SpinnersEnd
