SPECIFICATION Spec
CONSTANTS
  NumTokens = 3
  LastVersion = 1
  Password = {p, q}
  Request = {r1}
  Socket = {k1}
  NoPassword = NoPassword
SYMMETRY MCSymmetry
INVARIANTS TypeOK LiveTokensAreCurrent ReplayEndsFamily SocketsAreCurrent
PROPERTIES PasswordIsCurrent ImplementsFamilies
