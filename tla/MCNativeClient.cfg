SPECIFICATION Spec
CONSTANTS
  NumTokens = 2
  LastVersion = 0
  Password = {p1}
  Request = {}
  NoPassword = NoPassword
  Call = {a1, a2, a3}
  NoCall = NoCall
  NoSession = NoSession
  Unread = Unread
  Reading = Reading
SYMMETRY MCSymmetry
INVARIANTS TypeOK NeverReplays SignedOutStaysOut LogoutEndsFamily
