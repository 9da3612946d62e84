SPECIFICATION MCSpec
CONSTANTS
  a1 = a1
  a2 = a2
  u1 = u1
  l1 = l1
  l2 = l2
  k1 = k1
  k2 = k2
  p1 = p1
  None = None
  Nobody = Nobody
  NoUser = NoUser
  NoLink = NoLink
  NoPassword = NoPassword
  NoAccount = NoAccount
  Empty = Empty
  NoClient = NoClient
  NoProc = NoProc
  NoKey = NoKey
  Rotated = Rotated
PROPERTIES
    RequestsEnd
    ChangesReturn
    CloseReturns
    ServersComeUp
    
    ApprovalReachesDevice
CHECK_DEADLOCK FALSE
