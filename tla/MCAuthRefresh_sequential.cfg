\* One handler, four requests served one at a time: the regime of
\* TestLoginRefreshLogout.  The client stops after four requests.
CONSTANTS
  h1 = h1
  h2 = h2
  Calls <- MCOneHandler
  MaxRequests = 4
  NoToken = NoToken
SPECIFICATION Spec
INVARIANT TypeOK
INVARIANT SingleUse
CHECK_DEADLOCK FALSE
