\* Two concurrent handlers, three requests: a Login, then two refreshes
\* that may present the same token.
CONSTANTS
  h1 = h1
  h2 = h2
  Calls <- MCTwoHandlers
  MaxRequests = 3
  NoToken = NoToken
SPECIFICATION Spec
INVARIANT SingleUse
CHECK_DEADLOCK FALSE
