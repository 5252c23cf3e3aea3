\* Two tabs and two requests of each, so that one begins a refresh and the other joins it
\* or is answered 401 after it has ended; three sessions, so that a login and a refresh
\* follow each other while the other tab holds the first.
CONSTANTS
  Tabs = {t1, t2}
  Requests = {r1, r2}
  MaxTokens = 3
  None = None
SPECIFICATION FairSpec
PROPERTIES
  PresentedOnce
  LogoutHolds
  RequestsSettle
