\* Expected to be violated.
SPECIFICATION Spec
CONSTANTS
  r1 = r1
  r2 = r2
  r3 = r3
  r4 = r4
  home = home
  cafe = cafe
  Requests <- ThreeRequests
  Addresses <- OneAddress
  NoSid = NoSid
SYMMETRY Symmetry
INVARIANT LogoutRevokes
\* All requests ended is a legitimate end.
CHECK_DEADLOCK FALSE
