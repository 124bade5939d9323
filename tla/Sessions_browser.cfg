\* Three requests of a browser from two addresses, in any order.
SPECIFICATION Spec
CONSTANTS
  r1 = r1
  r2 = r2
  r3 = r3
  r4 = r4
  home = home
  cafe = cafe
  Requests <- ThreeRequests
  Addresses <- TwoAddresses
  NoSid = NoSid
SYMMETRY Symmetry
INVARIANTS TypeOK EndedIsGone ForkOnlyTogether RenewedAtHome CalmLogoutRevokes
\* All requests ended is a legitimate end.
CHECK_DEADLOCK FALSE
