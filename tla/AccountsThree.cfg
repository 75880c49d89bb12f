\* Three changes of the password beside a login.
\* Requests may stop coming, so the system may stop.
CONSTANTS
  Requests = {q1, q2, q3, q4}
  Passwords = {p1, p2}
  NoPassword = NoPassword
  NoToken = NoToken
  MaxRows = 2
  MaxChanges = 3
SPECIFICATION Spec
CHECK_DEADLOCK FALSE
INVARIANT EveryOldTokenDies
SYMMETRY Interchangeable
