\* Four requests for the accounts of one name, three of which may
\* change the password; the account may be deleted, and made again once.
\* Requests may stop coming, so the system may stop.
CONSTANTS
  Requests = {q1, q2, q3, q4}
  Passwords = {p1, p2}
  NoPassword = NoPassword
  NoToken = NoToken
  MaxRows = 2
  MaxChanges = 3
SPECIFICATION Spec
CHECK_DEADLOCK FALSE
INVARIANTS TypeOK OldTokensDie LoginsAreCurrent
SYMMETRY Interchangeable
