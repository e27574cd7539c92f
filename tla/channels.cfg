SPECIFICATION Spec
CONSTANTS
  Emails = {e1, e2}
  Chats = {c1, c2}
  Usernames = {u1}
  UsernameOf <- MCUsernameOf
  c1 = c1
  c2 = c2
  u1 = u1
  Requests = {h1, h2}
  Pollers = {p1, p2}
  MaxEvents = 3
SYMMETRY Symmetry
INVARIANTS TypeOK BoundByLatestLink NoStartLost
PROPERTY UnprovenExplained
CHECK_DEADLOCK FALSE
