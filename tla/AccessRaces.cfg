SPECIFICATION Spec
CONSTANTS
  Users = {u1, u2}
  Codes = {c1}
  Requests = {r1, r2}
  Messages = {m1, m2}
  Reviews = {o1, o2}
  AuthModels = {"approval_queue", "team"}
  None = None
SYMMETRY Symmetry
INVARIANTS
  GrantsAreEarned
PROPERTIES
  RevocationHolds
  DecisionsAreFinal
