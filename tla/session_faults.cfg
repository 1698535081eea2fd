SPECIFICATION Spec
CONSTANTS
  Users = {u1}
  Passwords = {p1, p2}
  Clients = {c1, c2}
  None = None
  Faults = {"lose", "late", "repeat", "kill"}
  MaxStray = 2
SYMMETRY SessionSymmetry
INVARIANTS TypeOK SessionsAgree PasswordsAgree
