SPECIFICATION Spec
CONSTANTS
  Passwords = {p1, p2}
  Links = {l1, l2}
  Requests = {r1, r2}
  NoPassword = nopassword
  NoLink = nolink
  MaxHashes = 3
SYMMETRY Symmetry
INVARIANTS
  PasswordVouchedFor
  DeactivatedSignsInNowhere
PROPERTIES
  ImplementsAccountPassword
  VouchedOrOvertaken
