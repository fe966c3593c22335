SPECIFICATION IdentitiesSpec
CONSTANTS
  Persons = {p1, p2}
  Subjects = {s1}
  Addresses = {a1, a2}
  NoPerson = noperson
  NoAddress = noaddress
  MaxCodes = 2
SYMMETRY Symmetry
INVARIANTS
  VerifiedWasProven
  LinkedByProof
  IdentityKeepsItsPerson
  WayInRemains
