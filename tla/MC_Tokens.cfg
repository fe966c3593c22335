SPECIFICATION Spec
CONSTANTS
  Persons = {ann, bob}
  System = system
  Services = {chorus}
  Personas = {iris}
  MailPersona = iris
  NoOne = noone
  Scopes = {write}
  AccessTTL = 1
  RefreshTTL = 2
  LinkTTL = 1
  MaxDelegation = 2
  MaxTokens = 2
  Requests = {r1}
  MaxRows = 1
  ServerTTL = 1
SYMMETRY Symmetry
INVARIANTS
  EverySessionEnds
  DemotionLag
  DeactivationLag
  ServerTokensLapse
PROPERTY
  ManagementLapses
