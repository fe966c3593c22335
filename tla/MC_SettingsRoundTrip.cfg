SPECIFICATION Spec
CONSTANTS
  named = minLength
  v1 = v1
  Keys = {clientSecret, facetUri, minLength, vaultKey}
  Sensitive = {clientSecret}
  Vault = {vaultKey}
  Marked = {clientSecret}
  BootKeys = {clientSecret, facetUri}
  Flags = {}
  Manifest <- ManifestFile
  Values = {blank, v1}
  Empty = blank
  Null = null
  Loop = loop
  Threads = {t1, t2}
  MaxItems = 2
  MaxWizards = 1
SYMMETRY Symmetry
PROPERTY
  RoundTripKeepsSecrets
