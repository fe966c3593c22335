SPECIFICATION Spec
CONSTANTS
  named = verification
  v1 = v1
  Keys = {clientSecret, verification, vaultKey}
  Sensitive = {clientSecret}
  Vault = {vaultKey}
  Marked = {clientSecret}
  BootKeys = {clientSecret, verification}
  Flags = {verification}
  Manifest <- ManifestFile
  Values = {blank, v1}
  Empty = blank
  Null = null
  Loop = loop
  Threads = {t1, t2}
  MaxItems = 2
  MaxWizards = 1
SYMMETRY Symmetry
INVARIANTS
  CacheMirrorsRows
  StaleIsTold
