SPECIFICATION FairSpec
CONSTANTS
  home = home
  cdn = cdn
  lan = lan
  b1 = b1
  b2 = b2
  NoBytes = NoBytes
  Origins = {home, cdn, lan}
  Home = home
  Unsafe = {lan}
  Archives <- MCArchives
  Evidence <- MCEvidence
  MaxHops = 2
  MaxTarballBytes = 4
  MaxExtractedBytes = 4
  MaxFiles = 3
  MaxFileBytes = 2
INVARIANTS CredentialStaysHome DiskBounded TrustJustified
PROPERTIES QuarantineRemoved QuarantineEnds
\* A package whose analysis has ended stays as it is.
CHECK_DEADLOCK FALSE
