SPECIFICATION Spec
CONSTANTS
  Bytes = {0, 1}
  Contents <- MCContents
  Sizes = {1, 2, 3}
  Editions = 2
  Signers = {TRUE, FALSE}
  Forged <- MCForged
  Path = "blog"
  Unhex <- MCPlain
  None = None
INVARIANTS
  RoundTrip
  AssembledIsOriginal
  VerifiedAssembles
CHECK_DEADLOCK FALSE
