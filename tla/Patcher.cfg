SPECIFICATION Spec
CONSTANTS
  a = a
  ab = ab
  b = b
  Texts <- ThreeTexts
  Beginnings <- TextsBegin
  Releases <- ShortReleases
  Patches <- SmallPatches
INVARIANTS
  SourceKept
  Regenerates
  PatchCarried
CHECK_DEADLOCK FALSE
