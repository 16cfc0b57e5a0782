CONSTANTS
  Manifests <- SomeManifests
  Recos <- SomeRecos
SPECIFICATION PatchSpec
INVARIANTS SingleNeverReduced OnlyHPAsTouched PatchSettles
CHECK_DEADLOCK FALSE
