CONSTANTS
  Manifests <- SomeManifests
  Recos <- SomeRecos
SPECIFICATION PatchSpec
INVARIANTS NothingReduced
CHECK_DEADLOCK FALSE
