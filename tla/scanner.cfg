CONSTANTS
  r1 = r1
  r2 = r2
  n1 = n1
  n2 = n2
  s1 = s1
  s2 = s2
  Branch = {"main", "develop"}
  Repo = {r1, r2}
  Name = {n1, n2}
  Scan = {s1, s2}
  MaxVersion = 3
  Written <- Versions
  Old <- Before
  Given <- Items
SPECIFICATION FairSpec
INVARIANTS MappingsCurrent DeployedAsMeant
PROPERTIES BackOnlyByOverlap ScansEnd
CHECK_DEADLOCK FALSE
