SPECIFICATION Spec
CONSTANTS
  i1 = i1
  i2 = i2
  i3 = i3
  Items = {i1, i2, i3}
  Existing = {i1, i2}
  Linked <- OneRelation
  NoGrant = NoGrant
  Grants <- TwoGrants
  Kinds <- OneKind
  MaxServices = 3
INVARIANTS TypeOK StaleIsMarked IdleMeansUpToDate TopLevelsComeFromGrants
PROPERTIES LoopsEnd
CHECK_DEADLOCK FALSE
