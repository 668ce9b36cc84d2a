SPECIFICATION Spec
CONSTANTS
  a = a
  b = b
  c = c
  Positions = {a, b, c}
  NoPosition = none
  Roadmaps <- MCRoadmaps
  Workers = {w}
  Deciders = {d}
  Overlap = FALSE
  MaxRevision = 4
INVARIANTS
  TypeOK
  RoadmapIsConsistent
  HistoryIsNeverAhead
PROPERTIES
  CompletedWorkIsKept
  ToldIsCurrentIfPlanned
