SPECIFICATION Spec
CONSTANTS
  d1 = d1
  d2 = d2
  fw = fw
  g = g
  h = h
  k = k
  m = m
  Sources = {d1, d2}
  Features = {fw, g, h, k, m}
  Children <- MCChildren
  Windowed = {fw}
  Window = 1
  Lookahead = 2
  Label = label
  Inputs <- MCInputs
  Requests <- MCRequests
INVARIANTS
  JoinCoversWhatIsCommon
  JoinedNodesFit
  DependsOnItsWindow
  LabelReachesItsHorizon
CHECK_DEADLOCK FALSE
