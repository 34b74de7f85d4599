SPECIFICATION MapSpec
CONSTANTS
  n1 = n1
  n2 = n2
  Names = {n1, n2}
  NoPosition = NoPosition
  Routes <- ShortRoutes
  Waypoints <- BothWays
INVARIANTS LayersOwned LinesStayShort PathsAreWhole
SYMMETRY Symmetry
