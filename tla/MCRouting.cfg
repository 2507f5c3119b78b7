CONSTANTS
  Routes <- MCRoutes
  Paths <- MCPaths
  Methods <- MCMethods
  Number <- MCNumber
  Reserved <- MCReserved
  MaxRoutes = 3
SPECIFICATION Spec
INVARIANTS AllowHonest PageFresh
PROPERTIES NeverStolen
