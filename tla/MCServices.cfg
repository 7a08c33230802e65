SPECIFICATION Spec
CONSTANTS
  Calls = {a1, a2, a3}
  Editors = {a1, a2, a3}
  Clients = {a1, a2, a3}
  Scenarios = {s1, s2}
  Origin = {o1, o2}
  MaxRows = 3
  Unedited = Unedited
  New = New
  NoScenario = NoScenario
  TableTypes <- MCTableTypes
  MAX_FOLDER_COUNT = 2
  MaxVersion = 2
  Home = Home
  Runs = {r1, r2}
  CRUD_NUM_RETRIES = 2
  MaxPoints = 2
  Answers <- MCAnswers
  e1 = e1  e2 = e2  e3 = e3
  Streets <- MCStreets
  NodeAt <- MCNodeAt
  MaxNode = 4
  Drawing = Drawing
  ShardOf <- MCShardOf
  HexOf <- MCHexOf
  AtBorder <- MCAtBorder
  Subdivided <- MCSubdivided
  Null = Null
  Unit = 12
  Matrix <- MCMatrix
  Centre <- MCCentre
  Impedance <- MCImpedance
  Places = {0, 1, 2, 3, 4, 5, 6, 7, 8}
  StepWidth = 50
  ModeOf <- MCModeOf
  PTModes <- MCPTModes
  Missing = Missing
  Nobody = Nobody
  NotGiven = NotGiven
  MaxFeatureCnt <- MCMaxFeatureCnt
  MaxFeaturePolygonArea <- MCMaxArea
  NetworkPart = 3
  MaxStartingPoints <- MCMaxStartingPoints
  MaxTravelTimeTransportMode <- MCMaxTraveltime
  NotSet = NotSet
  Users = {"u", "v"}
  LayerIds = {"roads", "stops"}
  FileNames = {"n", "m"}
  MaxNew = 2
INVARIANTS
  ServicesTypeOK
  ScenarioShowsItsEdits OrphansAreExplained
  WorkspaceKeepsTables FolderLimit OnePublicCopy
  FinishedCatchmentIsWhole OnlyAccidentsFail
  IsolinesEncloseWhatIsReached
  ModifiedNetworkIsDrawn CutEdgeFollows
  ToolResultsAreExact HeatmapIsExact
  DeparturesAreCounted BetterServiceWins
  ListsAreExact FiguresAreExact
  AdmittedRequestsAreServed
  LoneRequestsAreServed ExportHoldsItsLayer
  FoldersLastAsNeeded
SYMMETRY Actors
CHECK_DEADLOCK FALSE
