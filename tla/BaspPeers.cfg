CONSTANTS
  a = a
  b = b
  Nodes <- MCNodes
  Actors <- MCActors
  Home <- MCHome
  Asks <- MCAsks
  Foreigner = "B"
  Listeners = {"l1", "l2"}
  Names = {b}
  AppIds <- MCAppIds
  Configs <- MCConfigs
  Nobody = Nobody
  MaxCalls = 3
  ForeignPackets <- MCForeignPackets
  MaxForeign = 3
SPECIFICATION Spec
INVARIANTS TypeOK RightAnswer
PROPERTIES NoFalseDown DeadProxiesGo AllAnswered
CHECK_DEADLOCK FALSE
