CONSTANTS
  Targets = {"jelly", "tower"}
  TargetNames <- TowerNames
  NodeTargets = {"tower"}
  Nodes = {"tower"}
  NoNode = ""
  AnyControl = "*"
  NodeOf <- TowerNodeOf
  ChainOf <- TowerChainOf
  UpTimeout <- TowerOne
  MinUptime <- TowerOne
  Downs = {"jelly", "tower"}
  StopWhen <- TowerStopWhen
  Grace <- TowerGrace
  ThenConsider <- TowerThenConsider
  Manages <- ManageJelly
  SignalNames <- TowerSignalNames
  HoldSignals = {}
  HoldOf <- TowerHoldOf
  Undeclared = {}
  RunOn <- TowerRunOn
  TTL <- TowerTTL
  Watches <- TowerWatches
  Hands = {"jelly"}
  HoldChoices = {}
  Faults = {}
  MaxTime = 5
  MaxChanges = 1
  Wakers = {}
  Loop = "loop"
  NoOne = "nobody"

SPECIFICATION HistSpec
INVARIANT StopsOnlyManaged
