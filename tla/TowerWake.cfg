CONSTANTS
  Targets = {"jelly", "lab", "tower"}
  TargetNames <- TowerNames
  NodeTargets = {"tower"}
  Nodes = {"tower"}
  NoNode = ""
  AnyControl = "*"
  NodeOf <- TowerNodeOf
  ChainOf <- TowerChainOf
  UpTimeout <- TowerOne
  MinUptime <- TowerOne
  Downs = {"jelly", "tower"}
  StopWhen <- TowerStopWhen
  Grace <- TowerGrace
  ThenConsider <- Cyclic
  Manages <- ManageAll
  SignalNames <- TowerSignalNames
  HoldSignals = {}
  HoldOf <- TowerHoldOf
  Undeclared = {}
  RunOn <- TowerRunOn
  TTL <- TowerTTL
  Watches <- TowerWatches
  Hands = {}
  HoldChoices = {}
  Faults = {}
  MaxTime = 3
  MaxChanges = 0
  Wakers = {"w1"}
  Loop = "loop"
  NoOne = "nobody"

SPECIFICATION Spec
INVARIANTS LockDiscipline LoopNeverWaitsForItself
PROPERTY InTurns
