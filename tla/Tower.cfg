CONSTANTS
  Targets = {"jelly", "lab", "tower"}
  TargetNames <- TowerNames
  NodeTargets = {"tower"}
  Nodes = {"tower"}
  NoNode = ""
  AnyControl = "*"
  NodeOf <- TowerNodeOf
  ChainOf <- TowerChainOf
  UpTimeout <- TowerOne
  MinUptime <- TowerOne
  Downs = {"jelly", "lab", "tower"}
  StopWhen <- HeldStopWhen
  Grace <- TowerGrace
  ThenConsider <- TowerThenConsider
  Manages <- ManageAll
  SignalNames <- TowerSignalNames
  HoldSignals = {"hold"}
  HoldOf <- HoldOfJelly
  Undeclared = {"hold:"}
  RunOn <- TowerRunOn
  TTL <- TowerTTL
  Watches <- TowerWatches
  Hands = {"jelly"}
  HoldChoices <- JellyHold
  Faults = {"signal","refuse"}
  MaxTime = 3
  MaxChanges = 1
  Wakers = {}
  Loop = "loop"
  NoOne = "nobody"

SPECIFICATION HistSpec
INVARIANTS LastWordIsCurrent FullGraceBeforeStop QuietMeansAgreed
