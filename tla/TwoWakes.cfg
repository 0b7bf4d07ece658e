CONSTANTS
  Targets = {"jelly"}
  TargetNames <- SoloNames
  NodeTargets = {}
  Nodes = {"pve"}
  NoNode = ""
  AnyControl = "*"
  NodeOf <- SoloNodeOf
  ChainOf <- SoloChainOf
  UpTimeout <- LessThanATick
  MinUptime <- LessThanATick
  Downs = {"jelly"}
  StopWhen <- BusyOnly
  Grace <- ShortGrace
  ThenConsider <- SoloThenConsider
  Manages <- SoloManages
  SignalNames <- SoloSignalNames
  HoldSignals = {}
  HoldOf <- NoHolds
  Undeclared = {}
  RunOn <- SoloRunOn
  TTL <- SoloTTL
  Watches <- SoloWatches
  Hands = {}
  HoldChoices <- HandsOffHold
  Faults = {"probe", "lost", "late"}
  MaxTime = 1
  MaxChanges = 0
  Wakers = {w1, w2}
  Loop = "loop"
  NoOne = "nobody"

SPECIFICATION QuietSpec
SYMMETRY AlikeWakes
INVARIANTS TypeOK LockDiscipline PendingIsOwned QuietSinceLastRefused 
PROPERTY InTurns
