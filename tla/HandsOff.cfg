CONSTANTS
  Targets = {"jelly"}
  TargetNames <- SoloNames
  NodeTargets = {}
  Nodes = {"pve"}
  NoNode = ""
  AnyControl = "*"
  NodeOf <- SoloNodeOf
  ChainOf <- SoloChainOf
  UpTimeout <- SoloUpTimeout
  MinUptime <- SoloMinUptime
  Downs = {"jelly"}
  StopWhen <- SoloStopWhen
  Grace <- SoloGrace
  ThenConsider <- SoloThenConsider
  Manages <- SoloManages
  SignalNames <- SoloSignalNames
  HoldSignals = {"hold"}
  HoldOf <- SoloHoldOf
  Undeclared = {}
  RunOn <- SoloRunOn
  TTL <- SoloTTL
  Watches <- SoloWatches
  Hands = {"jelly"}
  HoldChoices <- HandsOffHold
  Faults = {}
  MaxTime = 5
  MaxChanges = 4
  Wakers = {}
  Loop = "loop"
  NoOne = "nobody"

SPECIFICATION HistSpec
INVARIANT FullGraceBeforeStop
