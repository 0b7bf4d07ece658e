CONSTANTS
  Targets = {"jelly"}
  TargetNames <- SoloNames
  NodeTargets = {}
  Nodes = {"pve"}
  NoNode = ""
  AnyControl = "*"
  NodeOf <- SoloNodeOf
  ChainOf <- SoloChainOf
  UpTimeout <- SoloUpTimeout
  MinUptime <- SoloMinUptime
  Downs = {"jelly"}
  StopWhen <- BusyOnly
  Grace <- ShortGrace
  ThenConsider <- SoloThenConsider
  Manages <- SoloManages
  SignalNames <- SoloSignalNames
  HoldSignals = {}
  HoldOf <- NoHolds
  Undeclared = {}
  RunOn <- SoloRunOn
  TTL <- SoloTTL
  Watches <- NeverBusy
  Hands = {"jelly"}
  HoldChoices = {}
  Faults = {"refuse", "lost"}
  MaxTime = 4
  MaxChanges = 1
  Wakers = {"w1"}
  Loop = "loop"
  NoOne = "nobody"
  Early = 2

SPECIFICATION LiveSpec
INVARIANT JustRaisedIsSpared
PROPERTIES WakesEnd StoppableIsActedOn
