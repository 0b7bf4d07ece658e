CONSTANTS
  Hosts = {"a", "b", "c", "tower"}
  Controls <- ThreeControls
  AnyControl = "*"
  Requests <- AllRequests
  Conditions = {"off", "cut", "stale", "good", "bad"}

SPECIFICATION Spec
INVARIANTS TypeOK NoMeansAsked DoneMeansDone OneAnswer
