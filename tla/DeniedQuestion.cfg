CONSTANTS
  Hosts = {"a", "b", "c", "tower"}
  Controls <- ThreeControls
  AnyControl = "*"
  Requests <- AllRequests
  Conditions = {"off", "cut", "stale", "denied", "good", "bad"}

SPECIFICATION Spec
INVARIANT NoMeansAsked
