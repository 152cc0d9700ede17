SPECIFICATION Spec
CONSTANTS
  p1 = p1
  p2 = p2
  Peer = {p1, p2}
  Foreign = {0, 3}
  RequestLimit = 2
  Deployments = {"remote"}
  MaxNumber = 3
  MaxFaults = 1
PROPERTY SyncsUpToLastValid
