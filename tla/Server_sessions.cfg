SPECIFICATION Spec
CONSTANTS
  Protocols <- MCProtocols
  Descriptors = {4, 5, 6, 7}
  MaxOpens = 2
  MaxClients = 3
INVARIANTS
  SessionsSeparate
  DescriptorsAccounted
PROPERTIES
  ListenerEnds
CHECK_DEADLOCK FALSE
