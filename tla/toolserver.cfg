SPECIFICATION Spec
CONSTANTS
  g1 = g1
  g2 = g2
  direct1 = direct1
  direct2 = direct2
  u1 = u1
  NoUrl = NoUrl
  None = None
  Gateways = {g1, g2}
  Default = {g1, g2}
  GatewayUrls = {u1}
  ServerUrls = {direct1, direct2}
  Specs <- Attaching
  MaxEdits = 1
  MaxFaults = 1
INVARIANTS TypeOK NeverBypassed
PROPERTIES ToolServerSettles AgentFollows
