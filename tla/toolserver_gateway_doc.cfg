SPECIFICATION Spec
CONSTANTS
  g1 = g1
  g2 = g2
  direct1 = direct1
  direct2 = direct2
  u1 = u1
  NoUrl = NoUrl
  None = None
  Gateways = {g1}
  Default = {g1}
  GatewayUrls = {u1}
  ServerUrls = {direct1}
  Specs <- Explicit
  MaxEdits = 1
  MaxFaults = 0
PROPERTIES GatewayUrlWithdrawn
