SPECIFICATION SpecViews
CONSTANTS
  c1 = c1
  c2 = c2
  c3 = c3
  dev = dev
  ep = ep
  rA = rA
  rB = rB
  ownA = ownA
  ownB = ownB
  m1 = m1
  m2 = m2
  None = None
  Conns = {c1, c2, c3}
  Devices = {dev}
  Owners = {ownA, ownB}
  Endpoints = {ep}
  Runtimes = {rA, rB}
  Metas = {m1, m2}
  HelloOf <- MCHelloOf
  MaxFrames <- MCMaxFrames
INVARIANTS
  EndpointEntriesOwned
  OwnerEntriesExact
  RoutesGenuine
  ViewsExactUnlessOvertaken
PROPERTIES
  ImplementsAuthority
  ReplacedHandlersEnd
CHECK_DEADLOCK FALSE
