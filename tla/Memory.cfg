CONSTANTS
  c1 = c1
  c2 = c2
  c3 = c3
  NoClient = NoClient
  Client = {c1, c2, c3}
  MaxPeersPerSuper = 2
  e1 = e1
  e2 = e2
  EventId = {e1, e2}
  ConfirmedMax = 2
  Limit = 3
  Window = 2
  p1 = p1
  p2 = p2
  a1 = a1
  a2 = a2
  k1 = k1
  k2 = k2
  Peer = {p1, p2}
  Event = {e1, e2}
  Author = {a1, a2}
  Kind = {k1, k2}
  Time = {1, 2}
  MaxAge = 1
  MaxEvents = 2
  MaxTime = 4
SPECIFICATION MCSpec
SYMMETRY Symmetry
CHECK_DEADLOCK FALSE
INVARIANTS
  TypeOK
  WithinCapacity
  PointerIsListed
  SlotsAccounted
  Departed
  RefusedWhenBusy
  FreshStays
  ReconnectPending
  TrackerTypeOK
  Mirror
  IndicesExact
  FilterExact
PROPERTY ImplementsDirectory
