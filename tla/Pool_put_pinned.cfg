SPECIFICATION Spec
CONSTANTS
  c1 = c1
  c2 = c2
  a = a
  b = b
  Clients <- TwoClients
  PageIds <- ThreePages
  Values <- TwoValues
  Capacity = 2
  PutResident = TRUE
PROPERTY PinnedNotEvicted
