CONSTANTS
  ArpTableSize = 3
  OurIP = us
  Neighbours = {n1, n2, n3, n4}
  Macs = {m1, m2}
  None = None
SPECIFICATION ArpSpec
INVARIANTS ArpTruthful NoNeedlessEviction
