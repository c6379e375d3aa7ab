CONSTANTS
  LastVisible = 0
  LastVblank = 2
  MaxLatch = 0
  Programs <- StalePrograms
  Leads = {2, 100}
SPECIFICATION Spec
PROPERTIES
  RiseNotMissed
