\* The acknowledge of a VGA card against a process that writes its CRTC.
SPECIFICATION Spec
CONSTANTS
  t1 = t1
  t2 = t2
  p1 = p1
  Threads <- One
  PortUsers <- OneUser
  MaxPairs = 2
  Adapters <- VgaAdapter
PROPERTIES AckDisables
