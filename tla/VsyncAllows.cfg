\* vga_enable_vsync against an acknowledge on another CPU.
SPECIFICATION Spec
CONSTANTS
  t1 = t1
  t2 = t2
  p1 = p1
  PortUsers <- Nobody
  MaxPairs = 1
  Threads <- One
  Adapters <- VgaAdapter
PROPERTIES AllowsInterrupts
