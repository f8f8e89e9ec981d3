\* Every layout of two registers, as function 0 or 1 of a device; addresses as
\* wide as a register, as on i386, and wider, as on amd64.
SPECIFICATION Spec
CONSTANTS
  Bars = 2
  Top = 256
  Words = {256, 512}
  Page = 32
  LegacyFirst = 80
  LegacyEnd = 136
  MaxMap = 64
  Layouts <- SmallLayouts
  Functions <- TwoFunctions
  Companions <- OtherLayouts
INVARIANTS TypeOK Restored MapsOwn MapsAll LengthsAgree
\* The scan ends.
CHECK_DEADLOCK FALSE
