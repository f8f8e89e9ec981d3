\* Any mode after any other, with all bits or no bit left by the first.  The
\* older chip has 32 MB here too, so that 24 bits of the start address are enough.
SPECIFICATION Spec
CONSTANTS
  Clocks <- MCClocks
  Modes <- MCModes
  Memory = 33554432
  Addresses = {0, 1023, 262143, 33554428}
INVARIANTS TypeOK Optimal ShowsDepth FetchesLine ClockProgrammed StartShown
