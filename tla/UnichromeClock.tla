---------------------------- MODULE UnichromeClock ----------------------------
(***************************************************************************)
(* CalcPLL() of the Unichrome driver for the CN700: the search for the     *)
(* multiplier, divider and shift of the clock generator that come nearest  *)
(* to a pixel clock, one pass of the innermost loop a step.  Frequencies   *)
(* are in kHz as in the code; the generator multiplies a crystal of 14318  *)
(* kHz and divides the product by Divider << Shift.                        *)
(***************************************************************************)
EXTENDS Integers

CONSTANT Clocks   \* the pixel clocks of the modes considered

Reference   == 14318
Multipliers == 2 .. 257
Dividers    == 2 .. 32
Shifts      == 0 .. 3
INT_MAX     == 2147483647

\* The clocks that divider 2 reaches with a multiplier of the range.
MinClock == 7160
MaxClock == 1840000
ASSUME ClockAssumption ==
  Clocks \subseteq Nat /\ \A f \in Clocks : MinClock <= f /\ f <= MaxClock

VARIABLES
  freq,                         \* the parameter
  Shift, Divider, RoundUp,      \* the loop variables
  BestDiff, BestMultiplier, BestDivider, BestShift

loops == <<Shift, Divider, RoundUp>>
best  == <<BestDiff, BestMultiplier, BestDivider, BestShift>>
clockVars == <<freq, loops, best>>

\* x << s
Shifted(x, s) == x * <<1, 2, 4, 8>>[s + 1]

\* 14318000 * m / e in Hz.  The product is computed as a uint32_t, which holds
\* it for every m of the range; it is taken apart here to stay below 2^31.
Hertz(m, e) ==
  1000 * ((Reference * m) \div e) + (1000 * ((Reference * m) % e)) \div e

Distance(a, b) == IF a < b THEN b - a ELSE a - b

\* Diff of a candidate.
Diff(m, d, s) == Distance(Hertz(m, Shifted(d, s)), freq * 1000)

\* Mutant: the quotient is never rounded up.
MultiplierDown(d, s, up) == Shifted(freq * d, s) \div Reference

Multiplier(d, s, up) ==
  (Shifted(freq * d, s) + (IF up = 1 THEN Reference - 1 ELSE 0)) \div Reference

None == BestDiff = INT_MAX /\ BestMultiplier = 0 /\ BestDivider = 0 /\ BestShift = 0

Done == Shift = 4

ClockInit ==
  /\ freq \in Clocks
  /\ Shift = 0 /\ Divider = 2 /\ RoundUp = 0
  /\ None

\* CalcPLL() is called for a mode.
Call(f) ==
  /\ Done
  /\ freq' = f
  /\ Shift' = 0 /\ Divider' = 2 /\ RoundUp' = 0
  /\ BestDiff' = INT_MAX /\ BestMultiplier' = 0 /\ BestDivider' = 0 /\ BestShift' = 0

\* The three for statements.
Advance ==
  \/ /\ RoundUp = 0
     /\ RoundUp' = 1 /\ UNCHANGED <<Divider, Shift>>
  \/ /\ RoundUp = 1 /\ Divider < 32
     /\ RoundUp' = 0 /\ Divider' = Divider + 1 /\ UNCHANGED Shift
  \/ /\ RoundUp = 1 /\ Divider = 32
     /\ RoundUp' = 0 /\ Divider' = 2 /\ Shift' = Shift + 1

\* The body of the loops: a multiplier out of range is passed over.
Try ==
  /\ ~ Done
  /\ LET m == Multiplier(Divider, Shift, RoundUp) IN
     IF m \in Multipliers /\ Diff(m, Divider, Shift) < BestDiff
     THEN /\ BestDiff' = Diff(m, Divider, Shift)
          /\ BestMultiplier' = m /\ BestDivider' = Divider /\ BestShift' = Shift
     ELSE UNCHANGED best
  /\ Advance
  /\ UNCHANGED freq

ClockNext == Try \/ \E f \in Clocks : Call(f)

ClockSpec == ClockInit /\ [][ClockNext]_clockVars

-----------------------------------------------------------------------------
ClockTypeOK ==
  /\ freq \in Clocks
  /\ Shift \in 0 .. 4 /\ Divider \in Dividers /\ RoundUp \in 0 .. 1
  /\ Done => Divider = 2 /\ RoundUp = 0
  /\ BestDiff \in Nat /\ BestDiff <= INT_MAX
  /\ \/ None
     \/ BestMultiplier \in Multipliers /\ BestDivider \in Dividers /\ BestShift \in Shifts

\* When the search ends it has found a setting the generator has, and no other
\* setting is nearer to the clock the mode asks for: the two roundings of the
\* exact multiplier are enough, although the search tries no other and leaves
\* out a divider whose exact multiplier is out of range, and early candidates
\* are not forgotten for later ones that are worse.
Optimal ==
  Done =>
    /\ BestMultiplier \in Multipliers /\ BestDivider \in Dividers /\ BestShift \in Shifts
    /\ \A d \in Dividers, s \in Shifts, m \in Multipliers :
         Diff(BestMultiplier, BestDivider, BestShift) <= Diff(m, d, s)
=============================================================================
