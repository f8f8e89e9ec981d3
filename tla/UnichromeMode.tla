---------------------------- MODULE UnichromeMode ----------------------------
(***************************************************************************)
(* Setting a mode of a VIA Unichrome and the address its display starts    *)
(* at: which bits of the extended registers the driver writes, and what    *)
(* they say whatever an earlier mode has left there.                       *)
(*                                                                         *)
(* A register is the set of its one bits.  The image of the extended       *)
(* registers that unichrome_initializemode() changes is the one the        *)
(* adapter has, and the adapter gets it back (both are in parts of the     *)
(* driver that are not here), so the two are one here.  The timings in the *)
(* registers of the CRTC, and bits that the patch does not show whole, are *)
(* left out.                                                               *)
(***************************************************************************)
EXTENDS UnichromeClock

CONSTANTS
  Modes,      \* records [clock, hdisplay, bpp, green, size]: the timings and
              \* depth of a mode, and the bytes of a screen
  Memory,     \* unichrome_memory * 1024
  Addresses   \* where a program lets the display start

\* The size of the memory and an address are ints of the driver.
ASSUME MemoryAssumption == Memory \in 0 .. INT_MAX /\ Addresses \subseteq 0 .. Memory - 1
ASSUME ModeAssumption ==
  \A m \in Modes : m.clock \in Clocks /\ m.hdisplay \in Nat /\ m.bpp \in Nat

SeqRegs == {\h15, \h16, \h17, \h18, \h1c, \h1d, \h22, \h44, \h45, \h46, \h47}
CrtRegs == {\h03, \h0c, \h0d, \h23, \h34, \h43, \h48}

VARIABLES
  chiptype,     \* "CN700", or "KM400" for an older one
  mode,         \* the mode set last, or being set
  setting,      \* whether unichrome_setmode() is running
  seq, crt,     \* the extended registers; crt has the standard 0c and 0d, too
  start, moved  \* what the display was last told to start at, or -1, and
                \* whether since the mode was set: history, which no guard reads

modeVars == <<chiptype, mode, setting, seq, crt, start, moved>>
vars == <<modeVars, clockVars>>

Bits(n) == {b \in 0 .. 7 : (n \div 2^b) % 2 = 1}
Number(bits) ==
  LET digit(b) == IF b \in bits THEN 2^b ELSE 0
  IN  digit(0) + digit(1) + digit(2) + digit(3) + digit(4) + digit(5) + digit(6) + digit(7)

\* rViaMask(): the bits of the mask are replaced.
Masked(old, value, mask) == (old \ Bits(mask)) \cup (Bits(value) \cap Bits(mask))

\* The memory holds a screen.  That the monitor has a timing for the mode is
\* true of all of Modes.
unichrome_modeavailable(m) == Memory >= m.size

\* The first mode is being set, over what a boot screen or the console left.
Init ==
  /\ ClockInit
  /\ chiptype \in {"KM400", "CN700"}
  /\ mode \in {m \in Modes : m.clock = freq /\ unichrome_modeavailable(m)}
  /\ setting = TRUE
  /\ \E left \in {{}, 0 .. 7} :
       /\ seq = [r \in SeqRegs |-> left]
       /\ crt = [r \in CrtRegs |-> left]
  /\ start = -1 /\ moved = FALSE

\* Mutant: a mode that needs more memory than there is is set too.
SetModeUnchecked(m) ==
  /\ ~ setting
  /\ mode' = m /\ setting' = TRUE
  /\ IF chiptype = "CN700" THEN Call(m.clock) ELSE UNCHANGED clockVars
  /\ UNCHANGED <<chiptype, seq, crt, start, moved>>

\* unichrome_setmode(); a mode that is not available changes nothing.
SetMode(m) ==
  /\ ~ setting
  /\ unichrome_modeavailable(m)
  /\ mode' = m /\ setting' = TRUE
  /\ IF chiptype = "CN700" THEN Call(m.clock) ELSE UNCHANGED clockVars
  /\ UNCHANGED <<chiptype, seq, crt, start, moved>>

\* CalcPLL() of the CN700.
Search ==
  /\ setting /\ chiptype = "CN700"
  /\ Try
  /\ UNCHANGED modeVars

\* An int that is not negative, as the set of its one bits: of n << k, for n of
\* 16 bits, and its byte k.
BitsAt(n, k) == {b + k : b \in {c \in 0 .. 15 : (n \div 2^c) % 2 = 1}}
Byte(v, k) == {b \in 0 .. 7 : b + 8 * k \in v}

\* What CalcPLL() returns.  The search of the older chips is not here.
PLL ==
  IF chiptype = "CN700"
  THEN {BitsAt(BestDivider - 2, 16) \cup BitsAt(BestShift, 10) \cup BitsAt(BestMultiplier - 2, 0)}
  ELSE {BitsAt(n, 0) \cup BitsAt(m, 8) : n \in {0, 255}, m \in {0, 255}}

\* Bytes of a line.
LineBytes(m) == m.hdisplay * (m.bpp \div 8)

\* A line is as long as the 11 bits for its length in units of 8 bytes can say.
ASSUME LineAssumption == \A m \in Modes : LineBytes(m) < 2^14

hd == mode.hdisplay \div 8 - 1

\* Mutant: the mask of the 15-bit depth has only the bit that is to be set.
DepthAdded(old) ==
  CASE mode.bpp = 8                              -> Masked(old, \h00, \h1c)
    [] mode.bpp \in {15, 16} /\ mode.green = 5   -> Masked(old, \h04, \h04)
    [] mode.bpp \in {15, 16} /\ mode.green # 5   -> Masked(old, \h14, \h1c)
    [] mode.bpp = 32                             -> Masked(old, \h1c, \h1c)
    [] OTHER                                     -> old

\* The depth of the pixels; any other depth leaves the register alone.
Depth(old) ==
  CASE mode.bpp = 8                              -> Masked(old, \h00, \h1c)
    [] mode.bpp \in {15, 16} /\ mode.green = 5   -> Masked(old, \h04, \h1c)
    [] mode.bpp \in {15, 16} /\ mode.green # 5   -> Masked(old, \h14, \h1c)
    [] mode.bpp = 32                             -> Masked(old, \h1c, \h1c)
    [] OTHER                                     -> old

\* The thresholds of the display queue.
Queue ==
  IF hd >= 1600 THEN <<\h0f, \h4f>> ELSE IF hd >= 1024 THEN <<\h0c, \h4c>> ELSE <<\h08, \h4e>>

\* The registers of the CN700 only.
QueueRegs(old) ==
  IF chiptype = "CN700"
  THEN [old EXCEPT
         ![\h16] = Masked(Bits(Queue[1]), \h14, \hbf),
         ![\h17] = Bits(\h2f),
         ![\h18] = Masked(Bits(Queue[2]), \h08, \hbf),
         ![\h22] = Masked(@, IF hd >= 1400 /\ mode.bpp = 32 THEN \h10 ELSE \h00, \h1f)]
  ELSE [old EXCEPT ![\h16] = Bits(Queue[1]), ![\h18] = Bits(Queue[2])]

\* Mutant: the bytes are in the order of the older chips.
ClockRegsSwapped(old, tmp) ==
  IF chiptype = "CN700"
  THEN [old EXCEPT ![\h44] = Byte(tmp, 2), ![\h45] = Byte(tmp, 1), ![\h46] = Byte(tmp, 0)]
  ELSE [old EXCEPT ![\h46] = Byte(tmp, 1), ![\h47] = Byte(tmp, 0)]

ClockRegs(old, tmp) ==
  IF chiptype = "CN700"
  THEN [old EXCEPT ![\h44] = Byte(tmp, 0), ![\h45] = Byte(tmp, 1), ![\h46] = Byte(tmp, 2)]
  ELSE [old EXCEPT ![\h46] = Byte(tmp, 1), ![\h47] = Byte(tmp, 0)]

\* Mutant: the two high bits of the count are added to those of the last mode.
FetchRegsAdded(old) ==
  LET of == LineBytes(mode) \div 16
  IN  [old EXCEPT ![\h1c] = Bits(of % 256), ![\h1d] = @ \cup Bits(of \div 256)]

FetchRegs(old) ==
  LET of == LineBytes(mode) \div 16
  IN  [old EXCEPT ![\h1c] = Bits(of % 256), ![\h1d] = Masked(@, of \div 256, \h03)]

\* The image of the standard registers is made anew (94), and its start address
\* is zero (external); access to the vertical retrace (96); the address at 34
\* (112); a bit of 43 of the CN700.
CrtWrites(old) ==
  LET new == [old EXCEPT ![\h0c] = {}, ![\h0d] = {}, ![\h34] = {},
                         ![\h03] = Masked(@, \h80, \h80)]
  IN  IF chiptype = "CN700" THEN [new EXCEPT ![\h43] = Masked(@, \h00, \h04)] ELSE new

\* unichrome_initializemode(), once CalcPLL() has returned.
unichrome_initializemode ==
  /\ setting /\ (chiptype = "CN700" => Done)
  /\ \E tmp \in PLL :
       seq' = FetchRegs(QueueRegs(ClockRegs(
                [seq EXCEPT ![\h15] = Depth(Masked(Masked(Masked(@, \h02, \h02), \h00, \h80), \h20, \h20))],
                tmp)))
  /\ crt' = CrtWrites(crt)
  /\ setting' = FALSE /\ moved' = FALSE
  /\ UNCHANGED <<chiptype, mode, start, clockVars>>

\* Mutant: the CN700 has no more address bits than the others.
unichrome_setdisplaystart24(a) ==
  /\ ~ setting
  /\ crt' = [crt EXCEPT ![\h23] = Bits(((a \div 4) \div 2^16) % 256),
                        ![\h0c] = Bits(((a \div 4) \div 2^8) % 256),
                        ![\h0d] = Bits((a \div 4) % 256)]
  /\ start' = a /\ moved' = TRUE
  /\ UNCHANGED <<chiptype, mode, setting, seq, clockVars>>

unichrome_setdisplaystart(a) ==
  /\ ~ setting
  /\ LET low == [crt EXCEPT ![\h23] = Bits(((a \div 4) \div 2^16) % 256),
                            ![\h0c] = Bits(((a \div 4) \div 2^8) % 256),
                            ![\h0d] = Bits((a \div 4) % 256)]
     IN  crt' = IF chiptype = "CN700" THEN [low EXCEPT ![\h48] = Bits(((a \div 4) \div 2^24) % 32)]
                                      ELSE low
  /\ start' = a /\ moved' = TRUE
  /\ UNCHANGED <<chiptype, mode, setting, seq, clockVars>>

Next ==
  \/ \E m \in Modes : SetMode(m)
  \/ Search
  \/ unichrome_initializemode
  \/ \E a \in Addresses : unichrome_setdisplaystart(a)

Spec == Init /\ [][Next]_vars

-----------------------------------------------------------------------------
\* A mode that is set fits into the memory.
TypeOK ==
  /\ ClockTypeOK
  /\ chiptype \in {"KM400", "CN700"} /\ setting \in BOOLEAN
  /\ mode \in Modes /\ mode.size <= Memory
  /\ seq \in [SeqRegs -> SUBSET (0 .. 7)] /\ crt \in [CrtRegs -> SUBSET (0 .. 7)]
  /\ start \in Addresses \cup {-1} /\ moved \in BOOLEAN

\* Bits 2 to 4 of the extended mode register, as the four depths have them.
DepthField == Number(seq[\h15] \cap Bits(\h1c))
DepthOf(m) ==
  CASE m.bpp = 8 -> \h00
    [] m.bpp \in {15, 16} -> IF m.green = 5 THEN \h04 ELSE \h14
    [] m.bpp = 32 -> \h1c

\* When a mode is set the adapter has the depth of this mode and no bit of an
\* earlier one.  A mode of any other depth keeps the field as it was.
ShowsDepth ==
  ~ setting /\ mode.bpp \in {8, 15, 16, 32} => DepthField = DepthOf(mode)

\* The bytes the adapter fetches for a line are those of a line of this mode,
\* to a unit of 16, although the count is split over two registers and the
\* second holds other things too.
FetchesLine ==
  ~ setting =>
    LET count == Number(seq[\h1c]) + 256 * Number(seq[\h1d] \cap {0, 1})
    IN  16 * count <= LineBytes(mode) /\ LineBytes(mode) < 16 * (count + 1)

\* The clock registers of the CN700 hold the setting the search has found for
\* this mode, in the generator's form, no field running into the next.
ClockProgrammed ==
  ~ setting /\ chiptype = "CN700" =>
    /\ freq = mode.clock
    /\ Number(seq[\h44]) + 2 = BestMultiplier
    /\ Number(seq[\h45] \cap {2, 3}) = 4 * BestShift /\ seq[\h45] \subseteq {2, 3}
    /\ Number(seq[\h46]) + 2 = BestDivider

\* The registers that unichrome_setdisplaystart() (232-235) writes hold the
\* address the display was told to start at, in units of four bytes, although
\* it is split over three or four of them: the whole of it until the next mode
\* is set, and after that, of which 94 and 112 clear others, its bits from 16 on.
StartShown ==
  start >= 0 =>
    LET told == start \div 4
        low == Number(crt[\h0d]) + 2^8 * Number(crt[\h0c]) + 2^16 * Number(crt[\h23])
    IN  /\ low = IF moved THEN told % 2^24 ELSE 2^16 * ((told \div 2^16) % 2^8)
        /\ chiptype = "CN700" => Number(crt[\h48]) = told \div 2^24
=============================================================================
