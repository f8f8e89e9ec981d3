------------------------------- MODULE PciBar -------------------------------
(***************************************************************************)
(* How svga_load() (kmod/svga_helper.c) finds the apertures of a display   *)
(* adapter, one configuration space access a step, which pages check_mem() *)
(* then lets a process map, and what the library (src/vgapci.c, as patched)*)
(* learns of an aperture with and without the module.                      *)
(*                                                                         *)
(* A base address register is a record: an address is a multiple of size,  *)
(* the low bits read as flags whatever is written (both are properties of  *)
(* the hardware), and base is the address the firmware has assigned.  The  *)
(* kind is "memory", "port", "high" for the upper half of a 64-bit         *)
(* register, or "none" for one that is not there.                          *)
(***************************************************************************)
EXTENDS Integers

CONSTANTS
  Bars,       \* registers of an adapter: 6
  Top,        \* values of uint32_t: 2^32
  Words,      \* values of unsigned long and vm_paddr_t: 2^32 and 2^64
  Page,       \* PAGE_SIZE
  LegacyFirst, LegacyEnd,   \* the legacy video window: 0xa0000, 0x110000
  MaxMap,     \* the longest mapping: 0x40000000
  Layouts,    \* the registers that the adapters considered may have
  Functions,  \* the function numbers that an adapter may have on its device
  Companions  \* the registers that function 0 of its device may have

ASSUME BarsAssumption == Bars \in Nat
ASSUME WidthAssumption ==
  /\ Top \in Nat /\ Top % 16 = 0 /\ Top > 16
  /\ Words \subseteq Nat /\ \A w \in Words : w >= Top
ASSUME PageAssumption ==
  /\ MaxMap \in Nat /\ Page \in 17 .. MaxMap - 1
  /\ \A w \in Words : Page < w
  /\ LegacyFirst \in Nat /\ LegacyEnd \in Nat

Indices == 0 .. Bars - 1
Kinds == {"memory", "port", "high", "none"}
Registers ==
  [kind : Kinds, size : 1 .. Top, flags : 0 .. 15, base : 0 .. Top - 1]

\* What holds of the hardware: all bits of a register above its size can be
\* written, an address is aligned to the size, and an aperture of ports is far
\* smaller than a page.  An aperture above the 32-bit addresses is left out.
WellFormed(r) ==
  /\ r.flags < r.size
  /\ (Top - 1) % r.size = r.size - 1
  /\ (r.base + r.flags) % r.size = r.flags
  /\ r.base + r.flags < Top
  /\ r.kind = "memory" => /\ r.size % 16 = 0 /\ r.size < Top
                          /\ r.base % 16 = 0 /\ r.base + r.size <= Top
  /\ r.kind = "port" => r.size + 16 <= Page /\ (r.size < 16 \/ r.size % 16 = 0)
  /\ r.kind \in {"high", "none"} => r.base = 0 /\ (r.flags = 0 \/ r.size = Top)
ASSUME LayoutAssumption ==
  \A layout \in Layouts :
    layout \in [Indices -> Registers] /\ \A j \in Indices : WellFormed(layout[j])
ASSUME FunctionAssumption == Functions \subseteq 0 .. 7 /\ Companions \subseteq Layouts

VARIABLES
  word,     \* the width of the machine: i386 or amd64
  layout,   \* the registers of the adapter
  func,     \* its function number
  first,    \* the registers of function 0 of its device, which may be itself
  bar,      \* what they hold
  i, pc,
  result, t,
  len, mem  \* fields of struct sh_pci_device

device == <<word, layout, func, first>>
vars == <<device, bar, i, pc, result, t, len, mem>>

\* The value the firmware has left, and the value a write leaves.
Assigned(r) == r.base + r.flags
Written(r, v) == v - (v % r.size) + r.flags

Init ==
  /\ word \in Words
  /\ layout \in Layouts
  /\ func \in Functions
  /\ first \in IF func = 0 THEN {layout} ELSE Companions
  /\ bar = [j \in Indices |-> Assigned(layout[j])]
  /\ i = 0 /\ pc = "read"
  /\ result = 0 /\ t = 0
  /\ len = [j \in Indices |-> 0] /\ mem = [j \in Indices |-> 0]

\* v & ~0xf and ~v + 1 of uint32_t.
Masked(v) == v - (v % 16)
Negated(v) == (Top - v) % Top

\* A register that reads as zero is skipped.
ReadBar ==
  /\ pc = "read" /\ i < Bars
  /\ result' = bar[i]
  /\ IF bar[i] # 0 THEN pc' = "ones" /\ UNCHANGED i
                   ELSE i' = i + 1 /\ UNCHANGED pc
  /\ UNCHANGED <<device, bar, t, len, mem>>

WriteOnes ==
  /\ pc = "ones"
  /\ bar' = [bar EXCEPT ![i] = Written(layout[i], Top - 1)]
  /\ pc' = "size"
  /\ UNCHANGED <<device, i, result, t, len, mem>>

ReadSize ==
  /\ pc = "size"
  /\ t' = bar[i]
  /\ pc' = "restore"
  /\ UNCHANGED <<device, bar, i, result, len, mem>>

\* Mutant: the address is not written back.
RestoreForgotten ==
  /\ pc = "restore"
  /\ pc' = "store"
  /\ UNCHANGED <<device, bar, i, result, t, len, mem>>

Restore ==
  /\ pc = "restore"
  /\ bar' = [bar EXCEPT ![i] = Written(layout[i], result)]
  /\ pc' = "store"
  /\ UNCHANGED <<device, i, result, t, len, mem>>

\* Mutant: the arithmetic is done in 64 bits.
LengthWide(v) == Top - Masked(v)

\* Mutant: the flags are taken for address bits.
LengthUnmasked(v) == Negated(v)

Length(v) == Negated(Masked(v))

Store ==
  /\ pc = "store"
  /\ IF Length(t) # 0
     THEN /\ len' = [len EXCEPT ![i] = Length(t)]
          /\ mem' = [mem EXCEPT ![i] = Masked(result)]
     ELSE UNCHANGED <<len, mem>>
  /\ i' = i + 1 /\ pc' = "read"
  /\ UNCHANGED <<device, bar, result, t>>

Next == ReadBar \/ WriteOnes \/ ReadSize \/ Restore \/ Store

Spec == Init /\ [][Next]_vars

Scanned == pc = "read" /\ i = Bars

(***************************************************************************)
(* check_mem() for the softc of an adapter; for slot 0 it accepts what it  *)
(* accepts for some adapter.                                               *)
(***************************************************************************)
InLegacy(start, end) ==
  start >= LegacyFirst /\ start < LegacyEnd /\ end < LegacyEnd

\* Mutant: the end of the page is not looked at.
InBarStart(j, start, end) ==
  mem[j] # 0 /\ start >= mem[j] /\ start <= (mem[j] + len[j]) % word

InBar(j, start, end) ==
  mem[j] # 0 /\ start >= mem[j] /\ end <= (mem[j] + len[j]) % word

Allowed(start, end) ==
  InLegacy(start, end) \/ \E j \in Indices : InBar(j, start, end)

check_mem(start, size) ==
  LET end == (start + size) % word
  IN  IF end < start \/ size >= MaxMap THEN -3
      ELSE IF Allowed(start, end) THEN 0
      ELSE -2

\* svga_mmap() of one page.
MayMap(start) == check_mem(start, Page) = 0

(***************************************************************************)
(* __svgalib_pci_read_aperture_len(): SVGAHELPER_PCIAPLEN of the module,   *)
(* or PCIOCGETBAR of /dev/pci, whose driver has sized the registers with   *)
(* the masks of their kinds and both halves of a 64-bit one (external).    *)
(* The selector names function 0 whatever the function of the adapter is,  *)
(* and where open() or the ioctl fails the length is 0.  Top stands for    *)
(* every length that does not fit into 32 bits.                            *)
(***************************************************************************)
PCIOCGETBAR(r) ==
  CASE r.kind \in {"memory", "port"} -> r.size
    [] r.kind = "none" /\ r.flags # 0 -> Top
    [] OTHER -> 0

\* Mutant: a call that fails gives what the structure held before it.
read_aperture_len_unset(address, nohelper, fails) ==
  CASE ~nohelper          -> len[address]
    [] nohelper /\ fails  -> Top
    [] nohelper /\ ~fails -> PCIOCGETBAR(first[address])

read_aperture_len(address, nohelper, fails) ==
  CASE ~nohelper          -> len[address]
    [] nohelper /\ fails  -> 0
    [] nohelper /\ ~fails -> PCIOCGETBAR(first[address])

-----------------------------------------------------------------------------
(***************************************************************************)
(* Properties.  Aperture is what the hardware decodes: where the upper     *)
(* half of a 64-bit register is not zero, that is not what base says, and  *)
(* the layouts of the runs have no such register.                          *)
(***************************************************************************)
TypeOK ==
  /\ word \in Words
  /\ layout \in [Indices -> Registers]
  /\ func \in Functions /\ first \in [Indices -> Registers]
  /\ bar \in [Indices -> 0 .. Top - 1]
  /\ i \in 0 .. Bars
  /\ pc \in {"read", "ones", "size", "restore", "store"}
  /\ pc # "read" => i < Bars
  /\ result \in 0 .. Top - 1 /\ t \in 0 .. Top - 1
  /\ len \in [Indices -> 0 .. Top - 1] /\ mem \in [Indices -> 0 .. Top - 1]

\* Sizing moves one register at a time, for the time between its two writes
\* (463, 465), and after the scan every register holds what the firmware
\* assigned: the console and other drivers find the adapter where it was.
Restored ==
  \A j \in Indices :
    bar[j] # Assigned(layout[j]) => j = i /\ pc \in {"size", "restore"}

InAperture(j, start, size) ==
  /\ layout[j].kind = "memory"
  /\ layout[j].base <= start /\ start + size <= layout[j].base + layout[j].size

\* A page that a process may map is in the legacy window or in an aperture of
\* the adapter: no other layout of ports, unassigned registers and upper
\* halves makes check_mem take main memory or another device for a frame buffer.
MapsOwn ==
  Scanned =>
    \A start \in 0 .. word - 1 :
      MayMap(start) =>
        \/ InLegacy(start, start + Page)
        \/ \E j \in Indices : InAperture(j, start, Page)

\* Every page of an assigned aperture can be mapped, the last one too, and
\* SVGAHELPER_PCIAPLEN (266) gives the aperture its real length.  The one
\* exception is an aperture that ends with the last address of the machine:
\* the sum at 386 is then zero.
MapsAll ==
  Scanned =>
    \A j \in Indices :
      /\ layout[j].kind = "memory" /\ layout[j].base > 0
      /\ layout[j].base + layout[j].size < word
      => /\ len[j] = layout[j].size
         /\ \A start \in 0 .. word - 1 : InAperture(j, start, Page) => MayMap(start)

\* A program is told the same length of an aperture whether or not it runs
\* with the module, if the adapter is function 0 of its device: of any other
\* the selector at 75 names another function, and nothing is said.  The other
\* exceptions: a call that fails is told from no register that is not there;
\* the module skips a register that reads as zero and knows no length of 2^32
\* or more; and it makes 16 ports of fewer, because it clears four bits of a
\* register of ports, too.
LengthsAgree ==
  Scanned /\ func = 0 =>
    \A j \in Indices, fails \in BOOLEAN :
      LET known == read_aperture_len(j, TRUE, fails)
          sized == read_aperture_len(j, FALSE, fails)
      IN  \/ sized = known
          \/ fails /\ known = 0
          \/ sized = 0 /\ (Assigned(layout[j]) = 0 \/ known = Top)
          \/ layout[j].kind = "port" /\ known < 16 /\ sized = 16
=============================================================================
