------------------------------ MODULE VsyncRegs ------------------------------
(***************************************************************************)
(* The vsync functions of kmod/interrupt.c at the granularity of single    *)
(* bus accesses: the threads in SVGAHELPER_WAITRETRACE run enable_vsync()  *)
(* of one adapter while the interrupt filter, on another CPU, runs         *)
(* ack_vsync() of the same adapter, and other processes write the CRTC of  *)
(* a VGA card through SVGAHELPER_OUTB, index port first.  Nothing          *)
(* serialises the three.                                                   *)
(*                                                                         *)
(* A function is a sequence of accesses; a value is the set of its one     *)
(* bits, out of the bits the functions name and two others, RestBits, that *)
(* stand for what a register holds besides.                                *)
(***************************************************************************)
EXTENDS Integers, Sequences

CONSTANTS
  Threads,   \* the processes that call WAITRETRACE on the adapter
  PortUsers, \* the processes that write the CRTC start address of a VGA card
  MaxPairs,  \* bound: how many index and data pairs each of them writes
  Adapters   \* the adapters considered: records with vendor, id and line; other
             \* devices raise interrupts on the line if it is "shared"

ASSUME PairsAssumption == MaxPairs \in Nat
\* The actors are distinct; the filter is none of the processes.
ASSUME ActorAssumption ==
  "filter" \notin Threads /\ PortUsers \cap (Threads \cup {"filter"}) = {}

RestBits == {6, 7}
AtBoot == {6}     \* the RestBits that are one in every register at boot
Bits == {0, 1, 2, 3, 4, 5, 8, 12, 24} \cup RestBits

\* A register of a card is named by its offset; the CRTC data register behind
\* index 0x11 is "cr11", that behind 0x0c, the start address, is "cr0c".
Registers == {"cr11", "cr0c", "8504", "40", "44", "46", "18",
              "100", "140", "200", "400100", "400140", "600100", "600140"}

(***************************************************************************)
(* The accesses.  A write puts (base without del) with add, where base is  *)
(* the local pb, the static saved_pmc or nothing.                          *)
(***************************************************************************)
Index       == [op |-> "index"]
Read(r)     == [op |-> "read", reg |-> r]
Save(r)     == [op |-> "save", reg |-> r]
Put(r, base, del, add) ==
  [op |-> "write", reg |-> r, base |-> base, del |-> del, add |-> add]
Set(r, add) == Put(r, "zero", {}, add)

\* Mutant: what was read is not kept.
OverwriteTwice(del1, add1, del2, add2) ==
  <<Index, Read("cr11"), Index, Put("cr11", "zero", del1, add1),
    Index, Read("cr11"), Index, Put("cr11", "zero", del2, add2)>>

\* Two read-modify-writes of CR11: select, read, select, write.
ModifyTwice(del1, add1, del2, add2) ==
  <<Index, Read("cr11"), Index, Put("cr11", "pb", del1, add1),
    Index, Read("cr11"), Index, Put("cr11", "pb", del2, add2)>>

\* Mutant: the first write leaves bit 5, which disables the interrupt.
VgaEnableKeepsBit5 == ModifyTwice({4}, {}, {}, {4})

vga_enable_vsync == ModifyTwice({4, 5}, {}, {}, {4})
vga_ack_vsync    == ModifyTwice({4}, {5}, {}, {5})

\* Mutant: the acknowledge leaves the enable bit and not the status bit.
S3AckSwapped == <<Set("8504", {8})>>

s3_enable_vsync == <<Set("8504", {0, 8})>>
s3_ack_vsync    == <<Set("8504", {0})>>

nv3_enable_vsync ==
  <<Save("200"), Put("200", "saved_pmc", {}, {12}), Set("140", {0}),
    Set("400140", {8}), Set("100", Bits), Set("400100", Bits)>>
nv3_ack_vsync ==
  <<Set("100", Bits), Set("400100", {8}), Set("140", {}), Set("400140", {}),
    [op |-> "restore", reg |-> "200"]>>

nv4_enable_vsync ==
  <<Save("200"), Put("200", "saved_pmc", {}, {24}), Set("140", {0}),
    Set("600140", {0}), Set("100", Bits), Set("600100", Bits)>>
nv4_ack_vsync ==
  <<Set("100", Bits), Set("600100", {0}), Set("140", {}), Set("600140", {}),
    Put("200", "saved_pmc", {}, {})>>

r128_enable_vsync == <<Set("44", {0}), Read("40"), Put("40", "pb", {}, {0})>>
r128_ack_vsync    == <<Set("44", {0}), Read("40"), Put("40", "pb", {0}, {})>>

\* Mutant: the acknowledge writes what the enable writes.
RageAckEnables == <<Read("18"), Put("18", "pb", {0, 1, 2}, {1, 2, 3})>>

rage_enable_vsync == <<Read("18"), Put("18", "pb", {0, 1, 2}, {1, 2, 3})>>
rage_ack_vsync    == <<Read("18"), Put("18", "pb", {0, 1, 2}, {2, 3})>>

rendition_enable_vsync == <<Set("44", {0}), Set("46", {0})>>
rendition_ack_vsync    == <<Set("44", {0}), Set("46", {})>>

(***************************************************************************)
(* vga_init_vsync(): which functions an adapter gets, and where its        *)
(* registers are: a BAR and an offset into it, or the legacy ports.        *)
(***************************************************************************)
\* A mapping of a BAR: dev->handle is the start of the resource; iobase or
\* membase, which has the offset added, is relative to it here.
do_bus_map(space, offset) == [space |-> space, handle |-> 0, base |-> offset]

R128Ids == {\h4c45, \h4c46, \h4c57, \h4c59, \h4c5a, \h4d46, \h4d4c, \h4242}
IsR128(id) == id \in R128Ids \/ id \div 256 \in \h50 .. \h54

\* The functions, and the mapping, of an adapter.
vga_init_vsync(a) ==
  CASE a.vendor = "MATROX" -> [card |-> "vga", map |-> do_bus_map("memory", \h1c00)]
    [] a.vendor = "SI" -> [card |-> "vga", map |-> do_bus_map("port", -\h380)]
    [] a.vendor = "NVIDIA_SGS" /\ a.id < \h20 ->
         [card |-> "nv3", map |-> do_bus_map("memory", 0)]
    [] (a.vendor = "NVIDIA_SGS" /\ a.id >= \h20) \/ a.vendor = "NVIDIA" ->
         [card |-> "nv4", map |-> do_bus_map("memory", 0)]
    [] a.vendor = "ATI" /\ IsR128(a.id) ->
         [card |-> "r128", map |-> do_bus_map("memory", 0)]
    [] a.vendor = "ATI" /\ ~IsR128(a.id) ->
         [card |-> "rage", map |-> do_bus_map("port", 0)]
    [] a.vendor = "RENDITION" ->
         [card |-> "rendition", map |-> do_bus_map("port", 0)]
    [] a.vendor = "S3" -> [card |-> "s3", map |-> do_bus_map("memory", \h1000000)]
    [] OTHER -> [card |-> "vga", map |-> do_bus_map("legacy", 0)]

EnableVsync(c) ==
  CASE c = "vga" -> vga_enable_vsync [] c = "s3" -> s3_enable_vsync
    [] c = "nv3" -> nv3_enable_vsync [] c = "nv4" -> nv4_enable_vsync
    [] c = "r128" -> r128_enable_vsync [] c = "rage" -> rage_enable_vsync
    [] c = "rendition" -> rendition_enable_vsync

AckVsync(c) ==
  CASE c = "vga" -> vga_ack_vsync [] c = "s3" -> s3_ack_vsync
    [] c = "nv3" -> nv3_ack_vsync [] c = "nv4" -> nv4_ack_vsync
    [] c = "r128" -> r128_ack_vsync [] c = "rage" -> rage_ack_vsync
    [] c = "rendition" -> rendition_ack_vsync

-----------------------------------------------------------------------------
Filter == "filter"                     \* the interrupt filter, as an actor
Actors == Threads \cup {Filter}

VARIABLES
  adapter,   \* the adapter
  regs,      \* its registers
  pending,   \* its vertical retrace latch
  saved_pmc, \* the static variable of interrupt.c
  pc,        \* "user", "run", "tsleep", "sleep"; the filter "idle", "run", "wakeup"
  at,        \* the next access of the function an actor is running
  pb,        \* the local pb of that function
  index,     \* the CRTC register that the index port selects
  port,      \* how many SVGAHELPER_OUTB calls a port user has made
  mixed,     \* history: did accesses of others fall into the function: "no",
             \* "port" if only those of port users, "yes"
  crossed    \* history: have a pair of a port user and a function overlapped?

portvars == <<index, port, crossed>>
vars == <<adapter, regs, pending, saved_pmc, pc, at, pb, mixed, portvars>>

Card == vga_init_vsync(adapter).card
Code(a) == IF a = Filter THEN AckVsync(Card) ELSE EnableVsync(Card)

\* The hardware: when the retrace sets the latch, which writes clear it, and
\* when the latch raises an interrupt.
Latches ==
  CASE Card = "vga" -> 4 \in regs["cr11"]
    [] Card = "nv3" -> 12 \in regs["200"]
    [] Card = "nv4" -> 24 \in regs["200"]
    [] OTHER -> TRUE
Clears(r, v) ==
  \/ r = "cr11" /\ 4 \notin v
  \/ r \in {"8504", "44", "600100"} /\ 0 \in v
  \/ r = "18" /\ 2 \in v
  \/ r = "400100" /\ 8 \in v
Enabled ==
  CASE Card = "vga"  -> 5 \notin regs["cr11"]
    [] Card = "s3"   -> 8 \in regs["8504"]
    [] Card = "r128" -> 0 \in regs["40"]
    [] Card = "rage" -> 1 \in regs["18"]
    [] Card = "rendition" -> 0 \in regs["46"]
    [] Card = "nv3"  -> 0 \in regs["140"] /\ 8 \in regs["400140"]
    [] Card = "nv4"  -> 0 \in regs["140"] /\ 0 \in regs["600140"]
Line == pending /\ Enabled

\* At boot the interrupt is disabled; it is on vga that a one bit means that.
Init ==
  /\ adapter \in Adapters
  /\ regs = [r \in Registers |-> IF r = "cr11" THEN {5} \cup AtBoot ELSE AtBoot]
  /\ pending = FALSE /\ saved_pmc = Bits
  /\ pc = [a \in Actors |-> IF a = Filter THEN "idle" ELSE "user"]
  /\ at = [a \in Actors |-> 1] /\ pb = [a \in Actors |-> {}]
  /\ mixed = [a \in Actors |-> "no"]
  /\ index = "cr0c" /\ port = [p \in PortUsers |-> 0] /\ crossed = FALSE

Busy(b) == pc[b] \in {"run", "tsleep", "wakeup"}
Paired(p) == port[p] % 2 = 1     \* between its index and its data write

\* b makes an access while others are in the middle of a function.
Mix(b) ==
  [a \in Actors |-> IF a = b \/ ~Busy(a) THEN mixed[a]
                    ELSE IF b \in PortUsers /\ mixed[a] # "yes" THEN "port"
                    ELSE "yes"]

Goto(a, l) == pc' = [pc EXCEPT ![a] = l]

Retrace ==
  /\ Latches /\ ~pending /\ pending' = TRUE
  /\ UNCHANGED <<adapter, regs, saved_pmc, pc, at, pb, mixed, portvars>>

\* A thread calls WAITRETRACE; the CPU takes an interrupt of the line.
Begin(a) ==
  /\ \/ a # Filter /\ pc[a] = "user"
     \/ a = Filter /\ pc[a] = "idle" /\ (Line \/ adapter.line = "shared")
  /\ Goto(a, "run") /\ at' = [at EXCEPT ![a] = 1]
  /\ mixed' = [mixed EXCEPT ![a] =
       IF \E b \in Actors \ {a} : pc[b] = "run" THEN "yes" ELSE "no"]
  /\ UNCHANGED <<adapter, regs, pending, saved_pmc, pb, portvars>>

Base(a, op) == CASE op.base = "pb" -> pb[a]
                 [] op.base = "saved_pmc" -> saved_pmc
                 [] op.base = "zero" -> {}

WriteReg(r, v) ==
  /\ regs' = [regs EXCEPT ![r] = v]
  /\ pending' = (pending /\ ~Clears(r, v))

\* The register an access to r reaches: CR11 is whatever the index selects.
Reached(r) == IF r = "cr11" THEN index ELSE r

\* One access; pb is not used again once it was written.
Access(a) ==
  LET op == Code(a)[at[a]] IN
  CASE op.op = "index" ->
         /\ index' = "cr11"
         /\ UNCHANGED <<regs, pending, saved_pmc, pb>>
    [] op.op = "read" ->
         /\ pb' = [pb EXCEPT ![a] = regs[Reached(op.reg)]]
         /\ UNCHANGED <<regs, pending, saved_pmc, index>>
    [] op.op = "save" ->
         /\ saved_pmc' = regs[op.reg]
         /\ UNCHANGED <<regs, pending, pb, index>>
    [] op.op = "write" ->
         /\ WriteReg(Reached(op.reg), (Base(a, op) \ op.del) \cup op.add)
         /\ pb' = [pb EXCEPT ![a] = {}]
         /\ UNCHANGED <<saved_pmc, index>>
    [] op.op = "restore" ->
         /\ IF saved_pmc # Bits THEN WriteReg(op.reg, saved_pmc)
            ELSE UNCHANGED <<regs, pending>>
         /\ UNCHANGED <<saved_pmc, pb, index>>

\* Mutant: the position in the function is not reset.
StepOn(a) ==
  /\ pc[a] = "run"
  /\ Access(a)
  /\ at' = [at EXCEPT ![a] = @ + 1]
  /\ pc' = IF at[a] # Len(Code(a)) THEN pc
           ELSE [pc EXCEPT ![a] = IF a = Filter THEN "wakeup" ELSE "tsleep"]
  /\ mixed' = Mix(a)
  /\ crossed' = (crossed \/ \E p \in PortUsers : Paired(p))
  /\ UNCHANGED <<adapter, port>>

\* The next access of a function, after which it may be over; every function
\* that another actor is in the middle of is mixed from now on.
Step(a) ==
  /\ pc[a] = "run"
  /\ Access(a)
  /\ LET last == at[a] = Len(Code(a)) IN
     /\ at' = [at EXCEPT ![a] = IF last THEN 1 ELSE @ + 1]
     /\ pc' = IF last THEN [pc EXCEPT ![a] = IF a = Filter THEN "wakeup" ELSE "tsleep"]
              ELSE pc
  /\ mixed' = Mix(a)
  /\ crossed' = (crossed \/ \E p \in PortUsers : Paired(p))
  /\ UNCHANGED <<adapter, port>>

\* tsleep().
Sleep(t) ==
  /\ pc[t] = "tsleep" /\ Goto(t, "sleep")
  /\ UNCHANGED <<adapter, regs, pending, saved_pmc, at, pb, mixed, portvars>>

\* A signal or hz ticks: the interrupt stays enabled.
Timeout(t) ==
  /\ pc[t] = "sleep" /\ Goto(t, "user")
  /\ mixed' = [mixed EXCEPT ![t] = "no"]
  /\ UNCHANGED <<adapter, regs, pending, saved_pmc, at, pb, portvars>>

\* The end of vsync_interrupt(): wakeup() of everyone who sleeps.
Wakeup ==
  /\ pc[Filter] = "wakeup"
  /\ LET woken == {t \in Threads : pc[t] = "sleep"} IN
     /\ pc' = [a \in Actors |-> IF a = Filter THEN "idle"
                                ELSE IF a \in woken THEN "user" ELSE pc[a]]
     /\ mixed' = [a \in Actors |-> IF a \in woken \cup {Filter} THEN "no" ELSE mixed[a]]
  /\ UNCHANGED <<adapter, regs, pending, saved_pmc, at, pb, portvars>>

\* SVGAHELPER_OUTB of a port user: first the index port, then the data port,
\* which reaches what the index selects by then.
OutB(p) ==
  /\ Card = "vga" /\ port[p] < 2 * MaxPairs
  /\ port' = [port EXCEPT ![p] = @ + 1]
  /\ mixed' = Mix(p)
  /\ crossed' = (crossed \/ \E a \in Actors : pc[a] = "run")
  /\ \/ ~Paired(p) /\ index' = "cr0c" /\ UNCHANGED <<regs, pending>>
     \/ Paired(p) /\ WriteReg(index, AtBoot) /\ UNCHANGED index
  /\ UNCHANGED <<adapter, saved_pmc, pc, at, pb>>

Next ==
  \/ Retrace \/ Wakeup
  \/ \E a \in Actors : Begin(a) \/ Step(a)
  \/ \E t \in Threads : Sleep(t) \/ Timeout(t)
  \/ \E p \in PortUsers : OutB(p)

Spec == Init /\ [][Next]_vars

\* CPUs do not stop, and the interrupt controller delivers what is asserted.
Fairness ==
  /\ \A a \in Actors : WF_vars(Step(a))
  /\ WF_vars(Wakeup) /\ WF_vars(Line /\ Begin(Filter))
FairSpec == Spec /\ Fairness

-----------------------------------------------------------------------------
TypeOK ==
  /\ adapter \in Adapters
  /\ regs \in [Registers -> SUBSET Bits] /\ pending \in BOOLEAN
  /\ saved_pmc \subseteq Bits
  /\ pc \in [Actors -> {"user", "run", "tsleep", "sleep", "idle", "wakeup"}]
  /\ at \in [Actors -> 1 .. 8] /\ pb \in [Actors -> SUBSET Bits]
  /\ index \in {"cr11", "cr0c"} /\ port \in [PortUsers -> 0 .. 2 * MaxPairs]
  /\ mixed \in [Actors -> {"no", "port", "yes"}] /\ crossed \in BOOLEAN

\* An enable_vsync() that ran without accesses of anyone else in between
\* leaves the interrupt enabled, whatever earlier overlapping calls left in
\* the registers.
EnableEnables ==
  \A t \in Threads : pc[t] = "tsleep" /\ mixed[t] = "no" => Enabled

\* An ack_vsync() that ran undisturbed deasserts the line, so that the filter
\* does not run again at once for the same retrace.
AckSilences == pc[Filter] = "wakeup" /\ mixed[Filter] = "no" => ~Line

\* However the accesses interleave, the registers that are modified in place
\* keep the bits that have nothing to do with the vertical retrace.  Register
\* 0x200 is one of them on nv3.  On nv4 it is only if the line is not shared:
\* nv4_ack_vsync() lacks the guard of nv3_ack_vsync(), and an interrupt of
\* another device before the first enable_vsync() makes it write the initial
\* saved_pmc, 0xffffffff.
InPlace == {"40", "18"} \cup (IF crossed THEN {} ELSE {"cr11"})
             \cup (IF Card = "nv3" \/ (Card = "nv4" /\ adapter.line # "shared")
                   THEN {"200"} ELSE {})
RestPreserved == \A r \in InPlace : regs[r] \cap RestBits = AtBoot

\* The line never stays asserted: no interrupt storm.
LineDrops == Line ~> ~Line

\* vga_enable_vsync() returns with interrupts allowed, as its comments say.
AllowsInterrupts ==
  [][\A t \in Threads : pc[t] = "run" /\ pc'[t] = "tsleep" => Enabled']_vars

\* vga_ack_vsync() returns with interrupts disabled, as its comment says, when
\* no enable_vsync() ran meanwhile; a process may have used the CRTC.
AckDisables ==
  [][pc[Filter] = "run" /\ pc'[Filter] = "wakeup" /\ mixed'[Filter] # "yes"
     => ~Enabled']_vars
=============================================================================
