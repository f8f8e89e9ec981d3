# Verification of svgalib-devel

TLA+ models of the FreeBSD port of svgalib in this repository: the kernel
module `svgalib_helper` (`kmod/`), the keyboard path from the FreeBSD console
codes to the key test program (`port/files/patch-src_keyboard_keyboard.c`,
`ktest/`), the log of `ktest/`, the aperture lengths of the patched `vgapci.c`
and the mode setting of the Unichrome driver. TLC checks small instances, TLAPS
proves every state invariant that the passing runs check for every instance.

## The system

| Part | State it keeps | Operations | Meets the others through |
|---|---|---|---|
| module event handler (`svga_load`) | `sh_pci_devs[15]`, `num_devices`, one `struct sh_pci_device` (softc) per adapter | `MOD_LOAD`, `MOD_UNLOAD`, `MOD_SHUTDOWN` | creates the nodes, frees what the methods use |
| cdev methods | `opencount`, `irqcookie`, `si_drv1` | `svga_open`, `svga_close`, `svga_ioctl`, `svga_mmap` | run in every process, without a lock |
| vsync interrupt | registers of the adapter, static `saved_pmc` | `vsync_interrupt`, `*_enable_vsync`, `*_ack_vsync`, `vga_init_vsync` | runs on any CPU beside the methods; wakes `WAITRETRACE` |
| PCI scan | BARs of every display adapter | BAR sizing in `MOD_LOAD` | fills `mem[]` and `len[]` for `check_mem` |
| keyboard mapping | none (tables) | `kbd_mapkey`, `KEYS[]`, `KEY[]` | console driver, svgalib, keytest |
| keytest | `map_up_to_low[]`, `code_map[]` | init, enable, poll, get, loop until Escape | svgalib's key state array |
| log | `LOG`: stream, sync flag, last message, counter | `log_init`, `log_va`, `log_done`, `log_abort` | callers, and a signal handler |
| vgapci | none | `__svgalib_pci_read_aperture_len` with the module and without it | asks `SVGAHELPER_PCIAPLEN`, or `/dev/pci` |
| Unichrome driver | the adapter's extended registers | `CalcPLL`, `unichrome_initializemode`, `unichrome_setmode`, `unichrome_setdisplaystart` | a program sets modes, and start addresses in between |
| other user side patches (console, gtf, gl, drivers) | patches to sources that are not here | | |

What makes them correct:

* event handler and methods: no method touches a softc that is unfinished or
  freed; a resource goes back to the bus once; an unload ends;
* open and close: the interrupt handler is installed exactly while a node is
  open, never twice, never for a freed softc, until an open races for the count
  of the node (then the code promises nothing);
* vsync: enabling enables, acknowledging silences the line, a register
  modified in place keeps its other bits, no interrupt storm;
* PCI scan: no register keeps the value that sizes it; a page can be mapped
  exactly where the adapter has an aperture, or in the legacy window;
* keyboard: a key that is down is reported as itself and nothing else is;
* aperture lengths: a program learns the same with the module and without it, of
  an adapter that is function 0 of its device;
* Unichrome: the clock is the nearest the generator has; the registers describe
  the mode set last, with no depth, line length or clock left of those before;
  the display starts where it was told to;
* log: what the filter leaves out can be read back, and with the sync flag a line
  is with the kernel when the call returns.

Hard behaviours: everything in `kmod/` runs concurrently and unlocked
(`D_VERSION` only, `INTR_MPSAFE` filter); loading fails half way; unloading
races with open files; the bus refuses resources and interrupts; interrupts of
other devices arrive on the shared line; processes write the registers the
vsync functions use through the port commands;
sleeps time out; a signal stops the log at any step. `PROJECT.json` lists the
hazards line by line.

## Modules

| Module | Models | 
|---|---|
| `SvgaHelper` | the module event handler, open, close, ioctl, mmap and the interrupt filter of `svga_helper.c`, one action per access to shared memory |
| `SoftcLifetime` | the abstract specification: softcs are created, held, and destroyed only while nobody holds them |
| `SvgaHelper_proofs` | theorems about `SvgaHelper` whatever overlaps |
| `SvgaHandler_proofs` | theorems about its interrupt handler, up to an open that races for the count of its node |
| `VsyncRegs`, `VsyncRegs_proofs` | `interrupt.c` at the granularity of one bus access, for one adapter of any kind, beside processes that use the ports; theorems about it |
| `PciBar`, `PciBar_proofs` | the sizing loop of `svga_load`, one configuration access a step, `check_mem`, and the aperture lengths a program gets; theorems about them |
| `UnichromeClock` | `CalcPLL` for the CN700, one candidate a step |
| `UnichromeMode`, `Unichrome_proofs` | setting modes and start addresses, over `UnichromeClock`; theorems about both |
| `LogBuffer`, `LogBuffer_proofs` | `ktest/log.c`, one action per stdio call; theorems about it |
| `KeyCodes` | the key tables of the keyboard patch, `keytest.c` and `key.c` |
| `KeyTest`, `KeyTest_proofs` | `keytest.c`'s main loop over `KeyCodes`, with a user who types meanwhile; theorems about it |
| `Iteration` | lemmas: induction over the numbers up to n, and that a recursive function of a model has the values its equation gives |
| `MC*` | instances for TLC |

**SvgaHelper.** A pointer field of the softc is the set of slots where it is
not NULL (`cdev`, `resource`, `irqresource`, `irqcookie`); `sh_pci_devs` is the
set of live softcs. `handlers[i]` counts the filters the kernel has installed,
which the code knows only through `irqcookie`. `named` is what devfs lets a
thread enter: `destroy_dev` is two actions, one that takes the node out of
`named`, and one that waits until no thread is inside. `opencount++` is a load
and a store, and the comparison after it uses the register or memory
(`Compared`), since the compiler may do either. `pdev` is the softc that
`get_dev` or the loop of `check_mem` has chosen. `panic` stands for a kernel
that has stopped at a NULL pointer. The alias `/dev/svga` is a link in devfs and
has no state. Memory allocated with `M_WAITOK` and `make_dev` do not fail, so
their error returns have no action. A thread holds at most one open file.
Two history variables, which no guard but the bound of openings reads, say what
the properties have to leave out: `refused`, the nodes whose first opener did not
get the interrupt from the bus, and `raced`, the nodes that an open entered while another thread was in
`svga_open` or `svga_close` of it and fewer than three openings were counted
(`Races`). The methods take no lock and nothing keeps such calls apart, so they are
in every run; but two `opencount++` that lose an update, or an open beside the last
close, may install the handler twice, leave it behind or take it from a sleeper,
and of a node to which that has happened the properties of the handler say
nothing. Overlaps above that threshold, and those of a node without an interrupt,
are not excepted: they lose updates too, but those leave at least two openings
counted, and these have no handler.

External, modelled from how the code uses it: devfs (a close method only for
the last close, since `svga_devsw` sets no `D_TRACKCLOSE`; no method on a
destroyed node), `destroy_dev`, the bus (may refuse), the kernel's `MOD_UNLOAD`
after a failed `MOD_LOAD`.

**VsyncRegs.** A function of `interrupt.c` is a sequence of accesses (select
index, read, write from the local `pb`, from `saved_pmc` or from nothing); a
value is the set of its one bits among those the code names plus two that stand
for the rest. Threads run `enable_vsync` and then sleep; the filter runs
`ack_vsync`, when the line is up or, if the adapter's line is shared, at any time,
and then wakes the sleepers. On a VGA card a port user makes pairs of `SVGAHELPER_OUTB`: the
index port first, then the data port, which reaches what `index` selects by
then. The adapter's latch, its enable bits and its line are the hardware
(external). `mixed` is a history variable: did another actor touch the registers
while this function ran, and was it a port user only? `crossed` tells whether a
pair of a port user and a function have overlapped at all.

**PciBar.** `SvgaHelper` takes the scan of one adapter as one action; this
module opens it. A base address register is a record of its kind, size, low
bits and address (external: `Written` is what the hardware keeps of a write).
The values and the arithmetic have their width: `Top` is 2^32, `word` that of
`unsigned long` and `vm_paddr_t`, one of `Words` (i386 and amd64). `check_mem` and
`read_aperture_len` are operators on the recorded `len` and `mem`, evaluated once
the scan is over; `PCIOCGETBAR` is what the PCI driver of the kernel knows
(external). Without the module, `read_aperture_len` asks for function 0 of the
device whatever the function of the adapter is (`pc_func = 0`,
`patch-src_vgapci.c:75`), and gives 0 when `open` or the ioctl fails: `func` is the
adapter's function, `first` the registers of function 0, which are the adapter's
own only when `func` is 0, and `fails` the failure.

**UnichromeClock, UnichromeMode.** The three loops of `CalcPLL` are one action,
`Try`, that looks at one candidate and moves on; frequencies and their 32-bit
products are the code's. A register is the set of its one bits, `Masked` is
`rViaMask`. `Init` leaves all bits or none in the registers, so that a mask that
is too small shows. The int that `CalcPLL` returns is a set of bits too, and the
clock registers take its bytes. `unichrome_initializemode` clears CR34 and builds
the image of the standard VGA registers anew, in which the start address of 0c and
0d is zero (`__svgalib_setup_VGA_registers`, external); `start` and `moved` are
history variables: where the display was last told to start, and whether that was
after the last mode set. The action is the whole handler, so the display queue
(`QueueRegs`) is in it although no property reads its registers. What the driver
assigns outside the patched lines, and bits the patch does not show whole, are left
out, and the clock bytes of the older chips are arbitrary (their search
is not under `src/`). `LineAssumption` keeps a line below 2^14 bytes: the driver
itself writes the length of a line, in units of 8 bytes, into 11 bits (CR13 and
three bits of CR35, `patch-src_drivers_unichrome.c:109-110`).

**LogBuffer.** The file is the sequence of its lines, `flushed` how many of them
stdio has certainly handed on, `synced` how many of those the filesystem was told
to write. The call that would do the latter, `target_sync()`, is commented out
(`log.c:149`), so no action raises `synced`. A stream that `fclose` has destroyed while
`LOG.msg` still points to it is `"closed"`. `Cut` is what `vsnprintf` keeps of a
text, so two long texts may be one message. `log_abort` may come at any step and
the process then stops.

**KeyCodes, KeyTest.** A physical key is its FreeBSD raw code (`K_CODE`).
`kbd_mapkey` is the switch of the patch, `Linux` the code the key really has
(external). `keystate` is svgalib's array as a set; `pressed` is a history
variable with the keys last seen going down since the keyboard was opened.
`PairAssumption` says that what is struck are keys of a PC or a Sun keyboard.

## Runs

| Run | Specification | Bounds | Result |
|---|---|---|---|
| `HelperOpen` | `FairSpec`, overlapping calls, refusals | 2 threads, 1 adapter, `MaxOpen` 3 | `HandlerOwnsSoftc`, `NoLeakedHandler`, `SleeperHasHandler`, `OpenHasHandler`, `WaitReturns`, `UnloadCompletes` hold |
| `HelperRace` | `Spec`, overlapping calls, refusals | 2 threads, 2 adapters, `MaxOpen` 0 | `TypeOK`, `NoUseAfterFree`, `NoEarlyUse`, `BarReleased`, `ImplementsLifetime` hold |
| `HelperWaitAll` | `Spec` | 2 threads, 2 adapters | `WaitsForAnyVsync` fails: finding |
| `VsyncShared` | `FairSpec` | 2 threads, 1 port user with a pair, 7 kinds of adapter on a shared line, nv4 also on its own | `TypeOK`, `EnableEnables`, `AckSilences`, `RestPreserved`, `LineDrops` hold |
| `VsyncAllows` | `Spec`, line of its own | 1 thread, VGA | `AllowsInterrupts` fails: finding |
| `VsyncPorts` | `Spec`, line of its own | 1 thread, 1 port user with 2 pairs, VGA | `AckDisables` fails: finding |
| `PciBars` | `Spec`, 8-bit registers, 8-bit and 9-bit addresses, pages of 32 | 2 registers, every layout, the adapter function 0 or 1 | `TypeOK`, `Restored`, `MapsOwn`, `MapsAll`, `LengthsAgree` hold |
| `Unichrome` | `Spec` | 9 modes, 4 start addresses, an old and a new chip | `TypeOK`, `Optimal`, `ShowsDepth`, `FetchesLine`, `ClockProgrammed`, `StartShown` hold |
| `LogFilter` | `Spec` | 11 messages, 3 texts | `TypeOK`, `Faithful`, `NothingPending` hold |
| `LogAbort` | `Spec` | 1 message | `AbortSafe` fails: finding |
| `LogSync` | `Spec` | 1 message | `FilesystemFlushed` fails: finding |
| `KeyReport` | `FairSpec` | every key with Escape and with its neighbour, 2 queued events | `TypeOK`, `Reported`, `Named`, `OwnCode`, `EscapeQuits` hold |

Why the bounds are enough:

* two threads show every overlap of two calls, and each of them with the
  module event handler and the interrupt. Two adapters let the scan publish one
  while the other is unfinished; slot 0 reaches both. What needs more threads
  or adapters is what the proofs are for.
* `MaxOpen` and `MaxDrift` bound the drift of `opencount`, which grows without end:
  devfs calls close for the last reference only. In `HelperOpen` `MaxOpen` is 3, so
  that opens overlap below the threshold of `Races` and at it, where an update is
  lost and nothing comes of it; with a threshold of 2 TLC finds `NoLeakedHandler`
  violated. In `HelperRace`, where none of the properties is about the counter, it
  is 0, which still lets two opens overlap (both start at 0). Everywhere
  else (nodes without an interrupt, those that have raced) `MaxDrift` is the bound,
  and it is 0, with the same effect.
* one pair of port writes meets every point of an enable and of an ack; the
  acknowledge of `VsyncPorts` goes wrong with the second pair.
* two base address registers show one being sized beside another, and a 64-bit
  one with its upper half; the registers do not interact otherwise. In eight
  bits an address still has the four flag bits and sizes below, at and above a
  page, and every page of the address space is tried. Addresses as wide as a
  register let the sums of `check_mem` wrap.
* an adapter that is function 1 beside a function 0 with other registers shows
  that the library reads the wrong ones: `LengthsAgree` fails there without its
  condition on the function;
* the modes have every depth the driver tells apart and one it does not, clocks
  from the lowest to the highest that divider 2 reaches, widths on both sides of
  each threshold, and one mode too large for the memory; the addresses differ in
  every byte, and 32 MB keep them within the 24 bits of the older chip.
* eleven messages are six equal ones (one beyond the limit of five), another
  one, and a second run, or two files one after the other;
* two queued events are a release and a press the loop sees together.

Deadlock is not checked in the helper runs (an unloaded module and a stopped
kernel take no step), in the log runs (an aborted process takes none), in the PCI
run (the scan ends) and in the key runs (the program ends). In the vsync and
Unichrome runs it is.

Fairness. `SvgaHelper`: a thread inside a call and the thread of the event
handler, once it has begun, are scheduled, and `tsleep` ends at its timeout of
`hz` ticks (`svga_helper.c:305`); no process has to call anything, no interrupt
has to come. `VsyncRegs`: CPUs do not stop, and a line that stays asserted
interrupts; no port user has to write. `KeyTest`: the program runs. The others
have no liveness.

Mutants: every property of a passing run has one, an operator that changes one
definition the way a plausible bug would (`Mutant:` comments).

### Findings

1. `WAITRETRACE` on `/dev/svga_helper/0` does not wait "for literally any
   vsync interrupt" (`svga_helper.c:310`): the loops run over all fifteen
   entries and dereference those that were never filled (`HelperWaitAll`).
2. `vga_enable_vsync` can return with interrupts disabled, although it says it
   enables and allows them (`interrupt.c:44`, `:50`): its accesses interleave
   with those of `vga_ack_vsync` (`VsyncAllows`). `EnableEnables` is the part
   of the promise that does hold: without overlap, enabling enables.
3. `vga_ack_vsync` can return with interrupts enabled although no enable ran
   meanwhile and although it says "disable interrupts" (`interrupt.c:32`): it
   selects CR11 through the index port that a process uses through
   `SVGAHELPER_OUTB`, and each diverts the other's writes (`VsyncPorts`).
   `AckSilences` is what holds when nobody interferes.
4. `log_abort` cannot "be called in a signal handler in any condition"
   (`log.c:199`): during `log_done` it closes the stream again (`LogAbort`).
5. With the sync flag the log does not flush "the file and the filesystem" at
   every write (`log.c:158`): after `fflush` the call of `target_sync()` is
   commented out (`log.c:149`), and the function is nowhere declared or defined
   (`LogSync`). `NothingPending` is the part about the file, which holds.

Two more disagreements were met while modelling and are left out of the properties:

* 90 is not an "unused" code (`patch-src_keyboard_keyboard.c:111`): right
  Control, raw 0x5a, has no case in the switch and keeps it, and so letting go of
  right Control or Again on a Sun keyboard releases the other. `OwnCode` is about the
  keys of a PC keyboard. For the same reason right Control never shows as
  `KEYB_RCONTROL`; `Reported` excepts it and says so.
* setting a Unichrome mode clears CR34 as the "start address"
  (`patch-src_drivers_unichrome.c:112`), and 0c and 0d with the standard registers,
  while `unichrome_setdisplaystart` writes the upper bytes to CR23 and CR48
  (`:232-233`), which stay. `StartShown` says what the registers then hold.

## Proofs

No theorem assumes anything but the `ASSUME`s of its module, except that two of
`KeyTest_proofs` are about a PC keyboard.

**`SvgaHelper_proofs`**: for every set of threads, every number of adapters up
to 14, with or without refusals,

* `TypeCorrect`: `Spec => []TypeOK`;
* `UseAfterFree`: `Spec => []NoUseAfterFree`;
* `EarlyUse`: `Spec => []NoEarlyUse`;
* `Refinement`: `Spec => ImplementsLifetime`;
* `BarsReturned`: `Spec => []BarReleased`.

The first four rest on `PciAssumption`, `OpenAssumption` and `FlagAssumption` and
on one inductive invariant, `IInv` (`Invariance`). `NoUseAfterFree` is not
inductive: it says nothing of why a thread that is in a method may go on. `IInv`
adds

* `LoadInv`: what is allocated and published in each phase of loading;
* `UnloadInv`: every node below `cur` is gone, the node being freed has been
  drained, and as long as node 0 exists all published adapters are allocated;
* `InsideInv`: a thread inside a method came through a node that still exists,
  or `destroy_dev` is waiting for it;
* `PdevInv`: the softc an ioctl or mmap works on is the node's own or one that
  slot 0 reaches.

The argument is then: a thread inside node 0 means node 0 is not freed, so the
unload loop is at index 0 or has not begun, so every adapter is allocated
(`RootReaches`). That slot 0 is destroyed first is what makes the driver safe;
with the loop in the other order the proof, and the property, fail. The
refinement maps `live` to `sh_pci_devs` and `holds` to what each thread
dereferences next (`Holds`); each action of the event handler is a `Create`,
a `Destroy` or a stutter, each action of a thread a `Hold` or a stutter.
`BarsReturned` adds `BarInv`, which says in which phases of the event handler a
softc has a BAR that is not released.

**`SvgaHandler_proofs`**: `HandlerLive`, `NoLeak`, `SleeperWakes` and `OpenWaits`
state `HandlerOwnsSoftc`, `NoLeakedHandler`, `SleeperHasHandler` and
`OpenHasHandler` for any number of threads and adapters, overlapping opens and
closes, unloads at any moment, and refused interrupts. All four speak of the
nodes that have not `raced`. The invariant, `HandlerInv` beside `IInv`
(`HandlerInvariance`), ties the counter, the cookie and the kernel's handlers
together:

* `OneCloser`, `Owned`, `Fresh`: one thread at a time closes a node (devfs calls
  close for the last reference only), a cookie is of a live adapter, a node that
  was not made was never opened;
* `Sound(n)`, for every node that has not raced. Either nobody overlaps there and
  the count is `Exact`: positive while a thread has the node open, and what a
  thread has loaded is still the counter. Or calls overlap and the count is
  `Deep`: memory and registers hold at least two, and three while a close has yet
  to take one, so that whatever updates are lost no test finds a first open or a
  last close. In both cases
* `Cookie`, `Refusal`: a cookie exists only between the test of the first open and
  that of the last close, and an open node without one was refused it;
* `Installed`: a handler is installed exactly while there is a cookie, except
  between its removal and the assignment of `NULL`;
* `Waits`: who sleeps has a cookie on its node.

**`VsyncRegs_proofs`**: for every adapter, any number of waiting processes and
of port users, `EnablesAlone` (`EnableEnables`), `SilencesAlone` (`AckSilences`),
`RestKept` (`RestPreserved`) and `TypeCorrect`. The properties speak of the end of
a function; the invariant says what it has achieved at each of its accesses
(`Enabling`, `Silencing`) if it is not `mixed`, and, whoever interferes, what it has
read and what `saved_pmc` holds of the rest of a register (`Keeping`).
`nv4_ack_vsync` writes `saved_pmc` without the test of `nv3_ack_vsync`; `Pmc_OK` says
why that is safe on a line of its own: an interrupt comes only once an
`enable_vsync`, which saves first, has switched it on. On a shared line it is
not, and `RestPreserved` leaves register 0x200 of nv4 out. A step of
one actor makes every other one that is in a function mixed (`Disturbed`), so that
the proof is about one function at a time: one lemma per register set, one case
per access (`VgaAchieves`, `Nv3Achieves`, ...).

**`PciBar_proofs`**: `TypeCorrect`, `RegistersRestored`, `MapsOnlyOwn`,
`MapsWholeAperture` and `SameLengths` (`LengthsAgree`) for every width, page size,
number of registers, layout and function that `WidthAssumption`, `PageAssumption`,
`BarsAssumption`, `LayoutAssumption` and `FunctionAssumption` admit. `SameLengths`
is about an adapter that is function 0, since the code asks for a register of
function 0 whatever the adapter is, and has a case for a `/dev/pci` that fails. The invariant says what each
register holds at each step (`Registers_OK`), what the two locals are
(`Locals_OK`), and what `len` and `mem` are for the registers passed
(`Records_OK`); the rest is arithmetic about the mask, the two's complement and
the sums that may wrap (`LengthBounds`, `EndOfRange`, `EndOfBar`). A recorded port
BAR is not mapped because it is shorter than a page (`RecordedOther`).

**`Unichrome_proofs`**: `SearchOptimal` and `ClockTypeCorrect` for every
clock that `ClockAssumption` admits. The invariant (`ClockInv`) says that the best
setting so far is at least as near as every candidate already looked at. That the
candidates are enough is arithmetic: the two roundings of the exact multiplier
bracket it (`Rounding`, `HertzOrder`), and where the exact multiplier of a divider is
beyond the range, a divider within it does at least as well (`HalfStep`,
`DivisorBelow`).

For every set of modes and of addresses, in every order, and over whatever the
registers held, `ModeTypeCorrect`, `ModeOptimal`, `DepthShown`, `LineFetched`,
`ClockSet` and `DisplayStart` state `TypeOK`, `Optimal`, `ShowsDepth`, `FetchesLine`,
`ClockProgrammed` and `StartShown`, from `ClockAssumption`, `MemoryAssumption`,
`ModeAssumption` and `LineAssumption`. The four properties of the registers are
inductive once `SearchInv` ties the clock search to the mode being set (the clock
is that of the mode, and a mode is set only when its search is over), and
`ClockInv` says that what the search leaves are numbers of the generator. A step
is one lemma; that the groups of register writes leave each other's registers
alone is `ClockWrites`, `QueueWrites` and `FetchWrites`; and that a field says what
was written is about binary digits: `NumberBits`, `TwoBits`, `ShiftBits`,
`MaskedBits`, and `PackedBytes` for the int in which `CalcPLL` packs its three
numbers. `DisplayStart` says of the time after a later mode set only what the two
writes to the CRTC leave (`CrtWritten`, `StartCleared`): the bits of the address
from 16 on.

**`LogBuffer_proofs`**: `Flushed` (`NothingPending`: no line is left to stdio), `TypeCorrect` and
`FilterFaithful` (`Faithful`) for all texts and any number of messages. The first
two follow from an invariant that ties the step the log is at to the state of its
stream, and one about the last message and its counter. `Faithful` speaks of the
time between two calls; `FilterInv` says what the file tells at every step: while a
message is to be printed, all but that one; while a run is to be summed up, all
but its length and the message that ended it; and the counter is always one less
than the length of the run the last message is in (`Counts`). `RunsAppend`, an
induction over the lines, is what makes it local: a further line extends what was
read so far. `AbortWindow` bounds finding 4: of all the steps a signal may
interrupt, only the one between `fclose` and the assignment in `log_done` is unsafe.

**`KeyTest_proofs`**: `KeyTypeCorrect` (`TypeOK`) and `AllNamed` (`Named`) for any
sets of keys of PC and Sun keyboards, and `AllReported` (`Reported`) and `OwnCodes`
(`OwnCode`) for any number of keys of a PC keyboard at once and any number of
events between two polls: their hypothesis, `Pairs \subseteq SUBSET Keyboard`, leaves out
the Sun keyboard, whose Again has the code of right Control. The invariant,
`TrackInv`, says that the array will be right when the events that wait have been
taken; a further event changes only what is true after all others (`EventsAppend`,
again an induction). The tables enter as three facts: no two keys have the same low
code (`Distinct`), each but right Control has the code Linux gives it
(`LinuxCodes`), and only right Control's entry of `KEYS` has low code 97 and none has
90 (`Entries`).

**`Iteration`**: the library's induction theorems take an operator as a parameter,
which the provers cannot instantiate. `SetInduction` and `UpTo` are about a set of
numbers instead, and follow from the well-foundedness of `<`; `Iteration` gives a
function of which each value is the step from the one before, which is how the
recursive functions `Reading` and `Updates` are shown to satisfy their equations.

Only model-checked: liveness (`WaitReturns`, `UnloadCompletes`, `LineDrops`,
`EscapeQuits`), which needs fairness and `ENABLED`, both out of the prover's reach.
The properties that fail have a counterexample each, and no proof.

## Not modelled

* the console, VT, card driver (but for Unichrome), gl and gtf patches: a few
  lines of context of sources that are not under `src/`, casts, compiler fixes
  and floating point; a model would be of code that cannot be read here;
* of Unichrome: the registers assigned outside the patched lines, the clock
  search of the older chips, saving and restoring the registers, and the mapping
  of the adapter's memory;
* the values that port and PCI commands transfer, one bus access each
  (`SVGAHELPER_OUTB` on the CRTC is in `VsyncRegs` for what it does to the vsync
  functions), `REPOUTB`'s copy, and the configuration registers that vgapci reads
  and writes;
* register 0x200 of nv4 on a shared line: an interrupt of another device before the
  first `enable_vsync` writes the initial `saved_pmc`, 0xffffffff, to it, and no
  text of the repository says what it should hold;
* several adapters in `VsyncRegs`, hence `saved_pmc` shared by two of them, and
  whether an offset belongs to `handle` or to `membase` (where a card has its
  registers is not under `src/`);
* fifteen or more adapters, which overrun `sh_pci_devs` (`PciAssumption`);
* apertures above 4 GB, whose upper half the scan takes for a BAR of its own,
  and I/O BARs that decode 16 bits only (`WellFormed`);
* what the counter and the handler of a node do once it has raced: the next first
  open or last close that is tested may install, remove or leave anything;
* what the library does after a mode set (`vga_setmode` is not under `src/`): whether
  it then sets a start address;
* the i810 GTT commands (`SVGAHELPER_I810GTT`, `SVGAHELPER_I810GTTE`, i386 only: an
  array allocated on first use), and the Alpha branches;
* `sncpy` as a loop: it is the assignment to `LOG.buffer`, which always fits; the
  `log_f_modeline_*` formats;
* the wrap of the log's counter at 2^32 messages (`MaxSent` bounds it);
* `key_name`, `key_code` (names of keys), keymap files and the keyboard code of
  svgalib (not under `src/`).

## Plan

Done, in the order of importance: `SvgaHelper` with `SoftcLifetime` and its
proofs; its handler, with overlapping opens and closes and refusals, and the proofs of that;
`VsyncRegs` with port users, and its proofs; `PciBar` with the aperture lengths
and its proofs; `LogBuffer` with its proofs; `KeyCodes` and `KeyTest` with
their proofs; `UnichromeClock` and `UnichromeMode` with their proofs.

What could still be added:

1. `VsyncRegs` with two nVidia adapters, and `HelperOpen` composed with the
   accesses of `VsyncRegs`;
2. the i810 GTT pages on i386.
