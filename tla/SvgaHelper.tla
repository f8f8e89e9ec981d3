----------------------------- MODULE SvgaHelper -----------------------------
(***************************************************************************)
(* The FreeBSD kernel module svgalib_helper (kmod/svga_helper.c and the    *)
(* resource half of kmod/interrupt.c): the module event handler that       *)
(* creates and destroys one character device per display adapter, and the *)
(* cdev methods (open, close, ioctl, mmap) that processes run on them,     *)
(* concurrently and without a lock, with the vsync interrupt filter.       *)
(*                                                                         *)
(* Slot 0 is the pseudo device /dev/svga_helper/0; the alias /dev/svga is  *)
(* a symbolic link to it, so it has no state of its own.  Slots 1..MaxPci  *)
(* are the display adapters.  Each action is one access to shared memory,  *)
(* or a group of accesses no other thread can tell apart.  What            *)
(* enable_vsync() and ack_vsync() do to the registers of the adapter is    *)
(* left to the module VsyncRegs.                                           *)
(***************************************************************************)
EXTENDS Integers, FiniteSets

CONSTANTS
  Threads,  \* the processes; each holds at most one open file of the helper
  MaxPci,   \* bound: how many display adapters the PCI scan may find
  MaxOpen,  \* bounds: an open starts only at an opencount and a number of
  MaxDrift, \* handlers up to MaxOpen where the count decides something, and up
            \* to MaxDrift elsewhere
  MayFail   \* may the bus refuse a memory, port or interrupt resource?

MAX_NR_DEVICES == 15

ASSUME PciAssumption == MaxPci \in 0 .. MAX_NR_DEVICES - 1
ASSUME OpenAssumption == MaxOpen \in Nat /\ MaxDrift \in Nat
ASSUME FlagAssumption == MayFail \in BOOLEAN

Slots == 0 .. MaxPci
None  == -1

VARIABLES
  \* --- static state of svga_helper.c
  sh_pci_devs,  \* slots whose pointer is not NULL, i.e. whose softc is live
  num_devices,
  \* --- fields of struct sh_pci_device, as the set of slots where non-NULL
  cdev, irqresource, resource, irqcookie,
  opencount,
  \* --- kernel state the fields refer to
  si_drv1,      \* nodes whose si_drv1 is set
  named,        \* nodes that devfs lets a thread enter
  held,         \* slots whose BAR resource is allocated from the bus
  handlers,     \* number of vsync_interrupt filters installed per slot
  \* --- history, which nothing reads but the bound of openings
  refused,      \* slots whose last bus_setup_intr() failed
  raced,        \* slots where calls overlapped that can lose an update
  \* --- the module event handler: its program counter, and its index
  loader, cur,
  \* --- the processes
  pc,
  node,         \* the node a process has open, or is opening or closing
  cnt,          \* the register in opencount++ and opencount--
  pdev,         \* the local pdev of svga_ioctl, the loop device of check_mem
  panic         \* why the kernel stopped, or "none"

devvars == <<sh_pci_devs, num_devices, cdev, irqresource, resource, si_drv1,
             named, held, loader, cur>>
irqvars == <<opencount, irqcookie, handlers, refused, raced>>
thrvars == <<pc, node, cnt, pdev>>
vars == <<devvars, irqvars, thrvars, panic>>

OpenClosePcs == {"open", "open_store", "open_test",
                 "close", "close_store", "close_test", "close_clear"}
ThreadPcs == OpenClosePcs \cup {"user", "wait", "sleep", "woken", "config",
                                "mmap"}
LoaderPcs == {"idle", "mkdev", "made", "scan", "init", "failed", "up",
              "un_dev", "drain", "teardown", "release", "down"}

Init ==
  /\ sh_pci_devs = {} /\ num_devices = 0
  /\ cdev = {} /\ irqresource = {} /\ resource = {} /\ irqcookie = {}
  /\ opencount = [i \in Slots |-> 0]
  /\ si_drv1 = {} /\ named = {} /\ held = {}
  /\ handlers = [i \in Slots |-> 0] /\ refused = {} /\ raced = {}
  /\ loader = "idle" /\ cur = 0
  /\ pc = [t \in Threads |-> "user"] /\ node = [t \in Threads |-> None]
  /\ cnt = [t \in Threads |-> 0] /\ pdev = [t \in Threads |-> None]
  /\ panic = "none"

(***************************************************************************)
(* MOD_LOAD.                                                               *)
(***************************************************************************)

\* The softc of slot 0 is allocated and zeroed.
LoadBegin ==
  /\ loader = "idle"
  /\ sh_pci_devs' = {0} /\ num_devices' = 1
  /\ loader' = "mkdev" /\ cur' = 0
  /\ UNCHANGED <<cdev, irqresource, resource, si_drv1, named, held,
                 irqvars, thrvars, panic>>

\* make_dev(): the node can be entered from here on, before si_drv1 is set.
LoadMakeDev ==
  /\ loader = "mkdev"
  /\ cdev' = cdev \cup {cur} /\ named' = named \cup {cur}
  /\ loader' = "made"
  /\ UNCHANGED <<sh_pci_devs, num_devices, irqresource, resource, si_drv1,
                 held, cur, irqvars, thrvars, panic>>

\* cdev->si_drv1 = softc; for an adapter num_devices++ follows at once, for
\* slot 0 the alias is made, which changes no state.
LoadSetDrv1 ==
  /\ loader = "made"
  /\ si_drv1' = si_drv1 \cup {cur}
  /\ num_devices' = IF cur > 0 THEN num_devices + 1 ELSE num_devices
  /\ loader' = "scan"
  /\ UNCHANGED <<sh_pci_devs, cdev, irqresource, resource, named, held, cur,
                 irqvars, thrvars, panic>>

\* One more display adapter on pci_devq: its softc is allocated, zeroed,
\* identified and its BARs are sized (module PciBar).
LoadScan ==
  /\ loader = "scan" /\ num_devices <= MaxPci
  /\ sh_pci_devs' = sh_pci_devs \cup {num_devices}
  /\ cur' = num_devices
  /\ loader' = "init"
  /\ UNCHANGED <<num_devices, cdev, irqresource, resource, si_drv1, named,
                 held, irqvars, thrvars, panic>>

\* vga_init_vsync() succeeds: the BAR is mapped, except on a card of an
\* unlisted vendor, which uses the legacy ports and leaves resource NULL; the
\* interrupt is allocated if the card has one and the bus grants it.
LoadInitOk ==
  /\ loader = "init"
  /\ \E legacy, irq \in BOOLEAN :
       /\ resource' = IF legacy THEN resource ELSE resource \cup {cur}
       /\ held' = IF legacy THEN held ELSE held \cup {cur}
       /\ irqresource' = IF irq THEN irqresource \cup {cur} ELSE irqresource
  /\ loader' = "mkdev"
  /\ UNCHANGED <<sh_pci_devs, num_devices, cdev, si_drv1, named, cur,
                 irqvars, thrvars, panic>>

\* vga_init_vsync() fails and MOD_LOAD returns its error.  When it is
\* rman_get_virtual() that fails, the BAR goes back to the bus but the pointer
\* stays in the softc.
LoadInitFail ==
  /\ loader = "init" /\ MayFail
  /\ \E stale \in BOOLEAN :
       resource' = IF stale THEN resource \cup {cur} ELSE resource
  /\ loader' = "failed"
  /\ UNCHANGED <<sh_pci_devs, num_devices, cdev, irqresource, si_drv1, named,
                 held, cur, irqvars, thrvars, panic>>

LoadDone ==
  /\ loader = "scan"
  /\ loader' = "up"
  /\ UNCHANGED <<sh_pci_devs, num_devices, cdev, irqresource, resource,
                 si_drv1, named, held, cur, irqvars, thrvars, panic>>

(***************************************************************************)
(* MOD_UNLOAD and MOD_SHUTDOWN.  The kernel sends MOD_UNLOAD after a failed *)
(* MOD_LOAD as well.                                                       *)
(***************************************************************************)

UnloadBegin ==
  /\ loader \in {"up", "failed"}
  /\ loader' = "un_dev" /\ cur' = 0
  /\ UNCHANGED <<sh_pci_devs, num_devices, cdev, irqresource, resource,
                 si_drv1, named, held, irqvars, thrvars, panic>>

\* The loop moves to the next index; past the last slot the module is gone.
Advance ==
  /\ cur' = cur + 1
  /\ loader' = IF cur = MaxPci THEN "down" ELSE "un_dev"

\* An index whose pointer is NULL.
UnloadSkip ==
  /\ loader = "un_dev" /\ cur \notin sh_pci_devs
  /\ Advance
  /\ UNCHANGED <<sh_pci_devs, num_devices, cdev, irqresource, resource,
                 si_drv1, named, held, irqvars, thrvars, panic>>

\* destroy_dev(), first half: no thread can enter the node any more.
UnloadDestroy ==
  /\ loader = "un_dev" /\ cur \in sh_pci_devs \cap cdev
  /\ named' = named \ {cur}
  /\ loader' = "drain"
  /\ UNCHANGED <<sh_pci_devs, num_devices, cdev, irqresource, resource,
                 si_drv1, held, cur, irqvars, thrvars, panic>>

\* destroy_dev(NULL): the adapter whose vga_init_vsync() failed has no cdev.
UnloadDestroyNull ==
  /\ loader = "un_dev" /\ cur \in sh_pci_devs \ cdev
  /\ panic' = "destroy_null"
  /\ UNCHANGED <<devvars, irqvars, thrvars>>

Inside(t, n) == node[t] = n /\ pc[t] # "user"

\* Mutant: destroy_dev() does not wait for the threads inside.
UnloadDrainNoWait ==
  /\ loader = "drain"
  /\ si_drv1' = si_drv1 \ {cur}
  /\ loader' = "teardown"
  /\ UNCHANGED <<sh_pci_devs, num_devices, cdev, irqresource, resource,
                 named, held, cur, irqvars, thrvars, panic>>

\* destroy_dev(), second half: it sleeps until the last thread has left.
UnloadDrain ==
  /\ loader = "drain"
  /\ \A t \in Threads : ~Inside(t, cur)
  /\ si_drv1' = si_drv1 \ {cur}
  /\ loader' = "teardown"
  /\ UNCHANGED <<sh_pci_devs, num_devices, cdev, irqresource, resource,
                 named, held, cur, irqvars, thrvars, panic>>

\* Mutant: MOD_UNLOAD relies on the last close to have removed the handler.
UnloadTeardownForgotten ==
  /\ loader = "teardown" /\ loader' = "release"
  /\ UNCHANGED <<sh_pci_devs, num_devices, cdev, irqresource, resource,
                 si_drv1, named, held, cur, irqvars, thrvars, panic>>

UnloadTeardown ==
  /\ loader = "teardown"
  /\ handlers' = IF cur \in irqcookie
                 THEN [handlers EXCEPT ![cur] = @ - 1] ELSE handlers
  /\ loader' = "release"
  /\ UNCHANGED <<sh_pci_devs, num_devices, cdev, irqresource, resource,
                 si_drv1, named, held, cur, opencount, irqcookie, refused,
                 raced, thrvars, panic>>

\* Mutant: the BAR stays allocated.
UnloadReleaseIrqOnly ==
  /\ loader = "release"
  /\ sh_pci_devs' = sh_pci_devs \ {cur}
  /\ cdev' = cdev \ {cur} /\ resource' = resource \ {cur}
  /\ irqresource' = irqresource \ {cur} /\ irqcookie' = irqcookie \ {cur}
  /\ Advance
  /\ UNCHANGED <<num_devices, si_drv1, named, held, opencount, handlers, refused,
                 raced, thrvars, panic>>

\* Both resources go back to the bus and the softc is freed.
UnloadRelease ==
  /\ loader = "release"
  /\ held' = IF cur \in resource THEN held \ {cur} ELSE held
  /\ sh_pci_devs' = sh_pci_devs \ {cur}
  /\ cdev' = cdev \ {cur} /\ resource' = resource \ {cur}
  /\ irqresource' = irqresource \ {cur} /\ irqcookie' = irqcookie \ {cur}
  /\ Advance
  /\ UNCHANGED <<num_devices, si_drv1, named, opencount, handlers, refused,
                 raced, thrvars, panic>>

LoaderNext ==
  \/ LoadBegin \/ LoadMakeDev \/ LoadSetDrv1 \/ LoadScan \/ LoadInitOk
  \/ LoadInitFail \/ LoadDone
  \/ UnloadBegin \/ UnloadSkip \/ UnloadDestroy \/ UnloadDestroyNull
  \/ UnloadDrain \/ UnloadTeardown \/ UnloadRelease

(***************************************************************************)
(* svga_open().                                                            *)
(***************************************************************************)

Goto(t, l) == pc' = [pc EXCEPT ![t] = l]
InOpenClose(n) == \E t \in Threads : node[t] = n /\ pc[t] \in OpenClosePcs

\* No lock serialises the methods, so an open may begin while another thread
\* opens or closes the node.  With three openings counted, the updates they can
\* lose still leave two, and no test takes anyone for the first or the last;
\* without an interrupt there is nothing to install.
Races(n) == n \in irqresource /\ InOpenClose(n) /\ opencount[n] < 3

\* The count decides something where there is an interrupt, until it is wrong.
Bound(n) == IF n \in irqresource \ raced THEN MaxOpen ELSE MaxDrift

OpenEnter(t) ==
  /\ node[t] = None
  /\ \E n \in named :
       /\ opencount[n] \in -Bound(n) .. Bound(n) /\ handlers[n] <= Bound(n)
       /\ node' = [node EXCEPT ![t] = n]
       /\ raced' = IF Races(n) THEN raced \cup {n} ELSE raced
  /\ Goto(t, "open")
  /\ UNCHANGED <<devvars, opencount, irqcookie, handlers, refused, cnt, pdev,
                 panic>>

\* Opened between make_dev() and the assignment of si_drv1: -EINVAL.
OpenNoSoftc(t) ==
  /\ pc[t] = "open" /\ node[t] \notin si_drv1
  /\ Goto(t, "user") /\ node' = [node EXCEPT ![t] = None]
  /\ UNCHANGED <<devvars, irqvars, cnt, pdev, panic>>

\* opencount++ is a load and a store.
OpenLoad(t) ==
  /\ pc[t] = "open" /\ node[t] \in si_drv1
  /\ cnt' = [cnt EXCEPT ![t] = opencount[node[t]] + 1]
  /\ Goto(t, "open_store")
  /\ UNCHANGED <<devvars, irqvars, node, pdev, panic>>

OpenStore(t) ==
  /\ pc[t] = "open_store"
  /\ opencount' = [opencount EXCEPT ![node[t]] = cnt[t]]
  /\ Goto(t, "open_test")
  /\ UNCHANGED <<devvars, irqcookie, handlers, refused, raced, node, cnt, pdev,
                 panic>>

\* The value the compiled code compares: the register, or memory read again.
Compared(t) == {cnt[t], opencount[node[t]]}

\* Mutant: every opener installs a handler.
OpenTestAny(t) ==
  /\ pc[t] = "open_test"
  /\ LET n == node[t] IN
     IF n # 0 /\ n \in irqresource
     THEN /\ handlers' = [handlers EXCEPT ![n] = @ + 1]
          /\ irqcookie' = irqcookie \cup {n}
     ELSE UNCHANGED <<handlers, irqcookie>>
  /\ Goto(t, "user") /\ cnt' = [cnt EXCEPT ![t] = 0]
  /\ UNCHANGED <<devvars, opencount, refused, raced, node, pdev, panic>>

\* The first opener of an adapter with an interrupt installs the handler; when
\* bus_setup_intr() fails, irqcookie is NULL and the open succeeds anyway.
OpenTest(t) ==
  /\ pc[t] = "open_test"
  /\ LET n == node[t] IN
     \E v \in Compared(t) :
       IF v = 1 /\ n # 0 /\ n \in irqresource
       THEN \/ /\ handlers' = [handlers EXCEPT ![n] = @ + 1]
               /\ irqcookie' = irqcookie \cup {n}
               /\ refused' = refused \ {n}
            \/ /\ MayFail
               /\ irqcookie' = irqcookie \ {n}
               /\ refused' = refused \cup {n}
               /\ UNCHANGED handlers
       ELSE UNCHANGED <<handlers, irqcookie, refused>>
  /\ Goto(t, "user") /\ cnt' = [cnt EXCEPT ![t] = 0]
  /\ UNCHANGED <<devvars, opencount, raced, node, pdev, panic>>

(***************************************************************************)
(* svga_close().  svga_devsw does not set D_TRACKCLOSE, so devfs calls     *)
(* d_close only when no other reference to the node is left; and it calls  *)
(* no method of a destroyed node.                                          *)
(***************************************************************************)

CloseEnter(t) ==
  /\ pc[t] = "user" /\ node[t] # None
  /\ LET last == \A u \in Threads \ {t} : node[u] # node[t] IN
     IF node[t] \in named /\ last
     THEN Goto(t, "close") /\ UNCHANGED node
     ELSE node' = [node EXCEPT ![t] = None] /\ UNCHANGED pc
  /\ UNCHANGED <<devvars, irqvars, cnt, pdev, panic>>

CloseLoad(t) ==
  /\ pc[t] = "close"
  /\ cnt' = [cnt EXCEPT ![t] = opencount[node[t]] - 1]
  /\ Goto(t, "close_store")
  /\ UNCHANGED <<devvars, irqvars, node, pdev, panic>>

CloseStore(t) ==
  /\ pc[t] = "close_store"
  /\ opencount' = [opencount EXCEPT ![node[t]] = cnt[t]]
  /\ Goto(t, "close_test")
  /\ UNCHANGED <<devvars, irqcookie, handlers, refused, raced, node, cnt, pdev,
                 panic>>

\* Mutant: the handler is removed while the count says one opener is left.
CloseTestEarly(t) ==
  /\ pc[t] = "close_test"
  /\ LET n == node[t] IN
     \E v \in Compared(t) :
       IF v <= 1 /\ n \in irqresource /\ n \in irqcookie
       THEN /\ handlers' = [handlers EXCEPT ![n] = @ - 1]
            /\ Goto(t, "close_clear") /\ UNCHANGED node
       ELSE /\ Goto(t, "user") /\ node' = [node EXCEPT ![t] = None]
            /\ UNCHANGED handlers
  /\ cnt' = [cnt EXCEPT ![t] = 0]
  /\ UNCHANGED <<devvars, opencount, irqcookie, refused, raced, pdev, panic>>

\* The last closer removes the handler, then clears the cookie.  Removing it
\* twice with one cookie is a use of the freed cookie.
CloseTest(t) ==
  /\ pc[t] = "close_test"
  /\ LET n == node[t] IN
     \E v \in Compared(t) :
       IF v = 0 /\ n \in irqresource /\ n \in irqcookie
       THEN /\ handlers' = [handlers EXCEPT ![n] = @ - 1]
            /\ Goto(t, "close_clear") /\ UNCHANGED node
       ELSE /\ Goto(t, "user") /\ node' = [node EXCEPT ![t] = None]
            /\ UNCHANGED handlers
  /\ cnt' = [cnt EXCEPT ![t] = 0]
  /\ UNCHANGED <<devvars, opencount, irqcookie, refused, raced, pdev, panic>>

CloseClear(t) ==
  /\ pc[t] = "close_clear"
  /\ irqcookie' = irqcookie \ {node[t]}
  /\ Goto(t, "user") /\ node' = [node EXCEPT ![t] = None]
  /\ UNCHANGED <<devvars, opencount, handlers, refused, raced, cnt, pdev, panic>>

(***************************************************************************)
(* svga_ioctl(): SVGAHELPER_WAITRETRACE, and the interrupt that ends it.   *)
(***************************************************************************)

MayCall(t) == pc[t] = "user" /\ node[t] \in named

\* Without a handler the ioctl of an adapter returns 0 at once: no step.
WaitEnter(t) ==
  /\ MayCall(t) /\ node[t] \in irqresource \cap irqcookie
  /\ Goto(t, "wait")
  /\ UNCHANGED <<devvars, irqvars, node, cnt, pdev, panic>>

\* The loop that WAITRETRACE on slot 0 makes over the array dereferences every
\* entry, and the line after it the entry at MAX_NR_DEVICES: a NULL pointer,
\* or one past the end, brings the kernel down.
Faults == \E i \in 0 .. MAX_NR_DEVICES : i \notin sh_pci_devs
WaitAll(t) ==
  /\ MayCall(t) /\ node[t] = 0 /\ Faults
  /\ panic' = "wait_all"
  /\ UNCHANGED <<devvars, irqvars, thrvars>>

\* enable_vsync() and tsleep(): an interrupt that comes between the two is
\* lost, so the action stands for the sleep.
WaitSleep(t) ==
  /\ pc[t] = "wait"
  /\ Goto(t, "sleep")
  /\ UNCHANGED <<devvars, irqvars, node, cnt, pdev, panic>>

\* Mutant: tsleep() has no timeout and does not catch signals.
SleepForever(t) == FALSE

\* A signal, or hz ticks without an interrupt.
SleepTimeout(t) ==
  /\ pc[t] = "sleep"
  /\ Goto(t, "user")
  /\ UNCHANGED <<devvars, irqvars, node, cnt, pdev, panic>>

WaitReturn(t) ==
  /\ pc[t] = "woken"
  /\ Goto(t, "user")
  /\ UNCHANGED <<devvars, irqvars, node, cnt, pdev, panic>>

\* vsync_interrupt().  The line is shared and the filter does not ask
\* test_vsync(), so it runs on interrupts of other devices too.
Interrupt(i) ==
  /\ handlers[i] > 0
  /\ pc' = [t \in Threads |-> IF pc[t] = "sleep" /\ node[t] = i
                              THEN "woken" ELSE pc[t]]
  /\ UNCHANGED <<devvars, irqvars, node, cnt, pdev, panic>>

(***************************************************************************)
(* svga_ioctl(): port and configuration space access; svga_mmap().         *)
(***************************************************************************)

\* Mutant: get_dev() also accepts the index that is being filled.
GetDevOneMore(n) == IF n = 0 THEN 1 .. num_devices ELSE {n}

\* What get_dev() can return: an adapter returns itself, slot 0 the adapter
\* whose number the caller gives.
get_dev(n) == IF n = 0 THEN 1 .. num_devices - 1 ELSE {n}

\* The OUT, IN, READ, WRITE and REPOUTB commands use the softc of the node,
\* the PCI commands the one get_dev() returns.
IoctlEnter(t) ==
  /\ MayCall(t)
  /\ \E s \in {node[t]} \cup get_dev(node[t]) :
       pdev' = [pdev EXCEPT ![t] = s]
  /\ Goto(t, "config")
  /\ UNCHANGED <<devvars, irqvars, node, cnt, panic>>

IoctlDone(t) ==
  /\ pc[t] = "config"
  /\ pdev' = [pdev EXCEPT ![t] = None]
  /\ Goto(t, "user")
  /\ UNCHANGED <<devvars, irqvars, node, cnt, panic>>

\* check_mem() on slot 0 tries every adapter in turn.
MmapEnter(t) ==
  /\ MayCall(t)
  /\ IF node[t] = 0
     THEN 1 < num_devices /\ pdev' = [pdev EXCEPT ![t] = 1]
     ELSE pdev' = [pdev EXCEPT ![t] = node[t]]
  /\ Goto(t, "mmap")
  /\ UNCHANGED <<devvars, irqvars, node, cnt, panic>>

MmapNext(t) ==
  /\ pc[t] = "mmap" /\ node[t] = 0 /\ pdev[t] + 1 < num_devices
  /\ pdev' = [pdev EXCEPT ![t] = @ + 1]
  /\ UNCHANGED <<devvars, irqvars, pc, node, cnt, panic>>

\* The window is found, or there is no further adapter.
MmapDone(t) ==
  /\ pc[t] = "mmap"
  /\ pdev' = [pdev EXCEPT ![t] = None]
  /\ Goto(t, "user")
  /\ UNCHANGED <<devvars, irqvars, node, cnt, panic>>

CallNext(t) ==
  \/ OpenEnter(t) \/ CloseEnter(t) \/ WaitEnter(t) \/ WaitAll(t)
  \/ IoctlEnter(t) \/ MmapEnter(t)

KernelNext(t) ==
  \/ OpenNoSoftc(t) \/ OpenLoad(t) \/ OpenStore(t) \/ OpenTest(t)
  \/ CloseLoad(t) \/ CloseStore(t) \/ CloseTest(t) \/ CloseClear(t)
  \/ WaitSleep(t) \/ SleepTimeout(t) \/ WaitReturn(t)
  \/ IoctlDone(t) \/ MmapNext(t) \/ MmapDone(t)

Running == panic = "none"

Next ==
  /\ Running
  /\ \/ LoaderNext
     \/ \E t \in Threads : CallNext(t) \/ KernelNext(t)
     \/ \E i \in Slots : Interrupt(i)

Spec == Init /\ [][Next]_vars

\* The kernel schedules a thread that is inside a call, tsleep() times out,
\* and the thread that runs the module event handler is scheduled too once
\* it has begun.  Nothing forces a process to call, a module to be loaded or
\* unloaded, or an interrupt to come.
LoaderSteps == Running /\ LoaderNext /\ loader \notin {"idle", "up"}
Fairness ==
  /\ WF_vars(LoaderSteps)
  /\ \A t \in Threads : WF_vars(Running /\ KernelNext(t))
FairSpec == Spec /\ Fairness

(***************************************************************************)
(* Properties.                                                             *)
(***************************************************************************)

TypeOK ==
  /\ sh_pci_devs \subseteq Slots /\ num_devices \in 0 .. MaxPci + 1
  /\ cdev \subseteq Slots /\ irqresource \subseteq Slots
  /\ resource \subseteq Slots /\ irqcookie \subseteq Slots
  /\ opencount \in [Slots -> Int] /\ handlers \in [Slots -> Int]
  /\ refused \subseteq Slots /\ raced \subseteq Slots
  /\ si_drv1 \subseteq Slots /\ named \subseteq Slots
  /\ held \subseteq Slots
  /\ loader \in LoaderPcs /\ cur \in 0 .. MaxPci + 1
  /\ pc \in [Threads -> ThreadPcs] /\ node \in [Threads -> Slots \cup {None}]
  /\ cnt \in [Threads -> Int] /\ pdev \in [Threads -> Slots \cup {None}]
  /\ panic \in {"none", "destroy_null", "wait_all"}

\* The softcs a method holds once it has found the one of its node.
Holds(t) ==
  IF pc[t] \in {"user", "open"} THEN {}
  ELSE IF pdev[t] = None THEN {node[t]} ELSE {node[t], pdev[t]}

\* The softcs a thread dereferences at its next step: svga_open() looks for the
\* node's own in si_drv1.
Touches(t) == IF pc[t] = "open" THEN {node[t]} \cap si_drv1 ELSE Holds(t)

\* No method of the driver touches a softc that was not allocated yet or was
\* freed, whatever the overlap of open, close, ioctl and mmap with the module
\* being loaded and unloaded: svga_load() destroys and drains a node before it
\* frees the softc, and slot 0, whose users reach every other softc, first.
NoUseAfterFree == \A t \in Threads : Touches(t) \subseteq sh_pci_devs

\* No method works on an adapter whose vga_init_vsync() has not returned:
\* num_devices and the device node are published after it.
NoEarlyUse ==
  \A t \in Threads : loader \in {"init", "failed"} => cur \notin Touches(t)

\* The four properties of the handler are about a node up to the first open
\* that races for its count; from then on each of them fails in this code.

\* The interrupt filter never runs on a freed softc: the count that decides who
\* installs and who removes it stays right over any sequence of opens, closes,
\* refusals, harmless overlaps and unloads.
HandlerOwnsSoftc ==
  \A i \in Slots \ raced : handlers[i] > 0 => i \in sh_pci_devs

\* A handler never loses the cookie that can remove it, and is never removed
\* twice (svga_open, svga_close and MOD_UNLOAD all decide by irqcookie).
NoLeakedHandler ==
  \A i \in Slots \ raced :
    handlers[i] \in {0, 1} /\ (handlers[i] = 1 => i \in irqcookie)

\* A process that sleeps in WAITRETRACE sleeps on a device whose handler is
\* installed: nothing removes it while the process is inside the driver.
SleeperHasHandler ==
  \A t \in Threads :
    pc[t] = "sleep" /\ node[t] \notin raced => handlers[node[t]] > 0

\* After an open that succeeded, WAITRETRACE on an adapter with an interrupt
\* really waits: the handler is there for as long as the file is open.  When
\* the bus refused it to the first opener, none of the later ones has it, and
\* no cookie says that there is one.
OpenHasHandler ==
  \A t \in Threads :
    /\ node[t] \in (named \cap irqresource) \ raced /\ ~InOpenClose(node[t])
    => IF node[t] \in refused
       THEN node[t] \notin irqcookie /\ handlers[node[t]] = 0
       ELSE node[t] \in irqcookie /\ handlers[node[t]] = 1

\* A BAR goes back to the bus exactly once, and none is kept by an unloaded
\* module.
BarReleased ==
  /\ loader = "release" /\ cur \in resource => cur \in held
  /\ loader = "down" => held = {} /\ sh_pci_devs = {}

\* WAITRETRACE on slot 0 waits for an interrupt of any adapter, as the comment
\* in svga_ioctl has it, and does not stop the kernel.
WaitsForAnyVsync == panic # "wait_all"

\* WAITRETRACE on an adapter returns, interrupt or not.
WaitReturns ==
  \A t \in Threads : pc[t] = "wait" ~> (pc[t] = "user" \/ ~Running)

\* Unloading ends although processes are inside the driver: destroy_dev()
\* lets nobody in any more and everyone inside leaves.
UnloadCompletes == loader = "un_dev" ~> (loader = "down" \/ ~Running)

\* The driver implements SoftcLifetime: loading creates the softcs, the steps
\* of a thread change what that thread holds and nothing else, and unloading
\* destroys only what nobody holds.
Lifetime == INSTANCE SoftcLifetime WITH
  Softcs <- Slots, live <- sh_pci_devs, holds <- [t \in Threads |-> Holds(t)]
ImplementsLifetime == Lifetime!Spec
=============================================================================
