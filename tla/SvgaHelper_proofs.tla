------------------------- MODULE SvgaHelper_proofs -------------------------
(***************************************************************************)
(* Theorems about SvgaHelper and their proofs, for every number of         *)
(* threads and adapters, with overlapping opens and closes and failing     *)
(* resources.                                                              *)
(***************************************************************************)
EXTENDS SvgaHelper, TLAPS

\* The phases before MOD_UNLOAD starts; in the others cur is the index the
\* unload loop has reached.
Loading == {"mkdev", "made", "scan", "init", "failed", "up"}
Unloading == {"un_dev", "drain", "teardown", "release", "down"}

\* While the module loads: what is allocated, and what is published.
LoadInv ==
  /\ loader = "idle" =>
       sh_pci_devs = {} /\ named = {} /\ num_devices = 0 /\ cur = 0
  /\ loader # "idle" => num_devices >= 1
  /\ loader \in Loading => 0 .. num_devices - 1 \subseteq sh_pci_devs
  /\ loader \in Loading /\ loader # "made" => named \subseteq 0 .. num_devices - 1
  /\ loader = "made" => named \subseteq (0 .. num_devices - 1) \cup {cur}
  /\ loader \in {"mkdev", "made"} =>
       cur \in sh_pci_devs /\ (cur = 0 \/ cur = num_devices)
  /\ loader \in {"init", "failed"} => cur \in sh_pci_devs /\ cur = num_devices

\* While it unloads: which nodes are gone, and that nothing reachable through
\* slot 0 is freed before node 0 is gone.
UnloadInv ==
  /\ loader \in Unloading => named \cap (0 .. cur - 1) = {}
  /\ loader \in {"drain", "teardown", "release"} =>
       cur \notin named /\ cur \in sh_pci_devs
  /\ loader \in Unloading /\ cur = 0 => 0 .. num_devices - 1 \subseteq sh_pci_devs
  /\ loader = "un_dev" => cur \in Slots
  /\ loader = "down" => cur = MaxPci + 1

\* A thread inside the driver went in through a node that still exists, or
\* destroy_dev() is waiting for it.
InsideInv ==
  \A t \in Threads : pc[t] # "user" =>
    \/ node[t] \in named
    \/ loader = "drain" /\ node[t] = cur

\* The device that an ioctl or mmap works on is the node's own, or one that
\* slot 0 reaches.
PdevInv ==
  \A t \in Threads :
    /\ pdev[t] # None => pc[t] \in {"config", "mmap"}
    /\ pc[t] = "mmap" => pdev[t] # None
    /\ pdev[t] # None =>
         pdev[t] = node[t] \/ (node[t] = 0 /\ pdev[t] \in 1 .. num_devices - 1)

IInv ==
  /\ TypeOK
  /\ named \subseteq sh_pci_devs
  /\ LoadInv /\ UnloadInv /\ InsideInv /\ PdevInv

\* The invariant holds before the module is loaded (static storage).
LEMMA InitIInv == Init => IInv
  BY PciAssumption DEF Init, IInv, TypeOK, LoadInv, UnloadInv, InsideInv, PdevInv, Slots, None,
     Loading, Unloading, LoaderPcs, ThreadPcs

\* A thread inside the driver has a node open.
LEMMA InsideNode ==
  ASSUME IInv, NEW t \in Threads, pc[t] # "user"
  PROVE  node[t] \in Slots
  BY DEF IInv, TypeOK, UnloadInv, InsideInv

\* Every step of the module event handler keeps the types.
LEMMA LoaderType ==
  ASSUME IInv, LoaderNext
  PROVE  TypeOK'
<1>a. TypeOK
  BY DEF IInv
<1>b. loader \in {"mkdev", "made"} => cur \in Slots /\ (cur = 0 \/ cur = num_devices)
  BY DEF IInv, TypeOK, LoadInv
<1>c. loader \in {"un_dev", "drain", "teardown", "release"} => cur \in Slots
  BY DEF IInv, TypeOK, UnloadInv
<1>d. loader = "init" => cur \in Slots
  BY DEF IInv, TypeOK, LoadInv
<1>e. cur \in Slots => handlers[cur] - 1 \in Int
  BY <1>a DEF TypeOK
<1>f. cur \in Slots => cur + 1 \in 0 .. MaxPci + 1
  BY PciAssumption DEF Slots
<1>g. loader = "made" /\ cur > 0 => num_devices + 1 \in 0 .. MaxPci + 1
  BY <1>b, <1>f
<1>h. 0 \in Slots /\ {0, 1} \subseteq 0 .. MaxPci + 1
  BY PciAssumption DEF Slots
<1>i. num_devices <= MaxPci => num_devices \in Slots
  BY <1>a DEF TypeOK, Slots
<1> USE DEF TypeOK, LoaderPcs, devvars, irqvars, thrvars
<1>1. CASE LoadBegin
  BY <1>a, <1>h, <1>1 DEF LoadBegin
<1>2. CASE LoadMakeDev
  BY <1>a, <1>b, <1>2 DEF LoadMakeDev
<1>3. CASE LoadSetDrv1
  BY <1>a, <1>b, <1>g, <1>3 DEF LoadSetDrv1
<1>4. CASE LoadScan
  BY <1>a, <1>i, <1>f, <1>4 DEF LoadScan
<1>5. CASE LoadInitOk
  BY <1>a, <1>d, <1>5 DEF LoadInitOk
<1>6. CASE LoadInitFail
  BY <1>a, <1>d, <1>6 DEF LoadInitFail
<1>7. CASE LoadDone
  BY <1>a, <1>7 DEF LoadDone
<1>8. CASE UnloadBegin
  BY <1>a, <1>h, <1>8 DEF UnloadBegin
<1>9. CASE UnloadSkip
  BY <1>a, <1>c, <1>f, <1>9 DEF UnloadSkip, Advance
<1>10. CASE UnloadDestroy
  BY <1>a, <1>10 DEF UnloadDestroy
<1>11. CASE UnloadDestroyNull
  BY <1>a, <1>11 DEF UnloadDestroyNull
<1>12. CASE UnloadDrain
  BY <1>a, <1>12 DEF UnloadDrain, Inside
<1>13. CASE UnloadTeardown
  BY <1>a, <1>c, <1>e, <1>13 DEF UnloadTeardown
<1>14. CASE UnloadRelease
  BY <1>a, <1>c, <1>f, <1>14 DEF UnloadRelease, Advance
<1>q. QED
  BY <1>1, <1>2, <1>3, <1>4, <1>5, <1>6, <1>7, <1>8, <1>9, <1>10, <1>11, <1>12, <1>13, <1>14 DEF LoaderNext

\* Every step of a cdev method keeps the types.
LEMMA ThreadType ==
  ASSUME IInv, NEW t \in Threads, CallNext(t) \/ KernelNext(t)
  PROVE  TypeOK'
<1>a. TypeOK
  BY DEF IInv
<1>b. pc[t] # "user" => node[t] \in Slots
  BY InsideNode
<1>c. pc[t] = "mmap" => pdev[t] \in Slots
  BY DEF IInv, TypeOK, PdevInv
<1>d. node[t] \in Slots => opencount[node[t]] \in Int /\ handlers[node[t]] \in Int
  BY <1>a DEF TypeOK
<1>e. \A i \in 1 .. num_devices - 1 : i \in Slots
  BY <1>a, PciAssumption DEF TypeOK, Slots
<1>f. pc[t] = "mmap" /\ pdev[t] + 1 < num_devices => pdev[t] + 1 \in Slots
  BY <1>a, <1>c, PciAssumption DEF TypeOK, Slots
<1>g. 1 < num_devices => 1 \in Slots
  BY <1>a, <1>e DEF TypeOK
<1> USE DEF TypeOK, ThreadPcs, OpenClosePcs, Goto, MayCall, devvars, irqvars, thrvars
<1>1. CASE OpenEnter(t)
  BY <1>a, <1>1 DEF OpenEnter
<1>2. CASE CloseEnter(t)
  BY <1>a, <1>2 DEF CloseEnter
<1>3. CASE WaitEnter(t)
  BY <1>a, <1>3 DEF WaitEnter
<1>4. CASE WaitAll(t)
  BY <1>a, <1>4 DEF WaitAll
<1>5. CASE IoctlEnter(t)
  BY <1>a, <1>e, <1>5 DEF IoctlEnter, get_dev
<1>6. CASE MmapEnter(t)
  BY <1>a, <1>g, <1>6 DEF MmapEnter
<1>7. CASE OpenNoSoftc(t)
  BY <1>a, <1>b, <1>d, <1>7 DEF OpenNoSoftc
<1>8. CASE OpenLoad(t)
  BY <1>a, <1>b, <1>d, <1>8 DEF OpenLoad
<1>9. CASE OpenStore(t)
  BY <1>a, <1>b, <1>d, <1>9 DEF OpenStore
<1>10. CASE OpenTest(t)
  BY <1>a, <1>b, <1>d, <1>10 DEF OpenTest, Compared
<1>11. CASE CloseLoad(t)
  BY <1>a, <1>b, <1>d, <1>11 DEF CloseLoad
<1>12. CASE CloseStore(t)
  BY <1>a, <1>b, <1>d, <1>12 DEF CloseStore
<1>13. CASE CloseTest(t)
  BY <1>a, <1>b, <1>d, <1>13 DEF CloseTest, Compared
<1>14. CASE CloseClear(t)
  BY <1>a, <1>b, <1>d, <1>14 DEF CloseClear
<1>15. CASE WaitSleep(t)
  BY <1>a, <1>15 DEF WaitSleep
<1>16. CASE SleepTimeout(t)
  BY <1>a, <1>16 DEF SleepTimeout
<1>17. CASE WaitReturn(t)
  BY <1>a, <1>17 DEF WaitReturn
<1>18. CASE IoctlDone(t)
  BY <1>a, <1>18 DEF IoctlDone
<1>19. CASE MmapNext(t)
  BY <1>a, <1>f, <1>19 DEF MmapNext
<1>20. CASE MmapDone(t)
  BY <1>a, <1>20 DEF MmapDone
<1>q. QED
  BY <1>1, <1>2, <1>3, <1>4, <1>5, <1>6, <1>7, <1>8, <1>9, <1>10, <1>11, <1>12, <1>13, <1>14, <1>15, <1>16, <1>17, <1>18, <1>19, <1>20 DEF CallNext, KernelNext

\* check_mem() stays within the adapters that slot 0 reaches.
LEMMA MmapPdev ==
  ASSUME IInv, NEW t \in Threads, MmapNext(t)
  PROVE  PdevInv'
<1>1. pdev[t] \in Slots /\ num_devices \in Int
  BY DEF MmapNext, IInv, TypeOK, PdevInv
<1>2. pdev[t] + 1 \in 1 .. num_devices - 1 /\ pdev[t] + 1 # None
  BY <1>1, PciAssumption DEF MmapNext, Slots, None
<1>3. pdev' = [pdev EXCEPT ![t] = pdev[t] + 1]
  BY DEF MmapNext
<1>4. pdev'[t] = pdev[t] + 1 /\ \A u \in Threads : u # t => pdev'[u] = pdev[u]
  BY <1>3 DEF IInv, TypeOK
<1>q. QED
  BY <1>2, <1>4 DEF MmapNext, IInv, PdevInv, devvars

\* svga_load() keeps the invariant: it publishes a softc after it is ready
\* and frees it after its node is gone.
LEMMA LoaderStep ==
  ASSUME IInv, LoaderNext
  PROVE  IInv'
<1>t. TypeOK'
  BY LoaderType
<1> USE PciAssumption DEF IInv, TypeOK, LoadInv, UnloadInv, InsideInv, PdevInv,
        Loading, Unloading, LoaderPcs, Slots, None, devvars, irqvars, thrvars
<1>1. CASE LoadBegin
  <2>1. (named \subseteq sh_pci_devs)'
    BY <1>1, <1>t DEF LoadBegin
  <2>2. LoadInv'
    BY <1>1, <1>t DEF LoadBegin
  <2>3. UnloadInv'
    BY <1>1, <1>t DEF LoadBegin
  <2>4. InsideInv'
    BY <1>1, <1>t DEF LoadBegin
  <2>5. PdevInv'
    BY <1>1, <1>t DEF LoadBegin
  <2>q. QED
    BY <1>t, <2>1, <2>2, <2>3, <2>4, <2>5
<1>2. CASE LoadMakeDev
  BY <1>2, <1>t DEF LoadMakeDev
<1>3. CASE LoadSetDrv1
  <2>1. (named \subseteq sh_pci_devs)'
    BY <1>3, <1>t DEF LoadSetDrv1
  <2>2. LoadInv'
    BY <1>3, <1>t DEF LoadSetDrv1
  <2>3. UnloadInv'
    BY <1>3, <1>t DEF LoadSetDrv1
  <2>4. InsideInv'
    BY <1>3, <1>t DEF LoadSetDrv1
  <2>5. PdevInv'
    BY <1>3, <1>t DEF LoadSetDrv1
  <2>q. QED
    BY <1>t, <2>1, <2>2, <2>3, <2>4, <2>5
<1>4. CASE LoadScan
  BY <1>4, <1>t DEF LoadScan
<1>5. CASE LoadInitOk
  BY <1>5, <1>t DEF LoadInitOk
<1>6. CASE LoadInitFail
  BY <1>6, <1>t DEF LoadInitFail
<1>7. CASE LoadDone
  BY <1>7, <1>t DEF LoadDone
<1>8. CASE UnloadBegin
  <2>1. (named \subseteq sh_pci_devs)'
    BY <1>8, <1>t DEF UnloadBegin
  <2>2. LoadInv'
    BY <1>8, <1>t DEF UnloadBegin
  <2>3. UnloadInv'
    BY <1>8, <1>t DEF UnloadBegin
  <2>4. InsideInv'
    BY <1>8, <1>t DEF UnloadBegin
  <2>5. PdevInv'
    BY <1>8, <1>t DEF UnloadBegin
  <2>q. QED
    BY <1>t, <2>1, <2>2, <2>3, <2>4, <2>5
<1>9. CASE UnloadSkip
  <2>1. (named \subseteq sh_pci_devs)'
    BY <1>9, <1>t DEF UnloadSkip, Advance
  <2>2. LoadInv'
    BY <1>9, <1>t DEF UnloadSkip, Advance
  <2>3. UnloadInv'
    BY <1>9, <1>t DEF UnloadSkip, Advance
  <2>4. InsideInv'
    BY <1>9, <1>t DEF UnloadSkip, Advance
  <2>5. PdevInv'
    BY <1>9, <1>t DEF UnloadSkip, Advance
  <2>q. QED
    BY <1>t, <2>1, <2>2, <2>3, <2>4, <2>5
<1>10. CASE UnloadDestroy
  BY <1>10, <1>t DEF UnloadDestroy
<1>11. CASE UnloadDestroyNull
  BY <1>11, <1>t DEF UnloadDestroyNull
<1>12. CASE UnloadDrain
  BY <1>12, <1>t DEF UnloadDrain, Inside
<1>13. CASE UnloadTeardown
  BY <1>13, <1>t DEF UnloadTeardown
<1>14. CASE UnloadRelease
  <2>1. (named \subseteq sh_pci_devs)'
    BY <1>14, <1>t DEF UnloadRelease, Advance
  <2>2. LoadInv'
    BY <1>14, <1>t DEF UnloadRelease, Advance
  <2>3. UnloadInv'
    BY <1>14, <1>t DEF UnloadRelease, Advance
  <2>4. InsideInv'
    BY <1>14, <1>t DEF UnloadRelease, Advance
  <2>5. PdevInv'
    BY <1>14, <1>t DEF UnloadRelease, Advance
  <2>q. QED
    BY <1>t, <2>1, <2>2, <2>3, <2>4, <2>5
<1>q. QED
  BY <1>1, <1>2, <1>3, <1>4, <1>5, <1>6, <1>7, <1>8, <1>9, <1>10, <1>11, <1>12, <1>13, <1>14 DEF LoaderNext

\* The cdev methods keep the invariant.
LEMMA ThreadStep ==
  ASSUME IInv, NEW t \in Threads, CallNext(t) \/ KernelNext(t)
  PROVE  IInv'
<1>t. TypeOK'
  BY ThreadType
<1> USE PciAssumption DEF IInv, TypeOK, LoadInv, UnloadInv, InsideInv, PdevInv,
        Loading, Unloading, ThreadPcs, OpenClosePcs, Slots, None, Goto, MayCall, devvars, irqvars, thrvars
<1>1. CASE OpenEnter(t)
  <2>1. (named \subseteq sh_pci_devs)'
    BY <1>1, <1>t DEF OpenEnter
  <2>2. LoadInv'
    BY <1>1, <1>t DEF OpenEnter
  <2>3. UnloadInv'
    BY <1>1, <1>t DEF OpenEnter
  <2>4. InsideInv'
    BY <1>1, <1>t DEF OpenEnter
  <2>5. PdevInv'
    BY <1>1, <1>t DEF OpenEnter
  <2>q. QED
    BY <1>t, <2>1, <2>2, <2>3, <2>4, <2>5
<1>2. CASE CloseEnter(t)
  BY <1>2, <1>t DEF CloseEnter
<1>3. CASE WaitEnter(t)
  BY <1>3, <1>t DEF WaitEnter
<1>4. CASE WaitAll(t)
  BY <1>4, <1>t DEF WaitAll
<1>5. CASE IoctlEnter(t)
  <2>1. (named \subseteq sh_pci_devs)'
    BY <1>5, <1>t DEF IoctlEnter, get_dev
  <2>2. LoadInv'
    BY <1>5, <1>t DEF IoctlEnter, get_dev
  <2>3. UnloadInv'
    BY <1>5, <1>t DEF IoctlEnter, get_dev
  <2>4. InsideInv'
    BY <1>5, <1>t DEF IoctlEnter, get_dev
  <2>5. PdevInv'
    BY <1>5, <1>t DEF IoctlEnter, get_dev
  <2>q. QED
    BY <1>t, <2>1, <2>2, <2>3, <2>4, <2>5
<1>6. CASE MmapEnter(t)
  <2>1. (named \subseteq sh_pci_devs)'
    BY <1>6, <1>t DEF MmapEnter
  <2>2. LoadInv'
    BY <1>6, <1>t DEF MmapEnter
  <2>3. UnloadInv'
    BY <1>6, <1>t DEF MmapEnter
  <2>4. InsideInv'
    BY <1>6, <1>t DEF MmapEnter
  <2>5. PdevInv'
    BY <1>6, <1>t DEF MmapEnter
  <2>q. QED
    BY <1>t, <2>1, <2>2, <2>3, <2>4, <2>5
<1>7. CASE OpenNoSoftc(t)
  BY <1>7, <1>t DEF OpenNoSoftc
<1>8. CASE OpenLoad(t)
  BY <1>8, <1>t DEF OpenLoad
<1>9. CASE OpenStore(t)
  BY <1>9, <1>t DEF OpenStore
<1>10. CASE OpenTest(t)
  <2>1. (named \subseteq sh_pci_devs)'
    BY <1>10, <1>t DEF OpenTest, Compared
  <2>2. LoadInv'
    BY <1>10, <1>t DEF OpenTest, Compared
  <2>3. UnloadInv'
    BY <1>10, <1>t DEF OpenTest, Compared
  <2>4. InsideInv'
    BY <1>10, <1>t DEF OpenTest, Compared
  <2>5. PdevInv'
    BY <1>10, <1>t DEF OpenTest, Compared
  <2>q. QED
    BY <1>t, <2>1, <2>2, <2>3, <2>4, <2>5
<1>11. CASE CloseLoad(t)
  BY <1>11, <1>t DEF CloseLoad
<1>12. CASE CloseStore(t)
  BY <1>12, <1>t DEF CloseStore
<1>13. CASE CloseTest(t)
  <2>1. (named \subseteq sh_pci_devs)'
    BY <1>13, <1>t DEF CloseTest, Compared
  <2>2. LoadInv'
    BY <1>13, <1>t DEF CloseTest, Compared
  <2>3. UnloadInv'
    BY <1>13, <1>t DEF CloseTest, Compared
  <2>4. InsideInv'
    BY <1>13, <1>t DEF CloseTest, Compared
  <2>5. PdevInv'
    <3>1. pdev' = pdev /\ num_devices' = num_devices /\ pdev[t] = None
      BY <1>13, <1>t DEF CloseTest
    <3>2. \A u \in Threads \ {t} : pc'[u] = pc[u] /\ node'[u] = node[u]
      BY <1>13, <1>t DEF CloseTest, Compared
    <3>3. pc'[t] \in {"user", "close_clear"}
      BY <1>13, <1>t DEF CloseTest, Compared
    <3>q. QED
      BY <1>t, <3>1, <3>2, <3>3
  <2>q. QED
    BY <1>t, <2>1, <2>2, <2>3, <2>4, <2>5
<1>14. CASE CloseClear(t)
  BY <1>14, <1>t DEF CloseClear
<1>15. CASE WaitSleep(t)
  BY <1>15, <1>t DEF WaitSleep
<1>16. CASE SleepTimeout(t)
  BY <1>16, <1>t DEF SleepTimeout
<1>17. CASE WaitReturn(t)
  BY <1>17, <1>t DEF WaitReturn
<1>18. CASE IoctlDone(t)
  BY <1>18, <1>t DEF IoctlDone
<1>19. CASE MmapNext(t)
  <2>1. (named \subseteq sh_pci_devs)'
    BY <1>19, <1>t DEF MmapNext
  <2>2. LoadInv'
    BY <1>19, <1>t DEF MmapNext
  <2>3. UnloadInv'
    BY <1>19, <1>t DEF MmapNext
  <2>4. InsideInv'
    BY <1>19, <1>t DEF MmapNext
  <2>5. PdevInv'
    BY <1>19, MmapPdev
  <2>q. QED
    BY <1>t, <2>1, <2>2, <2>3, <2>4, <2>5
<1>20. CASE MmapDone(t)
  BY <1>20, <1>t DEF MmapDone
<1>q. QED
  BY <1>1, <1>2, <1>3, <1>4, <1>5, <1>6, <1>7, <1>8, <1>9, <1>10, <1>11, <1>12, <1>13, <1>14, <1>15, <1>16, <1>17, <1>18, <1>19, <1>20 DEF CallNext, KernelNext

\* The interrupt filter keeps the invariant: it only wakes sleepers.
LEMMA InterruptStep ==
  ASSUME IInv, NEW i \in Slots, Interrupt(i)
  PROVE  IInv'
<1>1. \A t \in Threads : pc'[t] = pc[t] \/ (pc[t] = "sleep" /\ pc'[t] = "woken")
  BY DEF Interrupt, IInv, TypeOK
<1>2. TypeOK'
  BY <1>1 DEF Interrupt, IInv, TypeOK, ThreadPcs, devvars, irqvars
<1>3. InsideInv' /\ PdevInv'
  BY <1>1 DEF Interrupt, IInv, TypeOK, InsideInv, PdevInv, devvars
<1>q. QED
  BY <1>2, <1>3 DEF Interrupt, IInv, LoadInv, UnloadInv, devvars

\* The invariant is inductive.
LEMMA NextIInv == IInv /\ [Next]_vars => IInv'
<1> SUFFICES ASSUME IInv, [Next]_vars PROVE IInv'
  OBVIOUS
<1>1. CASE LoaderNext
  BY <1>1, LoaderStep
<1>2. ASSUME NEW t \in Threads, CallNext(t) \/ KernelNext(t) PROVE IInv'
  BY <1>2, ThreadStep
<1>3. ASSUME NEW i \in Slots, Interrupt(i) PROVE IInv'
  BY <1>3, InterruptStep
<1>4. CASE UNCHANGED vars
  BY <1>4 DEF vars, devvars, irqvars, thrvars, IInv, TypeOK, LoadInv, UnloadInv,
     InsideInv, PdevInv
<1>q. QED
  BY <1>1, <1>2, <1>3, <1>4 DEF Next

\* The inductive invariant holds in every reachable state.
THEOREM Invariance == Spec => []IInv
  BY InitIInv, NextIInv, PTL DEF Spec

\* Every variable keeps its type.
THEOREM TypeCorrect == Spec => []TypeOK
<1>1. IInv => TypeOK
  BY DEF IInv
<1>q. QED
  BY <1>1, Invariance, PTL

\* While a thread is inside node 0, every published adapter is allocated.
LEMMA RootReaches ==
  ASSUME IInv, NEW t \in Threads, pc[t] # "user", node[t] = 0
  PROVE  0 .. num_devices - 1 \subseteq sh_pci_devs
<1>1. loader # "idle"
  BY DEF IInv, LoadInv, InsideInv
<1>2. loader \in Loading \/ loader \in Unloading
  BY <1>1 DEF IInv, TypeOK, LoaderPcs, Loading, Unloading
<1>3. CASE loader \in Loading
  BY <1>3 DEF IInv, LoadInv
<1>4. CASE loader \in Unloading
  <2>1. cur = 0
    BY <1>4, PciAssumption DEF IInv, TypeOK, UnloadInv, InsideInv, Slots
  <2>q. QED
    BY <1>4, <2>1 DEF IInv, UnloadInv
<1>q. QED
  BY <1>2, <1>3, <1>4

\* In a state of the invariant, what a method holds is allocated.
HeldLive == \A t \in Threads : Holds(t) \subseteq sh_pci_devs
LEMMA HoldsLive == IInv => HeldLive
<1> SUFFICES ASSUME IInv, NEW t \in Threads, pc[t] # "user"
             PROVE  Holds(t) \subseteq sh_pci_devs
  BY DEF HeldLive, Holds
<1>1. node[t] \in sh_pci_devs
  BY DEF IInv, InsideInv, UnloadInv
<1>2. pdev[t] # None => pdev[t] \in sh_pci_devs
  BY <1>1, RootReaches DEF IInv, TypeOK, PdevInv
<1>q. QED
  BY <1>1, <1>2 DEF Holds

\* A node leads to its softc only while that is allocated, and to none of an
\* adapter that vga_init_vsync() has not finished.
DrvInv ==
  /\ si_drv1 \subseteq sh_pci_devs
  /\ loader = "idle" => si_drv1 = {}
  /\ loader \in Loading => si_drv1 \subseteq 0 .. num_devices - 1
  /\ loader \in {"teardown", "release"} => cur \notin si_drv1

\* svga_load() sets si_drv1 after the softc is ready, and destroy_dev() clears
\* it before the softc is freed.
LEMMA LoaderDrv ==
  ASSUME IInv, DrvInv, LoaderNext
  PROVE  DrvInv'
<1> USE DEF IInv, TypeOK, LoadInv, UnloadInv, DrvInv, Loading, Unloading, Slots, devvars
<1>1. CASE LoadBegin
  BY <1>1 DEF LoadBegin
<1>2. CASE LoadMakeDev
  BY <1>2 DEF LoadMakeDev
<1>3. CASE LoadSetDrv1
  BY <1>3 DEF LoadSetDrv1
<1>4. CASE LoadScan
  BY <1>4 DEF LoadScan
<1>5. CASE LoadInitOk
  BY <1>5 DEF LoadInitOk
<1>6. CASE LoadInitFail
  BY <1>6 DEF LoadInitFail
<1>7. CASE LoadDone
  BY <1>7 DEF LoadDone
<1>8. CASE UnloadBegin
  BY <1>8 DEF UnloadBegin
<1>9. CASE UnloadSkip
  BY <1>9 DEF UnloadSkip, Advance
<1>10. CASE UnloadDestroy
  BY <1>10 DEF UnloadDestroy
<1>11. CASE UnloadDestroyNull
  BY <1>11 DEF UnloadDestroyNull
<1>12. CASE UnloadDrain
  BY <1>12 DEF UnloadDrain
<1>13. CASE UnloadTeardown
  BY <1>13 DEF UnloadTeardown
<1>14. CASE UnloadRelease
  BY <1>14 DEF UnloadRelease, Advance
<1>q. QED
  BY <1>1, <1>2, <1>3, <1>4, <1>5, <1>6, <1>7, <1>8, <1>9, <1>10, <1>11, <1>12,
     <1>13, <1>14 DEF LoaderNext

\* A step of a thread leaves the devices alone.
LEMMA ThreadDevs ==
  ASSUME NEW t \in Threads, CallNext(t) \/ KernelNext(t)
  PROVE  UNCHANGED devvars
  BY DEF CallNext, KernelNext, OpenEnter, CloseEnter, WaitEnter, WaitAll, IoctlEnter,
     MmapEnter, OpenNoSoftc, OpenLoad, OpenStore, OpenTest, CloseLoad, CloseStore,
     CloseTest, CloseClear, WaitSleep, SleepTimeout, WaitReturn, IoctlDone, MmapNext,
     MmapDone

\* The two invariants together are inductive.
LEMMA Published == Spec => [](IInv /\ DrvInv)
<1>1. Init => IInv /\ DrvInv
  BY InitIInv DEF Init, DrvInv, Loading
<1>2. (IInv /\ DrvInv) /\ [Next]_vars => (IInv /\ DrvInv)'
  <2> SUFFICES ASSUME IInv, DrvInv, [Next]_vars PROVE DrvInv'
    BY NextIInv
  <2>1. CASE LoaderNext
    BY <2>1, LoaderDrv
  <2>2. ASSUME NEW t \in Threads, CallNext(t) \/ KernelNext(t) PROVE DrvInv'
    BY <2>2, ThreadDevs DEF DrvInv, devvars
  <2>3. ASSUME NEW i \in Slots, Interrupt(i) PROVE DrvInv'
    BY <2>3 DEF Interrupt, DrvInv, devvars
  <2>4. CASE UNCHANGED vars
    BY <2>4 DEF vars, devvars, DrvInv
  <2>q. QED
    BY <2>1, <2>2, <2>3, <2>4 DEF Next
<1>q. QED
  BY <1>1, <1>2, PTL DEF Spec

\* No method of the driver touches a softc that is not allocated (svga_open,
\* svga_close, svga_ioctl, svga_mmap against svga_load).
THEOREM UseAfterFree == Spec => []NoUseAfterFree
<1>1. IInv /\ DrvInv => NoUseAfterFree
  BY HoldsLive DEF HeldLive, NoUseAfterFree, Touches, DrvInv
<1>q. QED
  BY <1>1, Published, PTL

\* No method works on an adapter that vga_init_vsync() has not finished.
THEOREM EarlyUse == Spec => []NoEarlyUse
<1>1. IInv /\ DrvInv => NoEarlyUse
  <2> SUFFICES ASSUME IInv, DrvInv, NEW t \in Threads, loader \in {"init", "failed"}
               PROVE  cur \notin Touches(t)
    BY DEF NoEarlyUse
  <2>1. /\ cur = num_devices /\ num_devices \in Int /\ named \subseteq 0 .. num_devices - 1
        /\ cur \notin si_drv1
    BY DEF IInv, TypeOK, LoadInv, DrvInv, Loading
  <2>2. CASE pc[t] \in {"user", "open"}
    BY <2>1, <2>2 DEF Touches, Holds
  <2>3. CASE pc[t] \notin {"user", "open"}
    <3>1. node[t] \in named
      BY <2>3 DEF IInv, InsideInv
    <3>2. node[t] # cur /\ (pdev[t] # None => pdev[t] # cur)
      BY <2>1, <3>1 DEF IInv, PdevInv
    <3>q. QED
      BY <2>3, <3>2 DEF Touches, Holds
  <2>q. QED
    BY <2>2, <2>3
<1>q. QED
  BY <1>1, Published, PTL

\* A step of the module event handler leaves what every thread holds alone.
LEMMA LoaderHolds ==
  ASSUME LoaderNext
  PROVE  \A t \in Threads : Holds(t)' = Holds(t)
<1>1. UNCHANGED thrvars
  BY DEF LoaderNext, LoadBegin, LoadMakeDev, LoadSetDrv1, LoadScan, LoadInitOk,
     LoadInitFail, LoadDone, UnloadBegin, UnloadSkip, UnloadDestroy,
     UnloadDestroyNull, UnloadDrain, UnloadTeardown, UnloadRelease, thrvars
<1>q. QED
  BY <1>1 DEF Holds, thrvars

\* It creates a softc, destroys one that nobody holds, or changes none.
LEMMA LoaderRefines ==
  ASSUME IInv, IInv', LoaderNext
  PROVE  [Lifetime!Next]_(Lifetime!vars)
<1>1. [t \in Threads |-> Holds(t)]' = [t \in Threads |-> Holds(t)]
  BY LoaderHolds
<1>2. CASE LoadBegin
  <2>1. 0 \in Slots /\ sh_pci_devs = {} /\ sh_pci_devs' = {0}
    BY <1>2, PciAssumption DEF LoadBegin, IInv, LoadInv, Slots
  <2>2. Lifetime!Create(0)
    BY <1>1, <2>1 DEF Lifetime!Create
  <2>q. QED
    BY <2>1, <2>2 DEF Lifetime!Next
<1>3. CASE LoadScan
  <2>1. num_devices \in Slots /\ sh_pci_devs' = sh_pci_devs \cup {num_devices}
    BY <1>3, PciAssumption DEF LoadScan, IInv, TypeOK, Slots
  <2>2. CASE num_devices \in sh_pci_devs
    BY <1>1, <2>1, <2>2 DEF Lifetime!vars
  <2>3. CASE num_devices \notin sh_pci_devs
    <3>1. Lifetime!Create(num_devices)
      BY <1>1, <2>1, <2>3 DEF Lifetime!Create
    <3>q. QED
      BY <2>1, <3>1 DEF Lifetime!Next
  <2>q. QED
    BY <2>2, <2>3
<1>4. CASE UnloadRelease
  <2>1. cur \in sh_pci_devs /\ cur \in Slots /\ sh_pci_devs' = sh_pci_devs \ {cur}
    BY <1>4 DEF UnloadRelease, IInv, TypeOK, UnloadInv
  <2>2. HeldLive'
    BY HoldsLive, PTL
  <2>3. \A t \in Threads : cur \notin Holds(t)
    BY <2>1, <2>2, LoaderHolds DEF HeldLive
  <2>4. Lifetime!Destroy(cur)
    BY <1>1, <2>1, <2>3 DEF Lifetime!Destroy
  <2>q. QED
    BY <2>1, <2>4 DEF Lifetime!Next
<1>5. CASE sh_pci_devs' = sh_pci_devs
  BY <1>1, <1>5 DEF Lifetime!vars
<1>q. QED
  BY <1>2, <1>3, <1>4, <1>5 DEF LoaderNext, LoadMakeDev, LoadSetDrv1, LoadInitOk,
     LoadInitFail, LoadDone, UnloadBegin, UnloadSkip, UnloadDestroy,
     UnloadDestroyNull, UnloadDrain, UnloadTeardown, devvars

\* A step of a thread changes no softc, and only its own pc, node and pdev.
LEMMA ThreadFrame ==
  ASSUME IInv, NEW t \in Threads, CallNext(t) \/ KernelNext(t)
  PROVE  /\ sh_pci_devs' = sh_pci_devs
         /\ \A u \in Threads \ {t} : /\ pc'[u] = pc[u] /\ node'[u] = node[u]
                                     /\ pdev'[u] = pdev[u]
<1> USE DEF IInv, TypeOK, Goto, devvars, thrvars
<1>1. CASE CallNext(t)
  BY <1>1 DEF CallNext, OpenEnter, CloseEnter, WaitEnter, WaitAll, IoctlEnter, MmapEnter
<1>2. CASE OpenNoSoftc(t) \/ OpenLoad(t) \/ OpenStore(t) \/ OpenTest(t)
  BY <1>2 DEF OpenNoSoftc, OpenLoad, OpenStore, OpenTest
<1>3. CASE CloseLoad(t) \/ CloseStore(t) \/ CloseTest(t) \/ CloseClear(t)
  BY <1>3 DEF CloseLoad, CloseStore, CloseTest, CloseClear
<1>4. CASE WaitSleep(t) \/ SleepTimeout(t) \/ WaitReturn(t)
  BY <1>4 DEF WaitSleep, SleepTimeout, WaitReturn
<1>5. CASE IoctlDone(t) \/ MmapNext(t) \/ MmapDone(t)
  BY <1>5 DEF IoctlDone, MmapNext, MmapDone
<1>q. QED
  BY <1>1, <1>2, <1>3, <1>4, <1>5 DEF KernelNext

\* A step of a thread changes what that thread holds and nothing else.
LEMMA ThreadRefines ==
  ASSUME IInv, IInv', NEW t \in Threads, CallNext(t) \/ KernelNext(t)
  PROVE  Lifetime!Hold(t)
<1>1. sh_pci_devs' = sh_pci_devs
  BY ThreadFrame
<1>2. \A u \in Threads \ {t} : Holds(u)' = Holds(u)
  BY ThreadFrame DEF Holds
<1>3. HeldLive'
  BY HoldsLive, PTL
<1>4. Holds(t)' \in SUBSET sh_pci_devs
  BY <1>1, <1>3 DEF HeldLive
<1>5. [u \in Threads |-> Holds(u)]' =
        [[u \in Threads |-> Holds(u)] EXCEPT ![t] = Holds(t)']
  BY <1>2
<1>q. QED
  BY <1>1, <1>4, <1>5 DEF Lifetime!Hold

\* A waking interrupt changes what nobody holds.
LEMMA InterruptRefines ==
  ASSUME IInv, NEW i \in Slots, Interrupt(i)
  PROVE  UNCHANGED Lifetime!vars
<1>1. /\ sh_pci_devs' = sh_pci_devs /\ node' = node /\ pdev' = pdev
      /\ \A t \in Threads : pc'[t] = pc[t] \/ (pc[t] = "sleep" /\ pc'[t] = "woken")
  BY DEF Interrupt, IInv, TypeOK, devvars
<1>2. \A t \in Threads : Holds(t)' = Holds(t)
  BY <1>1 DEF Holds
<1>q. QED
  BY <1>1, <1>2 DEF Lifetime!vars

\* The driver implements SoftcLifetime.
THEOREM Refinement == Spec => ImplementsLifetime
<1>1. Init => Lifetime!Init
  BY DEF Init, Lifetime!Init, Holds
<1>2. IInv /\ IInv' /\ [Next]_vars => [Lifetime!Next]_(Lifetime!vars)
  <2> SUFFICES ASSUME IInv, IInv', [Next]_vars PROVE [Lifetime!Next]_(Lifetime!vars)
    OBVIOUS
  <2>1. CASE LoaderNext
    BY <2>1, LoaderRefines
  <2>2. ASSUME NEW t \in Threads, CallNext(t) \/ KernelNext(t)
        PROVE  [Lifetime!Next]_(Lifetime!vars)
    BY <2>2, ThreadRefines DEF Lifetime!Next
  <2>3. ASSUME NEW i \in Slots, Interrupt(i) PROVE [Lifetime!Next]_(Lifetime!vars)
    BY <2>3, InterruptRefines
  <2>4. CASE UNCHANGED vars
    BY <2>4 DEF vars, devvars, thrvars, Lifetime!vars, Holds
  <2>q. QED
    BY <2>1, <2>2, <2>3, <2>4 DEF Next
<1>q. QED
  BY <1>1, <1>2, Invariance, PTL DEF Spec, ImplementsLifetime, Lifetime!Spec

\* What the loader has allocated: nothing beyond the slot it is working on
\* while it loads, nothing below the one it has reached while it unloads; and
\* a pointer to a BAR means one that is held, except in an adapter that failed,
\* which has no cdev.
BarInv ==
  /\ cdev \subseteq sh_pci_devs
  /\ held \subseteq resource /\ resource \subseteq sh_pci_devs
  /\ resource \cap cdev \subseteq held
  /\ loader = "idle" => cdev = {} /\ resource = {}
  /\ loader = "scan" => sh_pci_devs \subseteq 0 .. num_devices - 1
  /\ loader \in {"mkdev", "made", "init"} =>
       sh_pci_devs \subseteq (0 .. num_devices - 1) \cup {cur}
  /\ loader = "init" => cur \notin resource /\ cur \notin cdev
  /\ loader = "mkdev" => (cur \in resource => cur \in held)
  /\ loader \in {"drain", "teardown", "release"} => cur \in cdev
  /\ loader \in Unloading => sh_pci_devs \cap (0 .. cur - 1) = {}

LEMMA InitBarInv == Init => BarInv
  BY DEF Init, BarInv, Unloading

LEMMA LoaderBars ==
  ASSUME IInv, BarInv, LoaderNext
  PROVE  BarInv'
<1> USE DEF IInv, TypeOK, LoadInv, UnloadInv, BarInv, Loading, Unloading, Slots, devvars
<1>1. CASE LoadBegin
  BY <1>1 DEF LoadBegin
<1>2. CASE LoadMakeDev
  BY <1>2 DEF LoadMakeDev
<1>3. CASE LoadSetDrv1
  BY <1>3 DEF LoadSetDrv1
<1>4. CASE LoadScan
  BY <1>4 DEF LoadScan
<1>5. CASE LoadInitOk
  BY <1>5 DEF LoadInitOk
<1>6. CASE LoadInitFail
  BY <1>6 DEF LoadInitFail
<1>7. CASE LoadDone
  BY <1>7 DEF LoadDone
<1>8. CASE UnloadBegin
  BY <1>8 DEF UnloadBegin
<1>9. CASE UnloadSkip
  BY <1>9 DEF UnloadSkip, Advance
<1>10. CASE UnloadDestroy
  BY <1>10 DEF UnloadDestroy
<1>11. CASE UnloadDestroyNull
  BY <1>11 DEF UnloadDestroyNull
<1>12. CASE UnloadDrain
  BY <1>12 DEF UnloadDrain
<1>13. CASE UnloadTeardown
  BY <1>13 DEF UnloadTeardown
<1>14. CASE UnloadRelease
  BY <1>14 DEF UnloadRelease, Advance
<1>q. QED
  BY <1>1, <1>2, <1>3, <1>4, <1>5, <1>6, <1>7, <1>8, <1>9, <1>10, <1>11, <1>12,
     <1>13, <1>14 DEF LoaderNext

\* The threads and the interrupt filter allocate and release no BAR.
LEMMA ThreadBars ==
  ASSUME IInv, BarInv, NEW t \in Threads, CallNext(t) \/ KernelNext(t)
  PROVE  BarInv'
<1>1. UNCHANGED devvars
  BY ThreadDevs
<1>q. QED
  BY <1>1 DEF BarInv, devvars

\* A BAR goes back to the bus exactly once, and none is kept by an unloaded
\* module (svga_load, MOD_UNLOAD).
THEOREM BarsReturned == Spec => []BarReleased
<1>1. Init => IInv /\ BarInv
  BY InitIInv, InitBarInv
<1>2. (IInv /\ BarInv) /\ [Next]_vars => (IInv /\ BarInv)'
  <2> SUFFICES ASSUME IInv, BarInv, [Next]_vars PROVE BarInv'
    BY NextIInv
  <2>1. CASE LoaderNext
    BY <2>1, LoaderBars
  <2>2. ASSUME NEW t \in Threads, CallNext(t) \/ KernelNext(t) PROVE BarInv'
    BY <2>2, ThreadBars
  <2>3. ASSUME NEW i \in Slots, Interrupt(i) PROVE BarInv'
    BY <2>3 DEF Interrupt, BarInv, devvars
  <2>4. CASE UNCHANGED vars
    BY <2>4 DEF vars, devvars, BarInv
  <2>q. QED
    BY <2>1, <2>2, <2>3, <2>4 DEF Next
<1>3. IInv /\ BarInv => BarReleased
  <2> SUFFICES ASSUME IInv, BarInv PROVE BarReleased
    OBVIOUS
  <2>1. loader = "release" /\ cur \in resource => cur \in held
    BY DEF BarInv
  <2>2. loader = "down" => sh_pci_devs = {}
    BY PciAssumption DEF BarInv, IInv, TypeOK, UnloadInv, Unloading, Slots
  <2>q. QED
    BY <2>1, <2>2 DEF BarReleased, BarInv
<1>q. QED
  BY <1>1, <1>2, <1>3, PTL DEF Spec
=============================================================================
