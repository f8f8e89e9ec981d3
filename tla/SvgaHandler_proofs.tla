-------------------------- MODULE SvgaHandler_proofs --------------------------
(***************************************************************************)
(* What the interrupt handler of an adapter can rely on: for every number  *)
(* of threads and adapters, with interrupts that the bus refuses, opens    *)
(* and closes that overlap and unloads at any moment, up to the first open *)
(* that races for the count of its node (the history variable raced).      *)
(***************************************************************************)
EXTENDS SvgaHelper_proofs

\* A thread is inside svga_open() or svga_close() of node n.
OpensOrCloses(t, n) == node[t] = n /\ pc[t] \in OpenClosePcs

\* It is inside svga_close(); the register holds a new count.
ClosePcs == {"close", "close_store", "close_test", "close_clear"}
CountPcs == {"open_store", "open_test", "close_store", "close_test"}

\* Only the last reference to a node closes it, so one thread at a time does.
OneCloser ==
  \A t, u \in Threads :
    pc[t] \in ClosePcs /\ pc[u] \in ClosePcs /\ node[t] = node[u] => t = u

\* opencount is positive while a thread has opened the node and has not taken
\* its opening back, and the register agrees with it.
Counted(t) ==
  /\ pc[t] \notin {"open", "open_store", "close_test", "close_clear"}
       => opencount[node[t]] >= 1
  /\ pc[t] = "open_store" => cnt[t] = opencount[node[t]] + 1
  /\ pc[t] = "close_store" => cnt[t] = opencount[node[t]] - 1
  /\ pc[t] \in {"open_test", "close_test"} => cnt[t] = opencount[node[t]]
  /\ pc[t] = "close_clear" => opencount[node[t]] = 0

\* Nobody overlaps at node n: one thread at most is in the two functions, a
\* node that is being closed is open in no other thread, and the count is exact.
Exact(n) ==
  /\ \A t, u \in Threads : OpensOrCloses(t, n) /\ OpensOrCloses(u, n) => t = u
  /\ \A t, u \in Threads : node[t] = n /\ node[u] = n /\ pc[t] \in ClosePcs => t = u
  /\ opencount[n] >= 0
  /\ \A t \in Threads : node[t] = n => Counted(t)

\* Calls overlap at node n, but far above the counts that decide anything:
\* memory and registers hold two openings or more, and three while a close
\* has yet to take one.
Floor(n) == IF \E t \in Threads : node[t] = n /\ pc[t] = "close" THEN 3 ELSE 2
Deep(n) ==
  /\ opencount[n] >= Floor(n)
  /\ \A t \in Threads : node[t] = n =>
       pc[t] # "close_clear" /\ (pc[t] \in CountPcs => cnt[t] >= Floor(n))

\* There is a cookie only between the test of the first open and that of the
\* last close.
Cookie(n) ==
  /\ n \in irqcookie /\ opencount[n] = 0 =>
       \E t \in Threads : node[t] = n /\ pc[t] \in {"close_test", "close_clear"}
  /\ opencount[n] = 1 /\ (\E t \in Threads : node[t] = n /\ pc[t] = "open_test")
       => n \notin irqcookie

\* The first opener gets the handler or a refusal, for itself and for all who
\* open the node after it.
Refusal(n) ==
  /\ ~(n \in refused /\ n \in irqcookie)
  /\ \/ opencount[n] = 0
     \/ opencount[n] = 1 /\ \E t \in Threads : node[t] = n /\ pc[t] = "open_test"
     \/ n \in irqcookie \/ n \in refused

\* The handler is installed exactly while there is a cookie, except between
\* its removal and the moment the cookie goes.
Removed(n) ==
  \/ \E t \in Threads : node[t] = n /\ pc[t] = "close_clear"
  \/ loader = "release" /\ cur = n
Installed(n) == handlers[n] = IF n \in irqcookie /\ ~Removed(n) THEN 1 ELSE 0

\* A thread that waits for a retrace waits on a node with a cookie.
Waits(n) ==
  \A t \in Threads : node[t] = n /\ pc[t] \in {"wait", "sleep"} => n \in irqcookie

\* What holds of a node until an open races for its count.
Sound(n) ==
  /\ n \in irqresource => (Exact(n) \/ Deep(n)) /\ Cookie(n) /\ Refusal(n)
  /\ Installed(n) /\ Waits(n)

\* A cookie belongs to an interrupt of a live adapter.
Owned == irqcookie \subseteq irqresource /\ irqresource \subseteq sh_pci_devs \ {0}

\* A node that was not made yet was never opened.
Fresh ==
  loader \in Loading \cup {"idle"} =>
    \A n \in Slots \ named : opencount[n] = 0 /\ \A t \in Threads : node[t] # n

HandlerInv == OneCloser /\ Owned /\ Fresh /\ \A n \in Slots \ raced : Sound(n)

\* Before the module is loaded nothing is open and nothing is installed.
LEMMA InitHandler == Init => HandlerInv
  BY PciAssumption DEF Init, HandlerInv, OneCloser, ClosePcs, Owned, Fresh, Sound,
     Exact, OpensOrCloses, OpenClosePcs, Installed, Removed, Waits, Slots, None

\* A step leaves node n as it is, but for threads that leave it without a call
\* of svga_close() or wait on a cookie.
SameAt(n) ==
  /\ opencount'[n] = opencount[n] /\ handlers'[n] = handlers[n]
  /\ n \in irqcookie' <=> n \in irqcookie
  /\ n \in refused' <=> n \in refused
  /\ n \in irqresource' <=> n \in irqresource
  /\ (loader' = "release" /\ cur' = n) <=> (loader = "release" /\ cur = n)
  /\ \A u \in Threads :
       /\ OpensOrCloses(u, n)' <=> OpensOrCloses(u, n)
       /\ OpensOrCloses(u, n) => pc'[u] = pc[u] /\ cnt'[u] = cnt[u]
       /\ node'[u] = n => node[u] = n
       /\ node'[u] = n /\ pc'[u] \in {"wait", "sleep"} =>
            pc[u] \in {"wait", "sleep"} \/ n \in irqcookie

\* Such a step keeps what holds of the node.
LEMMA SameSound ==
  ASSUME NEW n \in Slots, Sound(n), SameAt(n)
  PROVE  Sound(n)'
  <1>1. \A u \in Threads : \A l \in OpenClosePcs :
          node'[u] = n /\ pc'[u] = l <=> node[u] = n /\ pc[u] = l
    BY DEF SameAt, OpensOrCloses
  <1>2. Removed(n)' <=> Removed(n)
    BY <1>1 DEF SameAt, Removed, OpenClosePcs
  <1>3. Installed(n)' /\ Waits(n)'
    BY <1>2 DEF Sound, Installed, Waits, SameAt
  <1>4. ASSUME n \in irqresource PROVE Cookie(n)' /\ Refusal(n)'
    BY <1>1, <1>4 DEF Sound, Cookie, Refusal, SameAt, OpenClosePcs
  <1>5. ASSUME Exact(n) PROVE Exact(n)'
    <2>1. \A u \in Threads : node'[u] = n => Counted(u)'
      <3> SUFFICES ASSUME NEW u \in Threads, node'[u] = n PROVE Counted(u)'
        OBVIOUS
      <3>1. node[u] = n /\ Counted(u) /\ opencount'[n] = opencount[n]
        BY <1>5 DEF SameAt, Exact
      <3>2. CASE pc[u] \in OpenClosePcs
        BY <3>1, <3>2 DEF SameAt, OpensOrCloses, Counted
      <3>3. CASE pc[u] \notin OpenClosePcs
        <4>1. pc'[u] \notin OpenClosePcs
          BY <3>1, <3>3 DEF SameAt, OpensOrCloses
        <4> QED BY <3>1, <3>3, <4>1 DEF Counted, OpenClosePcs
      <3> QED BY <3>2, <3>3
    <2>2. \A u, v \in Threads :
            node'[u] = n /\ node'[v] = n /\ pc'[u] \in ClosePcs => u = v
      BY <1>1, <1>5 DEF SameAt, Exact, ClosePcs, OpenClosePcs
    <2> QED BY <1>5, <2>1, <2>2 DEF SameAt, Exact
  <1>6. ASSUME Deep(n) PROVE Deep(n)'
    <2>1. Floor(n)' = Floor(n)
      BY <1>1 DEF Floor, OpenClosePcs
    <2>2. \A u \in Threads : node'[u] = n /\ pc'[u] \in CountPcs \cup {"close_clear"} =>
            node[u] = n /\ pc'[u] = pc[u] /\ cnt'[u] = cnt[u]
      BY <1>1 DEF SameAt, OpensOrCloses, CountPcs, OpenClosePcs
    <2> QED BY <1>6, <2>1, <2>2 DEF SameAt, Deep
  <1> QED BY <1>3, <1>4, <1>5, <1>6 DEF Sound, SameAt

\* A node without an interrupt has no handler, whoever opens and closes it.
LEMMA NoInterrupt ==
  ASSUME NEW n \in Slots, Sound(n), Owned, n \notin irqresource,
         n \notin irqresource', n \notin irqcookie', handlers'[n] = handlers[n],
         \A u \in Threads : node'[u] = n /\ pc'[u] \in {"wait", "sleep"} =>
           node[u] = n /\ pc[u] \in {"wait", "sleep"}
  PROVE  Sound(n)'
  BY DEF Sound, Owned, Installed, Waits

\* The module event handler leaves the threads and the counts alone.
LEMMA LoaderFrame ==
  ASSUME LoaderNext
  PROVE  UNCHANGED <<pc, node, cnt, opencount, refused, raced>>
  BY DEF LoaderNext, LoadBegin, LoadMakeDev, LoadSetDrv1, LoadScan, LoadInitOk,
     LoadInitFail, LoadDone, UnloadBegin, UnloadSkip, UnloadDestroy,
     UnloadDestroyNull, UnloadDrain, UnloadTeardown, UnloadRelease,
     irqvars, thrvars

\* The actions of the module event handler that touch no interrupt, free
\* nothing and neither enter nor leave the phase "release".
LoaderQuiet ==
  \/ LoadBegin \/ LoadMakeDev \/ LoadSetDrv1 \/ LoadScan \/ LoadInitFail
  \/ LoadDone \/ UnloadBegin \/ UnloadSkip \/ UnloadDestroy
  \/ UnloadDestroyNull \/ UnloadDrain

LEMMA QuietFrame ==
  ASSUME IInv, LoaderQuiet
  PROVE  /\ irqcookie' = irqcookie /\ irqresource' = irqresource
         /\ handlers' = handlers /\ sh_pci_devs \subseteq sh_pci_devs'
         /\ loader # "release" /\ loader' # "release"
         /\ loader' \in Loading \cup {"idle"} =>
              loader \in Loading \cup {"idle"} /\ named \subseteq named'
  BY DEF IInv, LoadInv, LoaderQuiet, LoadBegin, LoadMakeDev, LoadSetDrv1, LoadScan,
     LoadInitFail, LoadDone, UnloadBegin, UnloadSkip, UnloadDestroy,
     UnloadDestroyNull, UnloadDrain, Advance, devvars, irqvars, Loading

\* Every step of the module event handler keeps the invariant.
LEMMA LoaderHandler ==
  ASSUME IInv, HandlerInv, LoaderNext
  PROVE  HandlerInv'
  <1>f. UNCHANGED <<pc, node, cnt, opencount, refused, raced>>
    BY LoaderFrame
  <1>1. OneCloser'
    BY <1>f DEF HandlerInv, OneCloser
  <1>i. \A t \in Threads : loader \in {"teardown", "release"} /\ node[t] = cur => pc[t] = "user"
    BY DEF IInv, InsideInv, UnloadInv
  <1>2. CASE LoaderQuiet
    <2>1. Owned' /\ Fresh'
      BY <1>2, <1>f, QuietFrame DEF HandlerInv, Owned, Fresh
    <2>2. \A n \in Slots : SameAt(n)
      BY <1>2, <1>f, QuietFrame DEF SameAt, OpensOrCloses
    <2> QED BY <1>1, <1>f, <2>1, <2>2, SameSound DEF HandlerInv
  <1>3. CASE LoadInitOk
    <2>1. /\ loader = "init" /\ loader' = "mkdev" /\ cur \in (sh_pci_devs \cap Slots) \ {0}
          /\ cur \notin named
          /\ irqresource' \in {irqresource, irqresource \cup {cur}}
          /\ UNCHANGED <<irqcookie, handlers, named, sh_pci_devs, cur>>
      BY <1>3 DEF LoadInitOk, IInv, TypeOK, LoadInv, irqvars, Loading
    <2>2. Owned' /\ Fresh'
      BY <1>f, <2>1 DEF HandlerInv, Owned, Fresh, Loading
    <2>3. \A n \in Slots : n # cur \/ irqresource' = irqresource => SameAt(n)
      BY <1>f, <2>1 DEF SameAt, OpensOrCloses
    <2>4. CASE cur \in irqresource
      <3>1. irqresource' = irqresource
        BY <2>1, <2>4
      <3> QED BY <1>1, <1>f, <2>2, <2>3, <3>1, SameSound DEF HandlerInv
    <2>5. CASE cur \notin irqresource
      <3>1. opencount[cur] = 0 /\ (\A t \in Threads : node[t] # cur) /\ cur \notin irqcookie
        BY <2>1, <2>5 DEF HandlerInv, Owned, Fresh, Loading
      <3>2. ASSUME NEW n \in Slots \ raced, n = cur PROVE Sound(n)'
        <4>1. Exact(n)'
          BY <1>f, <3>1, <3>2 DEF Exact, OpensOrCloses
        <4>2. Cookie(n)' /\ Refusal(n)'
          BY <1>f, <2>1, <3>1, <3>2 DEF Cookie, Refusal
        <4>3. Installed(n)' /\ Waits(n)'
          BY <1>f, <2>1, <3>1, <3>2 DEF HandlerInv, Sound, Installed, Waits
        <4> QED BY <4>1, <4>2, <4>3 DEF Sound
      <3> QED BY <1>1, <1>f, <2>2, <2>3, <3>2, SameSound DEF HandlerInv
    <2> QED BY <2>4, <2>5
  <1>4. CASE UnloadTeardown
    <2>1. /\ loader = "teardown" /\ loader' = "release" /\ cur \in Slots
          /\ handlers' = IF cur \in irqcookie
                         THEN [handlers EXCEPT ![cur] = @ - 1] ELSE handlers
          /\ UNCHANGED <<irqcookie, irqresource, named, sh_pci_devs, cur>>
      BY <1>4 DEF UnloadTeardown, IInv, TypeOK, UnloadInv
    <2>2. Owned' /\ Fresh'
      BY <1>f, <2>1 DEF HandlerInv, Owned, Fresh, Loading
    <2>3. handlers \in [Slots -> Int]
      BY DEF IInv, TypeOK
    <2>4. \A n \in Slots \ {cur} : SameAt(n)
      BY <1>f, <2>1, <2>3 DEF SameAt, OpensOrCloses
    <2>5. ASSUME NEW n \in Slots \ raced, n = cur PROVE Sound(n)'
      <3>1. Sound(n)
        BY DEF HandlerInv
      <3>2. ~Removed(n) /\ Removed(n)'
        BY <1>i, <2>1, <2>5 DEF Removed
      <3>3. Installed(n)'
        BY <2>1, <2>3, <2>5, <3>1, <3>2 DEF Sound, Installed
      <3>4. Waits(n)'
        BY <1>f, <2>1, <3>1 DEF Sound, Waits
      <3>5. n \in irqresource => (Exact(n) \/ Deep(n))' /\ Cookie(n)' /\ Refusal(n)'
        BY <1>f, <2>1, <3>1 DEF Sound, Exact, OpensOrCloses, Counted, Deep, Floor,
           Cookie, Refusal
      <3> QED BY <2>1, <3>3, <3>4, <3>5 DEF Sound
    <2> QED BY <1>1, <1>f, <2>2, <2>4, <2>5, SameSound DEF HandlerInv
  <1>5. CASE UnloadRelease
    <2>1. /\ loader = "release" /\ loader' \in {"un_dev", "down"} /\ cur \in Slots
          /\ sh_pci_devs' = sh_pci_devs \ {cur} /\ irqcookie' = irqcookie \ {cur}
          /\ irqresource' = irqresource \ {cur}
          /\ UNCHANGED <<handlers, named>>
      BY <1>5 DEF UnloadRelease, Advance, IInv, TypeOK, UnloadInv
    <2>2. Owned' /\ Fresh'
      BY <1>f, <2>1 DEF HandlerInv, Owned, Fresh, Loading
    <2>3. \A n \in Slots \ {cur} : SameAt(n)
      BY <1>f, <2>1 DEF SameAt, OpensOrCloses
    <2>4. ASSUME NEW n \in Slots \ raced, n = cur PROVE Sound(n)'
      <3>1. handlers'[n] = 0 /\ n \notin irqcookie' /\ n \notin irqresource'
        BY <2>1, <2>4 DEF HandlerInv, Sound, Installed, Removed
      <3>2. Waits(n)'
        BY <1>f, <1>i, <2>1, <2>4 DEF Waits
      <3> QED BY <3>1, <3>2 DEF Sound, Installed
    <2> QED BY <1>1, <1>f, <2>2, <2>3, <2>4, SameSound DEF HandlerInv
  <1> QED
    BY <1>2, <1>3, <1>4, <1>5 DEF LoaderNext, LoaderQuiet

\* A step of one thread leaves the other threads and the devices alone.
LEMMA StepFrame ==
  ASSUME IInv, NEW t \in Threads, CallNext(t) \/ KernelNext(t)
  PROVE  /\ UNCHANGED devvars
         /\ \A u \in Threads :
              u # t => pc'[u] = pc[u] /\ node'[u] = node[u] /\ cnt'[u] = cnt[u]
  <1>0. UNCHANGED devvars
    BY ThreadDevs
  <1> USE DEF IInv, TypeOK, Goto, thrvars
  <1>1. CASE OpenEnter(t) \/ OpenNoSoftc(t) \/ OpenLoad(t) \/ OpenStore(t)
    BY <1>0, <1>1 DEF OpenEnter, OpenNoSoftc, OpenLoad, OpenStore
  <1>2. CASE OpenTest(t)
    BY <1>0, <1>2 DEF OpenTest
  <1>3. CASE CloseEnter(t)
    BY <1>0, <1>3 DEF CloseEnter
  <1>4. CASE CloseLoad(t) \/ CloseStore(t) \/ CloseClear(t)
    BY <1>0, <1>4 DEF CloseLoad, CloseStore, CloseClear
  <1>5. CASE CloseTest(t)
    BY <1>0, <1>5 DEF CloseTest
  <1>6. CASE WaitEnter(t) \/ WaitAll(t) \/ IoctlEnter(t) \/ MmapEnter(t)
    BY <1>0, <1>6 DEF WaitEnter, WaitAll, IoctlEnter, MmapEnter
  <1>7. CASE WaitSleep(t) \/ SleepTimeout(t) \/ WaitReturn(t)
    BY <1>0, <1>7 DEF WaitSleep, SleepTimeout, WaitReturn
  <1>8. CASE IoctlDone(t) \/ MmapNext(t) \/ MmapDone(t)
    BY <1>0, <1>8 DEF IoctlDone, MmapNext, MmapDone
  <1> QED BY <1>1, <1>2, <1>3, <1>4, <1>5, <1>6, <1>7, <1>8 DEF CallNext, KernelNext

\* The steps that neither open nor close.
CallQuiet(t) ==
  \/ WaitEnter(t) \/ WaitAll(t) \/ IoctlEnter(t) \/ MmapEnter(t) \/ WaitSleep(t)
  \/ SleepTimeout(t) \/ WaitReturn(t) \/ IoctlDone(t) \/ MmapNext(t) \/ MmapDone(t)

LEMMA CallFrame ==
  ASSUME IInv, NEW t \in Threads, CallQuiet(t)
  PROVE  /\ pc[t] \notin OpenClosePcs /\ pc'[t] \notin OpenClosePcs
         /\ pc'[t] = "wait" => node[t] \in irqcookie
         /\ pc'[t] = "sleep" => pc[t] = "wait" \/ pc[t] = "sleep"
         /\ node' = node /\ cnt' = cnt
         /\ UNCHANGED irqvars
  <1> USE DEF IInv, TypeOK, OpenClosePcs, Goto, MayCall, devvars, irqvars, thrvars
  <1>1. CASE WaitEnter(t)
    BY <1>1 DEF WaitEnter
  <1>2. CASE WaitAll(t)
    BY <1>2 DEF WaitAll
  <1>3. CASE IoctlEnter(t) \/ MmapEnter(t)
    BY <1>3 DEF IoctlEnter, MmapEnter
  <1>4. CASE WaitSleep(t) \/ SleepTimeout(t) \/ WaitReturn(t)
    BY <1>4 DEF WaitSleep, SleepTimeout, WaitReturn
  <1>5. CASE IoctlDone(t) \/ MmapNext(t) \/ MmapDone(t)
    BY <1>5 DEF IoctlDone, MmapNext, MmapDone
  <1> QED BY <1>1, <1>2, <1>3, <1>4, <1>5 DEF CallQuiet

\* A step that opens or closes nothing keeps the invariant.
LEMMA QuietHandler ==
  ASSUME IInv, HandlerInv, NEW t \in Threads, CallQuiet(t)
  PROVE  HandlerInv'
  <1>1. CallNext(t) \/ KernelNext(t)
    BY DEF CallQuiet, CallNext, KernelNext
  <1>2. UNCHANGED devvars /\ \A u \in Threads : u # t => pc'[u] = pc[u]
    BY <1>1, StepFrame
  <1>3. /\ pc[t] \notin OpenClosePcs /\ pc'[t] \notin OpenClosePcs
        /\ pc'[t] = "wait" => node[t] \in irqcookie
        /\ pc'[t] = "sleep" => pc[t] = "wait" \/ pc[t] = "sleep"
        /\ node' = node /\ cnt' = cnt /\ UNCHANGED irqvars
    BY CallFrame
  <1>4. OneCloser' /\ Owned' /\ Fresh'
    BY <1>2, <1>3 DEF HandlerInv, OneCloser, ClosePcs, OpenClosePcs, Owned, Fresh,
       devvars, irqvars
  <1>5. \A n \in Slots : SameAt(n)
    BY <1>2, <1>3 DEF SameAt, OpensOrCloses, devvars, irqvars
  <1> QED BY <1>3, <1>4, <1>5, SameSound DEF HandlerInv, irqvars

\* The steps inside svga_open() and svga_close().
InnerNext(t) ==
  \/ OpenNoSoftc(t) \/ OpenLoad(t) \/ OpenStore(t) \/ OpenTest(t)
  \/ CloseLoad(t) \/ CloseStore(t) \/ CloseTest(t) \/ CloseClear(t)

\* Their node is live, the thread stays on it or leaves it, and the other nodes
\* stay as they are; a thread never goes from svga_open() to svga_close()
\* directly, and is in neither when it begins to wait.
LEMMA InnerFacts ==
  ASSUME IInv, NEW t \in Threads, InnerNext(t)
  PROVE  /\ pc[t] \in OpenClosePcs /\ node[t] \in Slots
         /\ ~(loader = "release" /\ cur = node[t])
         /\ loader \in Loading \cup {"idle"} => node[t] \in named
         /\ \A u \in Threads \ {t} :
              pc'[u] = pc[u] /\ node'[u] = node[u] /\ cnt'[u] = cnt[u]
         /\ node'[t] \in {node[t], None}
         /\ pc'[t] # "user" => node'[t] = node[t]
         /\ pc'[t] \in ClosePcs => pc[t] \in ClosePcs
         /\ pc'[t] \in (OpenClosePcs \cup {"user"}) \ {"close"}
         /\ UNCHANGED devvars /\ raced' = raced
         /\ \A n \in Slots \ {node[t]} :
              /\ opencount'[n] = opencount[n] /\ handlers'[n] = handlers[n]
              /\ n \in irqcookie' <=> n \in irqcookie
              /\ n \in refused' <=> n \in refused
  <1>1. CallNext(t) \/ KernelNext(t)
    BY DEF InnerNext, KernelNext
  <1>2. UNCHANGED devvars /\ \A u \in Threads \ {t} :
             pc'[u] = pc[u] /\ node'[u] = node[u] /\ cnt'[u] = cnt[u]
    BY <1>1, StepFrame
  <1>3. pc[t] \in OpenClosePcs
    BY DEF InnerNext, OpenNoSoftc, OpenLoad, OpenStore, OpenTest, CloseLoad,
       CloseStore, CloseTest, CloseClear, OpenClosePcs
  <1>4. node[t] \in Slots
    BY <1>3, InsideNode DEF OpenClosePcs
  <1>5. /\ ~(loader = "release" /\ cur = node[t])
        /\ loader \in Loading \cup {"idle"} => node[t] \in named
    BY <1>3 DEF OpenClosePcs, IInv, InsideInv, UnloadInv, Loading
  <1>6. /\ node'[t] \in {node[t], None} /\ (pc'[t] # "user" => node'[t] = node[t])
        /\ (pc'[t] \in ClosePcs => pc[t] \in ClosePcs)
        /\ pc'[t] \in (OpenClosePcs \cup {"user"}) \ {"close"}
        /\ raced' = raced
        /\ \A n \in Slots \ {node[t]} :
             /\ opencount'[n] = opencount[n] /\ handlers'[n] = handlers[n]
             /\ n \in irqcookie' <=> n \in irqcookie
             /\ n \in refused' <=> n \in refused
    <2> USE DEF IInv, TypeOK, Goto, OpenClosePcs, ClosePcs, irqvars
    <2>1. CASE OpenNoSoftc(t)
      BY <2>1 DEF OpenNoSoftc
    <2>2. CASE OpenLoad(t) \/ OpenStore(t)
      BY <2>2 DEF OpenLoad, OpenStore
    <2>3. CASE OpenTest(t)
      BY <1>4, <2>3 DEF OpenTest
    <2>4. CASE CloseLoad(t) \/ CloseStore(t) \/ CloseClear(t)
      BY <2>4 DEF CloseLoad, CloseStore, CloseClear
    <2>5. CASE CloseTest(t)
      BY <1>4, <2>5 DEF CloseTest
    <2> QED BY <2>1, <2>2, <2>3, <2>4, <2>5 DEF InnerNext
  <1> QED BY <1>2, <1>3, <1>4, <1>5, <1>6

\* They leave every other node as it is and keep the parts of the invariant
\* that are not about one node.
LEMMA InnerFrame ==
  ASSUME IInv, HandlerInv, NEW t \in Threads, InnerNext(t)
  PROVE  /\ OneCloser' /\ Owned' /\ Fresh'
         /\ \A n \in Slots \ {node[t]} : SameAt(n)
  <1>1. /\ pc[t] \in OpenClosePcs /\ node[t] \in Slots
        /\ loader \in Loading \cup {"idle"} => node[t] \in named
        /\ \A u \in Threads \ {t} :
             pc'[u] = pc[u] /\ node'[u] = node[u] /\ cnt'[u] = cnt[u]
        /\ node'[t] \in {node[t], None}
        /\ pc'[t] # "user" => node'[t] = node[t]
        /\ pc'[t] \in ClosePcs => pc[t] \in ClosePcs
        /\ pc'[t] \in OpenClosePcs \cup {"user"}
        /\ UNCHANGED devvars
        /\ \A n \in Slots \ {node[t]} :
             /\ opencount'[n] = opencount[n] /\ handlers'[n] = handlers[n]
             /\ n \in irqcookie' <=> n \in irqcookie
             /\ n \in refused' <=> n \in refused
    BY InnerFacts
  <1>2. OneCloser'
    BY <1>1 DEF HandlerInv, OneCloser, ClosePcs
  <1>3. irqcookie' \subseteq irqresource
    <2>1. irqcookie \subseteq irqresource /\ irqcookie \subseteq Slots
      BY DEF HandlerInv, Owned, IInv, TypeOK
    <2> QED BY <2>1 DEF InnerNext, OpenNoSoftc, OpenLoad, OpenStore, OpenTest,
               CloseLoad, CloseStore, CloseTest, CloseClear, irqvars
  <1>4. Owned'
    BY <1>1, <1>3 DEF HandlerInv, Owned, devvars
  <1>5. Fresh'
    BY <1>1 DEF HandlerInv, Fresh, devvars, Slots, None
  <1>6. \A n \in Slots \ {node[t]} : SameAt(n)
    BY <1>1 DEF SameAt, OpensOrCloses, devvars, Slots, None, OpenClosePcs
  <1> QED BY <1>2, <1>4, <1>5, <1>6

\* Far above the counts that decide anything, a step of svga_open() or
\* svga_close() counts and decides nothing.
LEMMA DeepSound ==
  ASSUME IInv, HandlerInv, NEW t \in Threads, InnerNext(t), NEW n \in Slots,
         n = node[t], Sound(n), n \in irqresource, Deep(n)
  PROVE  Sound(n)'
  <1>1. /\ ~(loader = "release" /\ cur = n)
        /\ \A u \in Threads \ {t} :
             pc'[u] = pc[u] /\ node'[u] = node[u] /\ cnt'[u] = cnt[u]
        /\ node'[t] \in {n, None}
        /\ pc'[t] # "user" => node'[t] = n
        /\ pc'[t] \in (OpenClosePcs \cup {"user"}) \ {"close"}
        /\ UNCHANGED devvars
    BY InnerFacts
  <1>2. opencount[n] \in Int /\ cnt[t] \in Int /\ opencount \in [Slots -> Int]
    BY DEF IInv, TypeOK
  <1>3. /\ Floor(n) \in {2, 3} /\ Floor(n)' \in {2, 3} /\ Floor(n)' <= Floor(n)
        /\ pc[t] = "close" => Floor(n) = 3
        /\ opencount[n] >= Floor(n) /\ opencount[n] >= 2
        /\ pc[t] # "close_clear"
        /\ pc[t] \in CountPcs => cnt[t] >= Floor(n) /\ cnt[t] >= 2
    <2>1. (\E u \in Threads : node'[u] = n /\ pc'[u] = "close") =>
             \E u \in Threads : node[u] = n /\ pc[u] = "close"
      BY <1>1
    <2>2. Floor(n) \in {2, 3} /\ Floor(n)' \in {2, 3} /\ Floor(n)' <= Floor(n)
      BY <2>1 DEF Floor
    <2>3. pc[t] = "close" => Floor(n) = 3
      BY DEF Floor
    <2>4. /\ opencount[n] >= Floor(n) /\ pc[t] # "close_clear"
          /\ pc[t] \in CountPcs => cnt[t] >= Floor(n)
      BY DEF Deep
    <2> QED BY <1>2, <2>2, <2>3, <2>4
  <1>4. ASSUME UNCHANGED <<irqcookie, handlers, refused>>,
               pc'[t] # "close_clear",
               opencount'[n] \in Int, opencount'[n] >= Floor(n)',
               pc'[t] \in CountPcs => cnt'[t] >= Floor(n)'
        PROVE  Sound(n)'
    <2>1. \A u \in Threads \ {t} : cnt[u] \in Int
      BY DEF IInv, TypeOK
    <2>2. Deep(n)'
      <3>1. \A u \in Threads : node'[u] = n =>
              pc'[u] # "close_clear" /\ (pc'[u] \in CountPcs => cnt'[u] >= Floor(n)')
        BY <1>1, <1>3, <1>4, <2>1 DEF Deep
      <3> QED BY <1>4, <3>1 DEF Deep
    <2>3. Cookie(n)' /\ Refusal(n)'
      BY <1>2, <1>3, <1>4 DEF Sound, Cookie, Refusal
    <2>4. Installed(n)'
      <3>1. Removed(n)' <=> Removed(n)
        BY <1>1, <1>3, <1>4 DEF Removed, devvars
      <3> QED BY <1>4, <3>1 DEF Sound, Installed
    <2>5. Waits(n)'
      BY <1>1, <1>4 DEF Sound, Waits, OpenClosePcs
    <2> QED BY <2>2, <2>3, <2>4, <2>5 DEF Sound
  <1>5. CASE OpenNoSoftc(t)
    BY <1>2, <1>3, <1>4, <1>5 DEF OpenNoSoftc, Goto, IInv, TypeOK, irqvars, CountPcs
  <1>6. CASE OpenLoad(t)
    <2>1. cnt'[t] = opencount[n] + 1 /\ cnt'[t] >= Floor(n)'
      BY <1>2, <1>3, <1>6 DEF OpenLoad, IInv, TypeOK
    <2> QED BY <1>2, <1>3, <1>4, <1>6, <2>1 DEF OpenLoad, Goto, IInv, TypeOK, irqvars
  <1>7. CASE OpenStore(t) \/ CloseStore(t)
    <2>1. /\ opencount'[n] = cnt[t] /\ cnt' = cnt
          /\ cnt[t] >= Floor(n)'
      BY <1>2, <1>3, <1>7 DEF OpenStore, CloseStore, CountPcs
    <2> QED BY <1>2, <1>4, <1>7, <2>1 DEF OpenStore, CloseStore, Goto, IInv, TypeOK
  <1>8. CASE CloseLoad(t)
    <2>1. \A u \in Threads : u # t => ~(node'[u] = n /\ pc'[u] = "close")
      BY <1>1, <1>8 DEF HandlerInv, OneCloser, ClosePcs, CloseLoad
    <2>2. Floor(n)' = 2
      BY <1>1, <2>1 DEF Floor
    <2>3. cnt'[t] = opencount[n] - 1 /\ cnt'[t] >= 2
      BY <1>2, <1>3, <1>8 DEF CloseLoad, IInv, TypeOK
    <2> QED BY <1>2, <1>3, <1>4, <1>8, <2>2, <2>3
            DEF CloseLoad, Goto, IInv, TypeOK, irqvars
  <1>9. CASE OpenTest(t) \/ CloseTest(t)
    <2>1. \A v \in Compared(t) : v # 0 /\ v # 1
      BY <1>2, <1>3, <1>9 DEF Compared, OpenTest, CloseTest, CountPcs
    <2>2. /\ UNCHANGED <<irqcookie, handlers, refused, opencount>>
          /\ pc'[t] = "user"
      BY <1>9, <2>1 DEF OpenTest, CloseTest, Goto, IInv, TypeOK
    <2> QED BY <1>2, <1>3, <1>4, <2>2 DEF CountPcs
  <1>10. ~CloseClear(t)
    BY <1>3 DEF CloseClear
  <1> QED BY <1>5, <1>6, <1>7, <1>8, <1>9, <1>10 DEF InnerNext

\* With an exact count only the first opening installs the handler, or is
\* refused it, and only the last close removes it.
LEMMA ExactSound ==
  ASSUME IInv, HandlerInv, NEW t \in Threads, InnerNext(t), NEW n \in Slots,
         n = node[t], Sound(n), n \in irqresource, Exact(n)
  PROVE  Sound(n)'
  <1>1. /\ ~(loader = "release" /\ cur = n) /\ pc[t] \in OpenClosePcs
        /\ \A u \in Threads \ {t} :
             pc'[u] = pc[u] /\ node'[u] = node[u] /\ cnt'[u] = cnt[u]
        /\ UNCHANGED devvars
    BY InnerFacts
  <1>2. /\ opencount[n] \in Int /\ cnt[t] \in Int /\ opencount \in [Slots -> Int]
        /\ handlers \in [Slots -> Int] /\ n # None /\ n # 0
        /\ irqcookie \subseteq irqresource
    BY DEF IInv, TypeOK, HandlerInv, Owned, Slots, None
  <1>3. /\ \A u \in Threads \ {t} : node[u] = n => pc[u] \notin OpenClosePcs
        /\ pc[t] \in ClosePcs => \A u \in Threads \ {t} : node[u] # n
        /\ opencount[n] >= 0 /\ Counted(t)
        /\ \A u \in Threads \ {t} : node[u] = n => opencount[n] >= 1
    BY <1>1 DEF Exact, OpensOrCloses, Counted, OpenClosePcs
  <1>4. /\ Cookie(n) /\ Refusal(n) /\ Installed(n) /\ Waits(n)
    BY DEF Sound
  \* The thread is the only one whose state the new state depends on.
  <1>5. ASSUME opencount'[n] \in Int, opencount'[n] >= 0,
               \/ pc'[t] = "user" /\ node'[t] = None
               \/ node'[t] = n /\ Counted(t)',
               pc'[t] \in ClosePcs => pc[t] \in ClosePcs,
               pc[t] \in ClosePcs \/ opencount'[n] >= opencount[n]
        PROVE  Exact(n)'
    <2>1. \A u \in Threads \ {t} : node'[u] = n => Counted(u)'
      <3> SUFFICES ASSUME NEW u \in Threads \ {t}, node'[u] = n PROVE Counted(u)'
        OBVIOUS
      <3>1. /\ node[u] = n /\ pc'[u] = pc[u] /\ pc[u] \notin OpenClosePcs
            /\ opencount[n] >= 1 /\ pc[t] \notin ClosePcs
        BY <1>1, <1>3
      <3>2. opencount'[n] >= 1
        BY <1>2, <1>5, <3>1
      <3> QED BY <3>1, <3>2 DEF Counted, OpenClosePcs
    <2>2. \A u, v \in Threads : OpensOrCloses(u, n)' /\ OpensOrCloses(v, n)' => u = v
      BY <1>1, <1>3 DEF OpensOrCloses
    <2>3. \A u, v \in Threads :
            node'[u] = n /\ node'[v] = n /\ pc'[u] \in ClosePcs => u = v
      BY <1>1, <1>3, <1>5 DEF ClosePcs, OpenClosePcs
    <2>4. node'[t] = n => Counted(t)'
      BY <1>2, <1>5
    <2> QED BY <1>5, <2>1, <2>2, <2>3, <2>4 DEF Exact
  <1>6. ASSUME handlers'[n] = handlers[n], n \in irqcookie' <=> n \in irqcookie,
               pc[t] # "close_clear", pc'[t] # "close_clear"
        PROVE  Installed(n)'
    <2>1. Removed(n)' <=> Removed(n)
      BY <1>1, <1>6 DEF Removed, devvars
    <2> QED BY <1>4, <1>6, <2>1 DEF Installed
  <1>7. ASSUME \/ n \in irqcookie => n \in irqcookie'
               \/ \A u \in Threads \ {t} : node[u] = n => pc[u] \notin {"wait", "sleep"},
               pc'[t] \notin {"wait", "sleep"}
        PROVE  Waits(n)'
    BY <1>1, <1>4, <1>7 DEF Waits
  <1>8. CASE OpenNoSoftc(t)
    <2>1. /\ pc[t] = "open" /\ pc'[t] = "user" /\ node'[t] = None
          /\ UNCHANGED irqvars
      BY <1>8 DEF OpenNoSoftc, Goto, IInv, TypeOK
    <2>2. Cookie(n)' /\ Refusal(n)'
      BY <1>1, <1>4, <2>1 DEF Cookie, Refusal, irqvars
    <2> QED BY <1>2, <1>3, <1>5, <1>6, <1>7, <2>1, <2>2 DEF Sound, irqvars, ClosePcs
  <1>9. CASE OpenLoad(t)
    <2>1. /\ pc[t] = "open" /\ pc'[t] = "open_store" /\ node'[t] = n
          /\ UNCHANGED irqvars /\ cnt'[t] = opencount[n] + 1
      BY <1>9 DEF OpenLoad, Goto, IInv, TypeOK
    <2>2. Cookie(n)' /\ Refusal(n)'
      BY <1>1, <1>4, <2>1 DEF Cookie, Refusal, irqvars
    <2>3. Counted(t)'
      BY <2>1 DEF Counted, irqvars
    <2> QED BY <1>2, <1>3, <1>5, <1>6, <1>7, <2>1, <2>2, <2>3 DEF Sound, irqvars, ClosePcs
  <1>10. CASE OpenStore(t)
    <2>1. /\ pc[t] = "open_store" /\ pc'[t] = "open_test" /\ node'[t] = n
          /\ opencount'[n] = opencount[n] + 1 /\ cnt'[t] = opencount'[n]
          /\ UNCHANGED <<irqcookie, handlers, refused>>
      BY <1>2, <1>3, <1>10 DEF OpenStore, Goto, IInv, TypeOK, Counted
    <2>2. opencount[n] = 0 => n \notin irqcookie
      BY <1>1, <1>3, <1>4, <2>1 DEF Cookie, OpenClosePcs
    <2>3. Cookie(n)'
      BY <1>2, <1>3, <2>1, <2>2 DEF Cookie
    <2>4. Refusal(n)'
      <3>1. \/ opencount[n] = 0 \/ n \in irqcookie \/ n \in refused
        BY <1>1, <1>3, <1>4, <2>1 DEF Refusal, OpenClosePcs
      <3> QED BY <1>4, <2>1, <3>1 DEF Refusal
    <2>5. Counted(t)' /\ opencount'[n] >= 1 /\ opencount'[n] \in Int
      BY <1>2, <1>3, <2>1 DEF Counted
    <2> QED BY <1>2, <1>5, <1>6, <1>7, <2>1, <2>3, <2>4, <2>5 DEF Sound, ClosePcs
  <1>11. CASE OpenTest(t)
    <2>1. /\ pc[t] = "open_test" /\ pc'[t] = "user" /\ node'[t] = n
          /\ opencount' = opencount /\ cnt'[t] = 0
          /\ Compared(t) = {opencount[n]} /\ opencount[n] >= 1
      <3>1. pc[t] = "open_test" /\ pc'[t] = "user" /\ node'[t] = n
            /\ opencount' = opencount /\ cnt'[t] = 0
        BY <1>11 DEF OpenTest, Goto, IInv, TypeOK
      <3> QED BY <1>3, <3>1 DEF Counted, Compared
    <2>2. Exact(n)'
      <3>1. Counted(t)'
        BY <2>1 DEF Counted
      <3> QED BY <1>2, <1>3, <1>5, <2>1, <3>1 DEF ClosePcs
    <2>3. ~Removed(n) /\ ~Removed(n)'
      BY <1>1, <1>3, <2>1 DEF Removed, OpenClosePcs, devvars
    <2>4. \A u \in Threads : ~(node'[u] = n /\ pc'[u] = "open_test")
      BY <1>1, <1>3, <2>1 DEF OpenClosePcs
    <2>5. CASE opencount[n] = 1
      <3>1. n \notin irqcookie
        BY <1>4, <2>1, <2>5 DEF Cookie
      <3>2. \/ /\ handlers' = [handlers EXCEPT ![n] = @ + 1]
               /\ irqcookie' = irqcookie \cup {n} /\ refused' = refused \ {n}
            \/ /\ irqcookie' = irqcookie \ {n} /\ refused' = refused \cup {n}
               /\ handlers' = handlers
        BY <1>2, <2>1, <2>5, <1>11 DEF OpenTest
      <3>3. Installed(n)'
        BY <1>2, <1>4, <2>3, <3>1, <3>2 DEF Installed
      <3>4. Cookie(n)' /\ Refusal(n)'
        BY <2>1, <2>4, <2>5, <3>2 DEF Cookie, Refusal
      <3>5. Waits(n)'
        BY <1>7, <2>1, <3>1
      <3> QED BY <2>2, <3>3, <3>4, <3>5 DEF Sound
    <2>6. CASE opencount[n] # 1
      <3>1. UNCHANGED <<handlers, irqcookie, refused>>
        BY <2>1, <2>6, <1>11 DEF OpenTest
      <3>2. Cookie(n)' /\ Refusal(n)'
        BY <1>2, <1>4, <2>1, <2>6, <3>1 DEF Cookie, Refusal
      <3> QED BY <1>6, <1>7, <2>1, <2>2, <3>1, <3>2 DEF Sound
    <2> QED BY <2>5, <2>6
  <1>12. CASE CloseLoad(t)
    <2>1. /\ pc[t] = "close" /\ pc'[t] = "close_store" /\ node'[t] = n
          /\ UNCHANGED irqvars /\ cnt'[t] = opencount[n] - 1 /\ opencount[n] >= 1
      BY <1>3, <1>12 DEF CloseLoad, Goto, IInv, TypeOK, Counted
    <2>2. Cookie(n)' /\ Refusal(n)'
      BY <1>1, <1>3, <1>4, <2>1 DEF Cookie, Refusal, irqvars, ClosePcs
    <2>3. Counted(t)'
      BY <2>1 DEF Counted, irqvars
    <2> QED BY <1>2, <1>3, <1>5, <1>6, <1>7, <2>1, <2>2, <2>3 DEF Sound, irqvars, ClosePcs
  <1>13. CASE CloseStore(t)
    <2>1. /\ pc[t] = "close_store" /\ pc'[t] = "close_test" /\ node'[t] = n
          /\ opencount'[n] = opencount[n] - 1 /\ cnt'[t] = opencount'[n]
          /\ UNCHANGED <<irqcookie, handlers, refused>>
          /\ opencount[n] >= 1
      BY <1>2, <1>3, <1>13 DEF CloseStore, Goto, IInv, TypeOK, Counted
    <2>2. \A u \in Threads \ {t} : node[u] # n
      BY <1>3, <2>1 DEF ClosePcs
    <2>3. Cookie(n)'
      BY <1>1, <2>1, <2>2 DEF Cookie
    <2>4. Refusal(n)'
      <3>1. n \in irqcookie \/ n \in refused
        BY <1>2, <1>4, <2>1, <2>2 DEF Refusal
      <3> QED BY <1>4, <2>1, <3>1 DEF Refusal
    <2>5. Counted(t)' /\ opencount'[n] >= 0 /\ opencount'[n] \in Int
      BY <1>2, <2>1 DEF Counted
    <2> QED BY <1>5, <1>6, <1>7, <2>1, <2>3, <2>4, <2>5 DEF Sound, ClosePcs
  <1>14. CASE CloseTest(t)
    <2>1. /\ pc[t] = "close_test" /\ opencount' = opencount
          /\ irqcookie' = irqcookie /\ refused' = refused
          /\ Compared(t) = {opencount[n]}
          /\ \A u \in Threads \ {t} : node[u] # n
      <3>1. pc[t] = "close_test"
        BY <1>14 DEF CloseTest
      <3> QED BY <1>3, <1>14, <3>1 DEF CloseTest, Counted, Compared, ClosePcs
    <2>2. ~Removed(n)
      BY <1>1, <2>1 DEF Removed
    <2>3. CASE opencount[n] = 0 /\ n \in irqcookie
      <3>1. /\ handlers' = [handlers EXCEPT ![n] = @ - 1]
            /\ pc'[t] = "close_clear" /\ node'[t] = n
        BY <1>14, <2>1, <2>3 DEF CloseTest, Goto, IInv, TypeOK
      <3>2. Installed(n)'
        BY <1>2, <1>4, <2>1, <2>2, <2>3, <3>1 DEF Installed, Removed
      <3>3. Cookie(n)' /\ Refusal(n)'
        BY <1>4, <2>1, <2>3, <3>1 DEF Cookie, Refusal
      <3>4. Counted(t)'
        BY <2>1, <2>3, <3>1 DEF Counted
      <3>5. Exact(n)'
        BY <1>2, <1>3, <1>5, <2>1, <3>1, <3>4 DEF ClosePcs
      <3> QED BY <1>7, <2>1, <3>1, <3>2, <3>3, <3>5 DEF Sound
    <2>4. CASE ~(opencount[n] = 0 /\ n \in irqcookie)
      <3>1. handlers' = handlers /\ pc'[t] = "user" /\ node'[t] = None
        BY <1>14, <2>1, <2>4 DEF CloseTest, Goto, IInv, TypeOK
      <3>2. Cookie(n)'
        BY <1>1, <1>2, <2>1, <2>4, <3>1 DEF Cookie
      <3>3. Refusal(n)'
        BY <1>4, <2>1 DEF Refusal
      <3>4. Exact(n)'
        BY <1>2, <1>3, <1>5, <2>1, <3>1 DEF ClosePcs
      <3> QED BY <1>6, <1>7, <2>1, <3>1, <3>2, <3>3, <3>4 DEF Sound
    <2> QED BY <2>3, <2>4
  <1>15. CASE CloseClear(t)
    <2>1. /\ pc[t] = "close_clear" /\ pc'[t] = "user" /\ node'[t] = None
          /\ irqcookie' = irqcookie \ {n} /\ UNCHANGED <<opencount, handlers, refused>>
          /\ opencount[n] = 0
          /\ \A u \in Threads \ {t} : node[u] # n
      <3>1. pc[t] = "close_clear"
        BY <1>15 DEF CloseClear
      <3> QED BY <1>3, <1>15, <3>1 DEF CloseClear, Goto, IInv, TypeOK, Counted, ClosePcs
    <2>2. Installed(n)'
      <3>1. Removed(n)
        BY <2>1 DEF Removed
      <3> QED BY <1>4, <2>1, <3>1 DEF Installed
    <2>3. Cookie(n)' /\ Refusal(n)'
      BY <2>1 DEF Cookie, Refusal
    <2>4. Exact(n)'
      BY <1>2, <1>3, <1>5, <2>1 DEF ClosePcs
    <2> QED BY <1>7, <2>1, <2>2, <2>3, <2>4 DEF Sound
  <1> QED BY <1>8, <1>9, <1>10, <1>11, <1>12, <1>13, <1>14, <1>15 DEF InnerNext

\* A step inside svga_open() or svga_close() keeps the invariant.
LEMMA InnerHandler ==
  ASSUME IInv, HandlerInv, NEW t \in Threads, InnerNext(t)
  PROVE  HandlerInv'
  <1>1. /\ OneCloser' /\ Owned' /\ Fresh'
        /\ \A n \in Slots \ {node[t]} : SameAt(n)
    BY InnerFrame
  <1>2. /\ raced' = raced /\ UNCHANGED devvars
        /\ \A u \in Threads \ {t} : pc'[u] = pc[u] /\ node'[u] = node[u]
        /\ pc'[t] \in OpenClosePcs \cup {"user"}
    BY InnerFacts
  <1>3. ASSUME NEW n \in Slots \ raced, n = node[t] PROVE Sound(n)'
    <2>1. Sound(n)
      BY DEF HandlerInv
    <2>2. CASE n \in irqresource
      BY <1>3, <2>1, <2>2, DeepSound, ExactSound DEF Sound
    <2>3. CASE n \notin irqresource
      <3>1. n \notin irqresource' /\ n \notin irqcookie'
        BY <1>1, <1>2, <2>3 DEF devvars, Owned
      <3>2. handlers'[n] = handlers[n]
        BY <1>3, <2>3 DEF InnerNext, OpenNoSoftc, OpenLoad, OpenStore, OpenTest,
           CloseLoad, CloseStore, CloseTest, CloseClear, irqvars
      <3>3. \A u \in Threads : node'[u] = n /\ pc'[u] \in {"wait", "sleep"} =>
              node[u] = n /\ pc[u] \in {"wait", "sleep"}
        BY <1>2 DEF OpenClosePcs
      <3> QED BY <2>1, <2>3, <3>1, <3>2, <3>3, NoInterrupt DEF HandlerInv
    <2> QED BY <2>2, <2>3
  <1> QED BY <1>1, <1>2, <1>3, SameSound DEF HandlerInv

\* svga_open() is entered: alone, or with three openings counted, or the node
\* has raced from here on.
LEMMA OpenEnterHandler ==
  ASSUME IInv, HandlerInv, NEW t \in Threads, OpenEnter(t)
  PROVE  HandlerInv'
  <1>1. PICK n \in named :
          /\ node' = [node EXCEPT ![t] = n]
          /\ raced' = IF Races(n) THEN raced \cup {n} ELSE raced
    BY DEF OpenEnter
  <1>2. /\ n \in Slots /\ node[t] = None /\ pc[t] = "user" /\ n # None
        /\ node'[t] = n /\ pc'[t] = "open"
        /\ \A u \in Threads \ {t} : pc'[u] = pc[u] /\ node'[u] = node[u]
        /\ UNCHANGED <<opencount, irqcookie, handlers, refused, cnt>>
        /\ UNCHANGED devvars
        /\ opencount[n] \in Int
    <2>1. n \in Slots /\ opencount[n] \in Int /\ node[t] = None
      BY DEF OpenEnter, IInv, TypeOK
    <2>2. None \notin Slots
      BY DEF Slots, None
    <2>3. pc[t] = "user"
      BY <2>1, <2>2, InsideNode
    <2> QED BY <1>1, <2>1, <2>2, <2>3 DEF OpenEnter, Goto, IInv, TypeOK
  <1>3. OneCloser' /\ Owned' /\ Fresh'
    BY <1>2 DEF HandlerInv, OneCloser, ClosePcs, Owned, Fresh, devvars
  <1>4. \A m \in Slots \ {n} : SameAt(m)
    BY <1>2 DEF SameAt, OpensOrCloses, devvars, Slots, None
  <1>5. ASSUME n \notin raced' PROVE Sound(n)'
    <2>1. Sound(n) /\ ~Races(n)
      BY <1>1, <1>2, <1>5 DEF HandlerInv
    <2>2. CASE n \notin irqresource
      <3>1. n \notin irqresource' /\ n \notin irqcookie'
        BY <1>2, <2>2 DEF devvars, HandlerInv, Owned
      <3> QED BY <1>2, <2>1, <2>2, <3>1, NoInterrupt DEF HandlerInv
    <2>3. CASE n \in irqresource
      <3>1. ~InOpenClose(n) \/ opencount[n] >= 3
        BY <1>2, <2>1, <2>3 DEF Races
      <3>2. Installed(n)' /\ Waits(n)'
        <4>1. Removed(n)' <=> Removed(n)
          BY <1>2 DEF Removed, devvars
        <4> QED BY <1>2, <2>1, <4>1 DEF Sound, Installed, Waits
      <3>3. Cookie(n)' /\ Refusal(n)'
        BY <1>2, <2>1, <2>3 DEF Sound, Cookie, Refusal
      <3>4. \A u \in Threads \ {t} : Counted(u)' <=> Counted(u)
        BY <1>2 DEF Counted
      <3>5. Floor(n)' = Floor(n)
        BY <1>2 DEF Floor
      <3>6. CASE Exact(n) /\ ~InOpenClose(n)
        <4>1. \A u \in Threads \ {t} : node[u] = n => pc[u] \notin OpenClosePcs
          BY <3>6 DEF InOpenClose
        <4>2. Counted(t)'
          BY <1>2 DEF Counted
        <4>3. \A u, v \in Threads : OpensOrCloses(u, n)' /\ OpensOrCloses(v, n)' => u = v
          BY <1>2, <4>1 DEF OpensOrCloses
        <4>4. \A u, v \in Threads :
                node'[u] = n /\ node'[v] = n /\ pc'[u] \in ClosePcs => u = v
          BY <1>2, <4>1 DEF ClosePcs, OpenClosePcs
        <4>5. Exact(n)'
          BY <1>2, <3>4, <3>6, <4>2, <4>3, <4>4 DEF Exact
        <4> QED BY <3>2, <3>3, <4>5 DEF Sound
      <3>7. CASE Exact(n) /\ opencount[n] >= 3
        <4>1. \A u \in Threads : node[u] = n /\ pc[u] \in CountPcs =>
                /\ cnt[u] >= 2
                /\ ~\E v \in Threads : node[v] = n /\ pc[v] = "close"
          BY <1>2, <3>7 DEF Exact, Counted, CountPcs, OpensOrCloses, OpenClosePcs
        <4>2. \A u \in Threads : node[u] = n => pc[u] # "close_clear"
          BY <3>7 DEF Exact, Counted
        <4>3. \A u \in Threads : node[u] = n /\ pc[u] \in CountPcs => cnt[u] >= Floor(n)
          BY <4>1 DEF Floor
        <4>4. opencount[n] >= Floor(n)
          BY <1>2, <3>7 DEF Floor
        <4>5. Deep(n)'
          BY <1>2, <3>5, <4>2, <4>3, <4>4 DEF Deep, CountPcs
        <4> QED BY <3>2, <3>3, <4>5 DEF Sound
      <3>8. CASE Deep(n)
        <4>1. Deep(n)'
          BY <1>2, <3>5, <3>8 DEF Deep, CountPcs
        <4> QED BY <3>2, <3>3, <4>1 DEF Sound
      <3> QED BY <2>1, <2>3, <3>1, <3>6, <3>7, <3>8 DEF Sound
    <2> QED BY <2>2, <2>3
  <1>6. \A m \in (Slots \ raced') \ {n} : Sound(m)'
    <2>1. \A m \in (Slots \ raced') \ {n} : Sound(m) /\ SameAt(m)
      BY <1>1, <1>4 DEF HandlerInv
    <2> QED BY <2>1, SameSound
  <1> QED BY <1>3, <1>5, <1>6 DEF HandlerInv

\* svga_close() is entered by the last reference, which is alone at its node;
\* any other file goes without a call of it.
LEMMA CloseEnterHandler ==
  ASSUME IInv, HandlerInv, NEW t \in Threads, CloseEnter(t)
  PROVE  HandlerInv'
  <1>1. /\ node[t] \in Slots /\ pc[t] = "user"
        /\ \A u \in Threads \ {t} : pc'[u] = pc[u] /\ node'[u] = node[u]
        /\ cnt' = cnt /\ UNCHANGED irqvars /\ UNCHANGED devvars
        /\ opencount[node[t]] \in Int
        /\ \/ pc'[t] = "user" /\ node'[t] = None
           \/ /\ pc'[t] = "close" /\ node'[t] = node[t]
              /\ \A u \in Threads \ {t} : node[u] # node[t]
    BY DEF CloseEnter, Goto, IInv, TypeOK
  <1>2. OneCloser' /\ Owned' /\ Fresh'
    BY <1>1 DEF HandlerInv, OneCloser, ClosePcs, Owned, Fresh, devvars, irqvars, Slots, None
  <1>3. CASE pc'[t] = "user" /\ node'[t] = None
    <2>1. \A n \in Slots : SameAt(n)
      BY <1>1, <1>3 DEF SameAt, OpensOrCloses, OpenClosePcs, devvars, irqvars, Slots, None
    <2> QED BY <1>1, <1>2, <2>1, SameSound DEF HandlerInv, irqvars
  <1>4. CASE pc'[t] = "close"
    <2>1. \A n \in Slots \ {node[t]} : SameAt(n)
      BY <1>1, <1>4 DEF SameAt, OpensOrCloses, devvars, irqvars
    <2>2. ASSUME NEW n \in Slots \ raced, n = node[t] PROVE Sound(n)'
      <3>1. Sound(n) /\ node'[t] = n /\ \A u \in Threads \ {t} : node'[u] # n /\ node[u] # n
        BY <1>1, <1>4, <2>2 DEF HandlerInv
      <3>2. Installed(n)' /\ Waits(n)'
        <4>1. Removed(n)' <=> Removed(n)
          BY <1>1, <1>4, <2>2, <3>1 DEF Removed, devvars
        <4> QED BY <1>1, <1>4, <3>1, <4>1 DEF Sound, Installed, Waits, irqvars
      <3>3. ASSUME n \in irqresource
            PROVE  Exact(n)' /\ Cookie(n)' /\ Refusal(n)'
        <4>1. opencount[n] >= 1
          <5>1. CASE Exact(n)
            BY <1>1, <2>2, <5>1 DEF Exact, Counted
          <5>2. CASE Deep(n)
            <6>1. opencount[n] >= Floor(n)
              BY <5>2 DEF Deep
            <6> QED BY <1>1, <2>2, <6>1 DEF Floor
          <5> QED BY <3>1, <3>3, <5>1, <5>2 DEF Sound
        <4>2. Exact(n)'
          <5>1. Counted(t)'
            BY <1>1, <1>4, <2>2, <4>1 DEF Counted, irqvars
          <5> QED BY <1>1, <2>2, <3>1, <4>1, <5>1 DEF Exact, OpensOrCloses, irqvars
        <4>3. Cookie(n)'
          BY <1>1, <1>4, <2>2, <3>1, <4>1 DEF Cookie, irqvars
        <4>4. Refusal(n)'
          <5>1. n \in irqcookie \/ n \in refused
            BY <1>1, <2>2, <3>1, <3>3, <4>1 DEF Sound, Refusal
          <5> QED BY <1>1, <3>1, <3>3, <5>1 DEF Sound, Refusal, irqvars
        <4> QED BY <4>2, <4>3, <4>4
      <3> QED BY <1>1, <3>2, <3>3 DEF Sound, devvars
    <2> QED BY <1>1, <1>2, <2>1, <2>2, SameSound DEF HandlerInv, irqvars
  <1> QED BY <1>1, <1>3, <1>4

\* An interrupt only wakes sleepers.
LEMMA InterruptHandler ==
  ASSUME IInv, HandlerInv, NEW i \in Slots, Interrupt(i)
  PROVE  HandlerInv'
  <1>1. /\ \A t \in Threads : pc'[t] = pc[t] \/ (pc[t] = "sleep" /\ pc'[t] = "woken")
        /\ UNCHANGED <<node, cnt>> /\ UNCHANGED irqvars /\ UNCHANGED devvars
    BY DEF Interrupt, IInv, TypeOK
  <1>2. OneCloser' /\ Owned' /\ Fresh'
    BY <1>1 DEF HandlerInv, OneCloser, ClosePcs, Owned, Fresh, devvars, irqvars
  <1>3. \A n \in Slots : SameAt(n)
    BY <1>1 DEF SameAt, OpensOrCloses, OpenClosePcs, devvars, irqvars
  <1> QED BY <1>1, <1>2, <1>3, SameSound DEF HandlerInv, irqvars

\* With IInv, the invariant is inductive.
LEMMA NextHandler == IInv /\ HandlerInv /\ [Next]_vars => HandlerInv'
  <1> SUFFICES ASSUME IInv, HandlerInv, [Next]_vars PROVE HandlerInv'
    OBVIOUS
  <1>1. CASE LoaderNext
    BY <1>1, LoaderHandler
  <1>2. ASSUME NEW t \in Threads, CallNext(t) \/ KernelNext(t) PROVE HandlerInv'
    <2>1. CASE CallQuiet(t)
      BY <2>1, QuietHandler
    <2>2. CASE OpenEnter(t)
      BY <2>2, OpenEnterHandler
    <2>3. CASE CloseEnter(t)
      BY <2>3, CloseEnterHandler
    <2>4. CASE InnerNext(t)
      BY <2>4, InnerHandler
    <2> QED BY <1>2, <2>1, <2>2, <2>3, <2>4 DEF CallNext, KernelNext, CallQuiet, InnerNext
  <1>3. ASSUME NEW i \in Slots, Interrupt(i) PROVE HandlerInv'
    BY <1>3, InterruptHandler
  <1>4. CASE UNCHANGED vars
    <2>1. \A n \in Slots : SameAt(n)
      BY <1>4 DEF vars, devvars, irqvars, thrvars, SameAt, OpensOrCloses
    <2>2. OneCloser' /\ Owned' /\ Fresh' /\ raced' = raced
      BY <1>4 DEF vars, devvars, irqvars, thrvars, HandlerInv, OneCloser, Owned, Fresh
    <2> QED BY <2>1, <2>2, SameSound DEF HandlerInv
  <1> QED BY <1>1, <1>2, <1>3, <1>4 DEF Next

\* The invariant holds in every reachable state.
THEOREM HandlerInvariance == Spec => [](IInv /\ HandlerInv)
  <1>1. Init => IInv /\ HandlerInv
    BY InitIInv, InitHandler
  <1>2. (IInv /\ HandlerInv) /\ [Next]_vars => (IInv /\ HandlerInv)'
    BY NextIInv, NextHandler
  <1> QED BY <1>1, <1>2, PTL DEF Spec

\* Until an open races for the count of a node, its interrupt filter never runs
\* on a freed softc (svga_open, svga_close and MOD_UNLOAD).
THEOREM HandlerLive == Spec => []HandlerOwnsSoftc
  <1>1. IInv /\ HandlerInv => HandlerOwnsSoftc
    BY DEF HandlerOwnsSoftc, HandlerInv, Sound, Installed, Owned
  <1> QED BY <1>1, HandlerInvariance, PTL

\* Until then no handler loses its cookie and none is removed twice.
THEOREM NoLeak == Spec => []NoLeakedHandler
  <1>1. IInv /\ HandlerInv => NoLeakedHandler
    BY DEF NoLeakedHandler, HandlerInv, Sound, Installed
  <1> QED BY <1>1, HandlerInvariance, PTL

\* Until then nothing removes the handler under a process that waits for a
\* retrace.
THEOREM SleeperWakes == Spec => []SleeperHasHandler
  <1>1. IInv /\ HandlerInv => SleeperHasHandler
    <2> SUFFICES ASSUME IInv, HandlerInv, NEW t \in Threads, pc[t] = "sleep",
                        node[t] \notin raced
                 PROVE  handlers[node[t]] > 0
      BY DEF SleeperHasHandler
    <2> DEFINE n == node[t]
    <2>1. n \in Slots /\ Sound(n) /\ n \in irqcookie /\ n \in irqresource
      BY InsideNode DEF HandlerInv, Owned, Sound, Waits
    <2>2. ~\E u \in Threads : node[u] = n /\ pc[u] = "close_clear"
      BY <2>1 DEF Sound, Exact, Deep, ClosePcs
    <2>3. ~(loader = "release" /\ cur = n)
      BY DEF IInv, InsideInv, UnloadInv
    <2> QED BY <2>1, <2>2, <2>3 DEF Sound, Installed, Removed
  <1> QED BY <1>1, HandlerInvariance, PTL

\* Until then an open adapter with an interrupt has its handler, unless the bus
\* refused it to the first opener.
THEOREM OpenWaits == Spec => []OpenHasHandler
  <1>1. IInv /\ HandlerInv => OpenHasHandler
    <2> SUFFICES ASSUME IInv, HandlerInv, NEW t \in Threads,
                        node[t] \in (named \cap irqresource) \ raced,
                        ~InOpenClose(node[t])
                 PROVE  IF node[t] \in refused
                        THEN node[t] \notin irqcookie /\ handlers[node[t]] = 0
                        ELSE node[t] \in irqcookie /\ handlers[node[t]] = 1
      BY DEF OpenHasHandler
    <2> DEFINE n == node[t]
    <2>1. n \in Slots /\ opencount[n] \in Int /\ Sound(n)
      BY DEF IInv, TypeOK, HandlerInv
    <2>2. pc[t] \notin OpenClosePcs
          /\ ~\E u \in Threads : node[u] = n /\ pc[u] \in {"open_test", "close_clear"}
      BY DEF InOpenClose, OpenClosePcs
    <2>3. opencount[n] >= 1
      <3>1. CASE Exact(n)
        BY <2>2, <3>1 DEF Exact, Counted, OpenClosePcs
      <3>2. CASE Deep(n)
        <4>1. opencount[n] >= Floor(n)
          BY <3>2 DEF Deep
        <4> QED BY <2>1, <4>1 DEF Floor
      <3> QED BY <2>1, <3>1, <3>2 DEF Sound
    <2>4. ~Removed(n)
      BY <2>2 DEF Removed, IInv, UnloadInv
    <2>5. n \in refused \/ n \in irqcookie
      BY <2>1, <2>2, <2>3 DEF Sound, Refusal
    <2>6. ~(n \in refused /\ n \in irqcookie)
      BY <2>1 DEF Sound, Refusal
    <2> QED BY <2>1, <2>4, <2>5, <2>6 DEF Sound, Installed
  <1> QED BY <1>1, HandlerInvariance, PTL
=============================================================================
