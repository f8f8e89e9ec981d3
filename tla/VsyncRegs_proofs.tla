--------------------------- MODULE VsyncRegs_proofs ---------------------------
(***************************************************************************)
(* What enable_vsync() and ack_vsync() of every adapter achieve, for any   *)
(* number of waiting processes and of processes that use the ports: after  *)
(* a call in which nobody else has interfered the interrupt is enabled, or *)
(* the line is silent, and the rest of a register survives every           *)
(* interleaving.                                                           *)
(***************************************************************************)
EXTENDS VsyncRegs, TLAPS

Cards == {"vga", "s3", "nv3", "nv4", "r128", "rage", "rendition"}

\* Every adapter gets one of the seven pairs of functions.
LEMMA CardIsOne == Card \in Cards
  BY DEF Card, vga_init_vsync, Cards

\* The accesses of the two functions of each card, one by one.
LEMMA VgaCode ==
  ASSUME Card = "vga", NEW a
  PROVE  /\ Len(Code(a)) = 8
         /\ \A k \in {1, 3, 5, 7} : Code(a)[k] = Index
         /\ \A k \in {2, 6} : Code(a)[k] = Read("cr11")
         /\ Code(a)[4] = IF a = Filter THEN Put("cr11", "pb", {4}, {5})
                                       ELSE Put("cr11", "pb", {4, 5}, {})
         /\ Code(a)[8] = IF a = Filter THEN Put("cr11", "pb", {}, {5})
                                       ELSE Put("cr11", "pb", {}, {4})
  <1>1. CASE a = Filter
    <2>1. Code(a) = ModifyTwice({4}, {5}, {}, {5})
      BY <1>1 DEF Code, AckVsync, vga_ack_vsync
    <2> QED BY <2>1, <1>1 DEF ModifyTwice
  <1>2. CASE a # Filter
    <2>1. Code(a) = ModifyTwice({4, 5}, {}, {}, {4})
      BY <1>2 DEF Code, EnableVsync, vga_enable_vsync
    <2> QED BY <2>1, <1>2 DEF ModifyTwice
  <1> QED BY <1>1, <1>2

LEMMA Nv3Code ==
  ASSUME Card = "nv3", NEW a
  PROVE  /\ a = Filter =>
            /\ Len(Code(a)) = 5
            /\ Code(a)[1] = Set("100", Bits) /\ Code(a)[2] = Set("400100", {8})
            /\ Code(a)[3] = Set("140", {}) /\ Code(a)[4] = Set("400140", {})
            /\ Code(a)[5] = [op |-> "restore", reg |-> "200"]
         /\ a # Filter =>
            /\ Len(Code(a)) = 6
            /\ Code(a)[1] = Save("200") /\ Code(a)[2] = Put("200", "saved_pmc", {}, {12})
            /\ Code(a)[3] = Set("140", {0}) /\ Code(a)[4] = Set("400140", {8})
            /\ Code(a)[5] = Set("100", Bits) /\ Code(a)[6] = Set("400100", Bits)
  <1>1. /\ a = Filter => Code(a) = nv3_ack_vsync
        /\ a # Filter => Code(a) = nv3_enable_vsync
    BY DEF Code, AckVsync, EnableVsync
  <1> QED BY <1>1 DEF nv3_ack_vsync, nv3_enable_vsync

LEMMA Nv4Code ==
  ASSUME Card = "nv4", NEW a
  PROVE  /\ a = Filter =>
            /\ Len(Code(a)) = 5
            /\ Code(a)[1] = Set("100", Bits) /\ Code(a)[2] = Set("600100", {0})
            /\ Code(a)[3] = Set("140", {}) /\ Code(a)[4] = Set("600140", {})
            /\ Code(a)[5] = Put("200", "saved_pmc", {}, {})
         /\ a # Filter =>
            /\ Len(Code(a)) = 6
            /\ Code(a)[1] = Save("200") /\ Code(a)[2] = Put("200", "saved_pmc", {}, {24})
            /\ Code(a)[3] = Set("140", {0}) /\ Code(a)[4] = Set("600140", {0})
            /\ Code(a)[5] = Set("100", Bits) /\ Code(a)[6] = Set("600100", Bits)
  <1>1. /\ a = Filter => Code(a) = nv4_ack_vsync
        /\ a # Filter => Code(a) = nv4_enable_vsync
    BY DEF Code, AckVsync, EnableVsync
  <1> QED BY <1>1 DEF nv4_ack_vsync, nv4_enable_vsync

LEMMA R128Code ==
  ASSUME Card = "r128", NEW a
  PROVE  /\ Len(Code(a)) = 3
         /\ Code(a)[1] = Set("44", {0}) /\ Code(a)[2] = Read("40")
         /\ Code(a)[3] = IF a = Filter THEN Put("40", "pb", {0}, {})
                                       ELSE Put("40", "pb", {}, {0})
  <1>1. /\ a = Filter => Code(a) = r128_ack_vsync
        /\ a # Filter => Code(a) = r128_enable_vsync
    BY DEF Code, AckVsync, EnableVsync
  <1> QED BY <1>1 DEF r128_ack_vsync, r128_enable_vsync

LEMMA RageCode ==
  ASSUME Card = "rage", NEW a
  PROVE  /\ Len(Code(a)) = 2
         /\ Code(a)[1] = Read("18")
         /\ Code(a)[2] = IF a = Filter THEN Put("18", "pb", {0, 1, 2}, {2, 3})
                                       ELSE Put("18", "pb", {0, 1, 2}, {1, 2, 3})
  <1>1. /\ a = Filter => Code(a) = rage_ack_vsync
        /\ a # Filter => Code(a) = rage_enable_vsync
    BY DEF Code, AckVsync, EnableVsync
  <1> QED BY <1>1 DEF rage_ack_vsync, rage_enable_vsync

LEMMA RenditionCode ==
  ASSUME Card = "rendition", NEW a
  PROVE  /\ Len(Code(a)) = 2
         /\ Code(a)[1] = Set("44", {0})
         /\ Code(a)[2] = IF a = Filter THEN Set("46", {}) ELSE Set("46", {0})
  <1>1. /\ a = Filter => Code(a) = rendition_ack_vsync
        /\ a # Filter => Code(a) = rendition_enable_vsync
    BY DEF Code, AckVsync, EnableVsync
  <1> QED BY <1>1 DEF rendition_ack_vsync, rendition_enable_vsync

LEMMA S3Code ==
  ASSUME Card = "s3", NEW a
  PROVE  /\ Len(Code(a)) = 1
         /\ Code(a)[1] = IF a = Filter THEN Set("8504", {0}) ELSE Set("8504", {0, 8})
  <1>1. /\ a = Filter => Code(a) = s3_ack_vsync
        /\ a # Filter => Code(a) = s3_enable_vsync
    BY DEF Code, AckVsync, EnableVsync
  <1> QED BY <1>1 DEF s3_ack_vsync, s3_enable_vsync

-----------------------------------------------------------------------------
(***************************************************************************)
(* What one access does, by its kind.                                      *)
(***************************************************************************)
LEMMA AccessIndex ==
  ASSUME NEW a, Access(a), Code(a)[at[a]] = Index
  PROVE  index' = "cr11" /\ UNCHANGED <<regs, pending, saved_pmc, pb>>
  BY DEF Access, Index

LEMMA AccessRead ==
  ASSUME NEW a, NEW r, Access(a), Code(a)[at[a]] = Read(r)
  PROVE  /\ pb' = [pb EXCEPT ![a] = regs[Reached(r)]]
         /\ UNCHANGED <<regs, pending, saved_pmc, index>>
  BY DEF Access, Read

LEMMA AccessSave ==
  ASSUME NEW a, NEW r, Access(a), Code(a)[at[a]] = Save(r)
  PROVE  saved_pmc' = regs[r] /\ UNCHANGED <<regs, pending, pb, index>>
  BY DEF Access, Save

LEMMA AccessPut ==
  ASSUME NEW a, NEW r, NEW base, NEW del, NEW add,
         Access(a), Code(a)[at[a]] = Put(r, base, del, add)
  PROVE  /\ base = "pb" => WriteReg(Reached(r), (pb[a] \ del) \cup add)
         /\ base = "saved_pmc" => WriteReg(Reached(r), (saved_pmc \ del) \cup add)
         /\ base = "zero" => WriteReg(Reached(r), add)
         /\ pb' = [pb EXCEPT ![a] = {}]
         /\ UNCHANGED <<saved_pmc, index>>
  <1> DEFINE op == Put(r, base, del, add)
  <1>1. /\ op.op = "write" /\ op.reg = r /\ op.base = base /\ op.del = del
        /\ op.add = add
    BY DEF Put
  <1>2. /\ WriteReg(Reached(r), (Base(a, op) \ del) \cup add)
        /\ pb' = [pb EXCEPT ![a] = {}]
        /\ UNCHANGED <<saved_pmc, index>>
    <2> HIDE DEF op
    <2>1. Code(a)[at[a]] = op
      BY DEF op
    <2> QED BY <1>1, <2>1 DEF Access
  <1>3. /\ base = "pb" => Base(a, op) = pb[a]
        /\ base = "saved_pmc" => Base(a, op) = saved_pmc
        /\ base = "zero" => Base(a, op) = {}
    BY <1>1 DEF Base
  <1>4. ({} \ del) \cup add = add
    OBVIOUS
  <1> HIDE DEF op
  <1> QED BY <1>2, <1>3, <1>4

LEMMA AccessSet ==
  ASSUME NEW a, NEW r, NEW add, Access(a), Code(a)[at[a]] = Set(r, add)
  PROVE  /\ WriteReg(Reached(r), add)
         /\ pb' = [pb EXCEPT ![a] = {}]
         /\ UNCHANGED <<saved_pmc, index>>
  <1> DEFINE op == Set(r, add)
  <1>1. /\ op.op = "write" /\ op.reg = r /\ op.base = "zero" /\ op.del = {}
        /\ op.add = add
    BY DEF Set, Put
  <1>2. Base(a, op) = {}
    BY <1>1 DEF Base
  <1> HIDE DEF op
  <1>3. Code(a)[at[a]] = op
    BY DEF op
  <1>4. WriteReg(Reached(r), (Base(a, op) \ {}) \cup add)
        /\ pb' = [pb EXCEPT ![a] = {}]
        /\ UNCHANGED <<saved_pmc, index>>
    BY <1>1, <1>3 DEF Access
  <1>5. ({} \ {}) \cup add = add
    OBVIOUS
  <1> QED BY <1>2, <1>4, <1>5

LEMMA AccessRestore ==
  ASSUME NEW a, NEW r, Access(a), Code(a)[at[a]] = [op |-> "restore", reg |-> r]
  PROVE  /\ \/ saved_pmc # Bits /\ WriteReg(r, saved_pmc)
            \/ UNCHANGED <<regs, pending>>
         /\ UNCHANGED <<saved_pmc, pb, index>>
  BY DEF Access

-----------------------------------------------------------------------------
(***************************************************************************)
(* The invariant.  What an actor has achieved so far, by its position.     *)
(***************************************************************************)
\* An enable_vsync() in which nobody has interfered.
Enabling(t) ==
  /\ Card = "vga" => /\ at[t] >= 2 => index = "cr11"
                     /\ at[t] >= 5 => 5 \notin regs["cr11"]
                     /\ at[t] >= 7 => 5 \notin pb[t]
  /\ Card = "nv3" => /\ at[t] >= 4 => 0 \in regs["140"]
                     /\ at[t] >= 5 => 8 \in regs["400140"]
  /\ Card = "nv4" => /\ at[t] >= 4 => 0 \in regs["140"]
                     /\ at[t] >= 5 => 0 \in regs["600140"]

\* An ack_vsync() in which nobody has interfered.
Silencing ==
  /\ Card = "vga" => (at[Filter] >= 2 => index = "cr11")
  /\ Card \in {"nv3", "nv4"} => (at[Filter] >= 4 => 0 \notin regs["140"])

Alone(a) ==
  mixed[a] = "no" =>
    /\ a # Filter => /\ pc[a] = "run" => Enabling(a)
                     /\ pc[a] = "tsleep" => Enabled
    /\ a = Filter => /\ pc[a] = "run" => Silencing
                     /\ pc[a] = "wakeup" => ~Enabled

\* What a call keeps of the rest of a register, whoever interferes.
Keeps(v) == v \cap RestBits = AtBoot
OwnNv4 == Card = "nv4" /\ adapter.line # "shared"
SavesPmc == Card = "nv3" \/ OwnNv4
Keeping(a) ==
  pc[a] = "run" =>
    /\ Card = "vga" /\ ~crossed =>
         /\ at[a] >= 2 => index = "cr11"
         /\ at[a] \in {3, 4, 7, 8} => Keeps(pb[a])
    /\ Card = "r128" /\ at[a] = 3 => Keeps(pb[a])
    /\ Card = "rage" /\ at[a] = 2 => Keeps(pb[a])
    /\ SavesPmc /\ a # Filter /\ at[a] >= 2 => Keeps(saved_pmc)

At_OK == \A a \in Actors : at[a] <= Len(Code(a))
Alone_OK == \A a \in Actors : Alone(a)
Rest_OK ==
  /\ \A r \in InPlace : Keeps(regs[r])
  /\ Card = "nv3" => saved_pmc = Bits \/ Keeps(saved_pmc)
  /\ \A a \in Actors : Keeping(a)

\* On a line of its own the filter of nv4 runs only after an enable_vsync(),
\* hence after a save, has switched the interrupts on.
Pmc_OK ==
  OwnNv4 => \/ Keeps(saved_pmc)
            \/ pc[Filter] = "idle" /\ 0 \notin regs["140"]

IInv == TypeOK /\ At_OK /\ Alone_OK /\ Rest_OK /\ Pmc_OK

LEMMA InitIInv == Init => IInv
  <1> SUFFICES ASSUME Init PROVE IInv
    OBVIOUS
  <1>1. TypeOK
    <2>1. regs \in [Registers -> SUBSET Bits] /\ saved_pmc \subseteq Bits
      BY DEF Init, Bits, AtBoot, RestBits
    <2>2. port \in [PortUsers -> 0 .. 2 * MaxPairs]
      BY PairsAssumption DEF Init
    <2>3. pc \in [Actors -> {"user", "run", "tsleep", "sleep", "idle", "wakeup"}]
      BY DEF Init
    <2>4. at \in [Actors -> 1 .. 8] /\ pb \in [Actors -> SUBSET Bits]
      BY DEF Init
    <2>5. adapter \in Adapters /\ pending \in BOOLEAN /\ crossed \in BOOLEAN
      BY DEF Init
    <2>6. index \in {"cr11", "cr0c"} /\ mixed \in [Actors -> {"no", "port", "yes"}]
      BY DEF Init
    <2> QED BY <2>1, <2>2, <2>3, <2>4, <2>5, <2>6 DEF TypeOK
  <1>2. \A a : Len(Code(a)) \in 1 .. 8
    BY CardIsOne, VgaCode, Nv3Code, Nv4Code, R128Code, RageCode, RenditionCode, S3Code
       DEF Cards
  <1>3. At_OK
    <2> SUFFICES ASSUME NEW a \in Actors PROVE at[a] <= Len(Code(a))
      BY DEF At_OK
    <2>1. at[a] = 1
      BY DEF Init
    <2> DEFINE n == Len(Code(a))
    <2>2. n \in 1 .. 8
      BY <1>2
    <2> HIDE DEF n
    <2>3. 1 <= n
      BY <2>2
    <2> QED BY <2>1, <2>3 DEF n
  <1>4. Alone_OK
    BY DEF Alone_OK, Alone, Init
  <1>5. Rest_OK
    <2>1. \A r \in Registers : Keeps(regs[r])
      BY DEF Init, Keeps, AtBoot, RestBits
    <2>2. InPlace \subseteq Registers
      BY DEF InPlace, Registers
    <2>3. \A a \in Actors : pc[a] # "run"
      BY DEF Init
    <2>4. saved_pmc = Bits
      BY DEF Init
    <2> QED BY <2>1, <2>2, <2>3, <2>4 DEF Rest_OK, Keeping
  <1>6. Pmc_OK
    BY DEF Init, Pmc_OK, Registers, AtBoot, Actors
  <1> QED BY <1>1, <1>3, <1>4, <1>5, <1>6 DEF IInv

\* A step of b ends the time alone of everybody else who is in a function.
LEMMA Mixed ==
  ASSUME NEW b, mixed \in [Actors -> {"no", "port", "yes"}]
  PROVE  /\ Mix(b) \in [Actors -> {"no", "port", "yes"}]
         /\ \A a \in Actors : a # b /\ Busy(a) => Mix(b)[a] # "no"
         /\ \A a \in Actors : a = b \/ ~Busy(a) => Mix(b)[a] = mixed[a]
  BY DEF Mix

-----------------------------------------------------------------------------
(***************************************************************************)
(* The actions that touch no register.                                     *)
(***************************************************************************)
LEMMA CodeLength ==
  ASSUME NEW a
  PROVE  1 <= Len(Code(a)) /\ Len(Code(a)) \in 1 .. 8
  BY CardIsOne, VgaCode, Nv3Code, Nv4Code, R128Code, RageCode, RenditionCode, S3Code
     DEF Cards

\* An actor that nothing happens to keeps its part of the invariant.
LEMMA Still ==
  ASSUME NEW c \in Actors, Alone(c), Keeping(c),
         UNCHANGED <<adapter, regs, saved_pmc, index, crossed>>,
         pc'[c] = pc[c], at'[c] = at[c], pb'[c] = pb[c], mixed'[c] = mixed[c]
  PROVE  Alone(c)' /\ Keeping(c)'
  <1>1. Card' = Card
    BY DEF Card
  <1>2. Enabled' <=> Enabled
    BY <1>1 DEF Enabled
  <1>3. Alone(c)'
    BY <1>1, <1>2 DEF Alone, Enabling, Silencing
  <1>4. Keeping(c)'
    BY <1>1 DEF Keeping, Keeps, SavesPmc, OwnNv4
  <1> QED BY <1>3, <1>4

\* An actor outside of a function, or at its beginning, has achieved nothing.
LEMMA Outside ==
  ASSUME NEW c \in Actors,
         pc'[c] \in {"user", "idle", "sleep"} \/ (pc'[c] = "run" /\ at'[c] = 1)
  PROVE  Alone(c)' /\ Keeping(c)'
  <1>1. Alone(c)'
    BY DEF Alone, Enabling, Silencing
  <1>2. Keeping(c)'
    BY DEF Keeping
  <1> QED BY <1>1, <1>2

\* The registers of an adapter that no access has reached.
LEMMA Untouched ==
  ASSUME IInv, UNCHANGED <<adapter, regs, saved_pmc, crossed>>,
         \A a \in Actors : Keeping(a)', pc'[Filter] \in {"idle", pc[Filter]}
  PROVE  Rest_OK' /\ Pmc_OK'
  <1>1. Card' = Card
    BY DEF Card
  <1>2. InPlace' = InPlace
    BY <1>1 DEF InPlace
  <1>3. Pmc_OK'
    BY <1>1 DEF IInv, Pmc_OK, OwnNv4, Keeps
  <1> QED BY <1>1, <1>2, <1>3 DEF IInv, Rest_OK, Keeps

\* The positions of an adapter's functions.
LEMMA SameLength ==
  ASSUME UNCHANGED adapter, NEW a
  PROVE  Code(a)' = Code(a)
  BY DEF Code, Card

LEMMA RetraceIInv == ASSUME IInv, Retrace PROVE IInv'
  <1>1. TypeOK'
    BY DEF IInv, TypeOK, Retrace, portvars
  <1>2. \A c \in Actors : Alone(c)' /\ Keeping(c)'
    BY Still DEF IInv, Alone_OK, Rest_OK, Retrace, portvars
  <1>3. At_OK'
    BY SameLength DEF IInv, At_OK, Retrace
  <1>4. Rest_OK' /\ Pmc_OK'
    BY <1>2, Untouched DEF Retrace, portvars
  <1> QED BY <1>1, <1>2, <1>3, <1>4 DEF IInv, Alone_OK

LEMMA BeginIInv == ASSUME IInv, NEW a \in Actors, Begin(a) PROVE IInv'
  <1>1. TypeOK'
    BY DEF IInv, TypeOK, Begin, Goto, portvars
  <1>2. at \in [Actors -> 1 .. 8] /\ pc \in [Actors -> {"user", "run", "tsleep", "sleep", "idle", "wakeup"}]
        /\ mixed \in [Actors -> {"no", "port", "yes"}]
    BY DEF IInv, TypeOK
  <1>3. ASSUME NEW c \in Actors PROVE Alone(c)' /\ Keeping(c)'
    <2>1. CASE c = a
      <3>1. pc'[c] = "run" /\ at'[c] = 1
        BY <1>2, <2>1 DEF Begin, Goto
      <3> QED BY <3>1, Outside
    <2>2. CASE c # a
      <3>1. pc'[c] = pc[c] /\ at'[c] = at[c] /\ mixed'[c] = mixed[c] /\ pb'[c] = pb[c]
        BY <1>2, <2>2 DEF Begin, Goto
      <3>2. Alone(c) /\ Keeping(c)
        BY DEF IInv, Alone_OK, Rest_OK
      <3> QED BY <3>1, <3>2, Still DEF Begin, portvars
    <2> QED BY <2>1, <2>2
  <1>4. At_OK'
    <2> SUFFICES ASSUME NEW c \in Actors PROVE at'[c] <= Len(Code(c)')
      BY DEF At_OK
    <2>1. Code(c)' = Code(c)
      BY SameLength DEF Begin
    <2>2. at'[c] = 1 \/ at'[c] = at[c]
      BY <1>2 DEF Begin
    <2>3. at[c] <= Len(Code(c)) /\ 1 <= Len(Code(c))
      BY CodeLength DEF IInv, At_OK
    <2> QED BY <2>1, <2>2, <2>3
  <1>5. Rest_OK'
    <2>1. Card' = Card /\ UNCHANGED <<adapter, regs, saved_pmc, crossed>>
      BY DEF Begin, Card, portvars
    <2>2. InPlace' = InPlace
      BY <2>1 DEF InPlace
    <2> QED BY <1>3, <2>1, <2>2 DEF IInv, Rest_OK, Keeps
  <1>6. Pmc_OK'
    <2>1. Card' = Card /\ UNCHANGED <<adapter, regs, saved_pmc>>
      BY DEF Begin, Card
    <2>2. CASE a = Filter
      <3>1. Line \/ adapter.line = "shared"
        BY <2>2 DEF Begin
      <3>2. OwnNv4 => 0 \in regs["140"]
        BY <3>1 DEF OwnNv4, Line, Enabled
      <3>3. OwnNv4 => Keeps(saved_pmc)
        BY <3>2 DEF IInv, Pmc_OK
      <3> QED BY <2>1, <3>3 DEF Pmc_OK, OwnNv4, Keeps
    <2>3. CASE a # Filter
      <3>1. pc'[Filter] = pc[Filter]
        BY <1>2, <2>3 DEF Begin, Goto, Actors
      <3> QED BY <2>1, <3>1 DEF IInv, Pmc_OK, OwnNv4, Keeps
    <2> QED BY <2>2, <2>3
  <1> QED BY <1>1, <1>3, <1>4, <1>5, <1>6 DEF IInv, Alone_OK

LEMMA SleepIInv == ASSUME IInv, NEW t \in Threads, Sleep(t) \/ Timeout(t) PROVE IInv'
  <1>1. TypeOK'
    BY DEF IInv, TypeOK, Sleep, Timeout, Goto, portvars, Actors
  <1>2. pc \in [Actors -> {"user", "run", "tsleep", "sleep", "idle", "wakeup"}]
        /\ mixed \in [Actors -> {"no", "port", "yes"}] /\ t \in Actors
    BY DEF IInv, TypeOK, Actors
  <1>3. ASSUME NEW c \in Actors PROVE Alone(c)' /\ Keeping(c)'
    <2>1. CASE c = t
      <3>1. pc'[c] \in {"user", "sleep"}
        BY <1>2, <2>1 DEF Sleep, Timeout, Goto
      <3> QED BY <3>1, Outside
    <2>2. CASE c # t
      <3>1. pc'[c] = pc[c] /\ at'[c] = at[c] /\ mixed'[c] = mixed[c] /\ pb'[c] = pb[c]
        BY <1>2, <2>2 DEF Sleep, Timeout, Goto
      <3>2. Alone(c) /\ Keeping(c)
        BY DEF IInv, Alone_OK, Rest_OK
      <3> QED BY <3>1, <3>2, Still DEF Sleep, Timeout, portvars
    <2> QED BY <2>1, <2>2
  <1>4. At_OK'
    BY SameLength DEF IInv, At_OK, Sleep, Timeout
  <1>5. Rest_OK' /\ Pmc_OK'
    <2>1. pc'[Filter] = pc[Filter]
      BY <1>2, ActorAssumption DEF Sleep, Timeout, Goto, Filter, Actors
    <2> QED BY <1>3, <2>1, Untouched DEF Sleep, Timeout, portvars
  <1> QED BY <1>1, <1>3, <1>4, <1>5 DEF IInv, Alone_OK

LEMMA WakeupIInv == ASSUME IInv, Wakeup PROVE IInv'
  <1>1. TypeOK'
    BY DEF IInv, TypeOK, Wakeup, portvars
  <1>2. ASSUME NEW c \in Actors PROVE Alone(c)' /\ Keeping(c)'
    <2>1. CASE pc'[c] \in {"user", "idle"}
      BY <2>1, Outside
    <2>2. CASE pc'[c] \notin {"user", "idle"}
      <3>1. pc'[c] = pc[c] /\ at'[c] = at[c] /\ mixed'[c] = mixed[c] /\ pb'[c] = pb[c]
        BY <2>2 DEF Wakeup
      <3>2. Alone(c) /\ Keeping(c)
        BY DEF IInv, Alone_OK, Rest_OK
      <3> QED BY <3>1, <3>2, Still DEF Wakeup, portvars
    <2> QED BY <2>1, <2>2
  <1>3. At_OK'
    BY SameLength DEF IInv, At_OK, Wakeup
  <1>4. Rest_OK' /\ Pmc_OK'
    <2>1. pc'[Filter] = "idle"
      BY DEF Wakeup, Actors
    <2> QED BY <1>2, <2>1, Untouched DEF Wakeup, portvars
  <1> QED BY <1>1, <1>2, <1>3, <1>4 DEF IInv, Alone_OK

-----------------------------------------------------------------------------
(***************************************************************************)
(* The accesses of port users and of the functions.                        *)
(***************************************************************************)
\* Who is in a function while somebody else makes an access is not alone.
LEMMA Disturbed ==
  ASSUME IInv, NEW b, NEW c \in Actors, c # b, mixed' = Mix(b), pc'[c] = pc[c]
  PROVE  Alone(c)'
  <1>1. CASE Busy(c)
    <2>1. mixed'[c] # "no"
      BY <1>1, Mixed DEF IInv, TypeOK
    <2> QED BY <2>1 DEF Alone
  <1>2. CASE ~Busy(c)
    BY <1>2 DEF Alone, Busy
  <1> QED BY <1>1, <1>2

LEMMA OutBIInv == ASSUME IInv, NEW p \in PortUsers, OutB(p) PROVE IInv'
  <1>1. UNCHANGED <<adapter, saved_pmc, pc, at, pb>> /\ Card = "vga" /\ Card' = "vga"
    BY DEF OutB, Card
  <1>2. p \notin Actors
    BY ActorAssumption DEF Actors, Filter
  <1>3. /\ index' \in {"cr11", "cr0c"}
        /\ regs' = regs \/ regs' = [regs EXCEPT ![index] = AtBoot]
    BY DEF OutB, WriteReg, IInv, TypeOK
  <1>4. TypeOK'
    <2>0. pending' \in BOOLEAN
      BY DEF OutB, WriteReg, IInv, TypeOK
    <2>1. regs' \in [Registers -> SUBSET Bits]
      BY <1>3 DEF IInv, TypeOK, AtBoot, Bits, RestBits
    <2>2. port' \in [PortUsers -> 0 .. 2 * MaxPairs]
      BY PairsAssumption DEF IInv, TypeOK, OutB
    <2>3. mixed' \in [Actors -> {"no", "port", "yes"}]
      BY Mixed DEF IInv, TypeOK, OutB
    <2>4. crossed' \in BOOLEAN
      BY DEF IInv, TypeOK, OutB
    <2> QED BY <1>1, <1>3, <2>0, <2>1, <2>2, <2>3, <2>4 DEF IInv, TypeOK
  <1>5. Alone_OK'
    BY <1>1, <1>2, Disturbed DEF OutB, Alone_OK
  <1>6. At_OK'
    BY <1>1, SameLength DEF IInv, At_OK
  <1>7. Rest_OK'
    <2>1. \A c \in Actors : Keeping(c)'
      BY <1>1 DEF Keeping, OutB, SavesPmc, OwnNv4
    <2>2. InPlace' \subseteq InPlace /\ InPlace \subseteq Registers
      BY <1>1 DEF InPlace, OutB, Registers
    <2>3. \A r \in InPlace : Keeps(regs'[r])
      <3>1. Keeps(AtBoot)
        BY DEF Keeps, AtBoot, RestBits
      <3>2. \A r \in InPlace : Keeps(regs[r])
        BY DEF IInv, Rest_OK
      <3>3. regs \in [Registers -> SUBSET Bits]
        BY DEF IInv, TypeOK
      <3> QED BY <1>3, <2>2, <3>1, <3>2, <3>3
    <2> QED BY <1>1, <2>1, <2>2, <2>3 DEF Rest_OK, Keeps
  <1>8. Pmc_OK'
    BY <1>1 DEF Pmc_OK, OwnNv4
  <1> QED BY <1>4, <1>5, <1>6, <1>7, <1>8 DEF IInv

\* What the steps of every card's functions do to the invariant of the actor
\* and to what the others rely on.
Typed(a) ==
  /\ regs' \in [Registers -> SUBSET Bits] /\ pending' \in BOOLEAN
  /\ saved_pmc' \subseteq Bits
  /\ pb' \in [Actors -> SUBSET Bits] /\ \A c \in Actors \ {a} : pb'[c] = pb[c]
  /\ index' = index \/ index' = "cr11"
Achieves(a) ==
  /\ Typed(a)
  /\ \A r \in InPlace' : Keeps(regs'[r])
  /\ SavesPmc => \/ saved_pmc' = saved_pmc
                 \/ Keeps(saved_pmc')
  /\ Alone(a)' /\ Keeping(a)'

LEMMA StepIInv == ASSUME IInv, NEW a \in Actors, Step(a), Achieves(a) PROVE IInv'
  <1>1. Card' = Card /\ UNCHANGED <<adapter, port>>
    BY DEF Step, Card
  <1>2. at \in [Actors -> 1 .. 8] /\ pc \in [Actors -> {"user", "run", "tsleep", "sleep", "idle", "wakeup"}]
    BY DEF IInv, TypeOK
  <1>3. Len(Code(a)) \in 1 .. 8 /\ at[a] <= Len(Code(a))
    BY CodeLength DEF IInv, At_OK
  <1>4. at' = [at EXCEPT ![a] = IF at[a] = Len(Code(a)) THEN 1 ELSE at[a] + 1]
    BY DEF Step
  <1>5. TypeOK'
    <2>1. at' \in [Actors -> 1 .. 8]
      <3> DEFINE n == Len(Code(a))
      <3>1. n \in 1 .. 8 /\ at[a] <= n /\ at' = [at EXCEPT ![a] = IF at[a] = n THEN 1 ELSE at[a] + 1]
        BY <1>3, <1>4
      <3> HIDE DEF n
      <3> QED BY <1>2, <3>1
    <2>2. pc' \in [Actors -> {"user", "run", "tsleep", "sleep", "idle", "wakeup"}]
      BY <1>2 DEF Step
    <2>3. mixed' \in [Actors -> {"no", "port", "yes"}] /\ crossed' \in BOOLEAN
      BY Mixed DEF IInv, TypeOK, Step
    <2>4. index' \in {"cr11", "cr0c"}
      BY DEF Achieves, Typed, IInv, TypeOK
    <2> QED BY <1>1, <2>1, <2>2, <2>3, <2>4 DEF IInv, TypeOK, Achieves, Typed
  <1>6. At_OK'
    <2> SUFFICES ASSUME NEW c \in Actors PROVE at'[c] <= Len(Code(c)')
      BY DEF At_OK
    <2>1. Code(c)' = Code(c)
      BY <1>1, SameLength
    <2>2. CASE c # a
      <3>1. at'[c] = at[c]
        BY <1>2, <1>4, <2>2
      <3> QED BY <2>1, <3>1 DEF IInv, At_OK
    <2>3. CASE c = a
      <3> DEFINE n == Len(Code(a))
      <3>1. n \in 1 .. 8 /\ at[a] <= n /\ at'[a] = IF at[a] = n THEN 1 ELSE at[a] + 1
        BY <1>2, <1>3, <1>4
      <3> HIDE DEF n
      <3>2. at'[a] <= n
        BY <1>2, <3>1
      <3> QED BY <2>1, <2>3, <3>2 DEF n
    <2> QED BY <2>2, <2>3
  <1>7. ASSUME NEW c \in Actors, c # a
        PROVE  pc'[c] = pc[c] /\ at'[c] = at[c] /\ pb'[c] = pb[c]
    BY <1>2, <1>4, <1>7 DEF Step, Achieves, Typed
  <1>8. Alone_OK'
    <2> SUFFICES ASSUME NEW c \in Actors PROVE Alone(c)'
      BY DEF Alone_OK
    <2>1. CASE c = a
      BY <2>1 DEF Achieves
    <2>2. CASE c # a
      BY <1>7, <2>2, Disturbed DEF Step
    <2> QED BY <2>1, <2>2
  <1>9. Rest_OK'
    <2>1. SavesPmc => \/ saved_pmc' = saved_pmc
                      \/ Keeps(saved_pmc')
      BY DEF Achieves
    <2>2. ASSUME NEW c \in Actors PROVE Keeping(c)'
      <3>1. CASE c = a
        BY <3>1 DEF Achieves
      <3>2. CASE c # a
        <4>1. Keeping(c) /\ (crossed => crossed')
          BY DEF IInv, Rest_OK, Step
        <4> QED BY <1>1, <1>7, <2>1, <3>2, <4>1
             DEF Keeping, Keeps, Achieves, Typed, SavesPmc, OwnNv4
      <3> QED BY <3>1, <3>2
    <2>3. Card = "nv3" => saved_pmc' = Bits \/ Keeps(saved_pmc')
      BY <2>1 DEF IInv, Rest_OK, SavesPmc
    <2> QED BY <1>1, <2>2, <2>3 DEF Rest_OK, Achieves, Keeps
  <1>10. Pmc_OK'
    <2> SUFFICES ASSUME OwnNv4 PROVE Keeps(saved_pmc')
      BY <1>1 DEF Pmc_OK, OwnNv4, Keeps
    <2>1. saved_pmc' = saved_pmc \/ Keeps(saved_pmc')
      BY DEF Achieves, SavesPmc
    <2>2. CASE a = Filter
      <3>1. pc[Filter] = "run"
        BY <2>2 DEF Step
      <3> QED BY <2>1, <3>1 DEF IInv, Pmc_OK
    <2>3. CASE a # Filter /\ at[a] >= 2
      <3>1. Keeping(a) /\ pc[a] = "run"
        BY DEF IInv, Rest_OK, Step
      <3> QED BY <2>1, <2>3, <3>1 DEF Keeping, SavesPmc
    <2>4. CASE a # Filter /\ at[a] = 1
      <3>1. Len(Code(a)) = 6
        BY <2>4, Nv4Code DEF OwnNv4
      <3>2. pc'[a] = "run" /\ at'[a] = 2
        BY <1>2, <1>4, <2>4, <3>1 DEF Step
      <3>3. SavesPmc'
        BY <1>1 DEF SavesPmc, OwnNv4
      <3> QED BY <2>4, <3>2, <3>3 DEF Achieves, Keeping, Keeps
    <2> QED BY <1>2, <2>2, <2>3, <2>4
  <1> QED BY <1>5, <1>6, <1>8, <1>9, <1>10 DEF IInv

\* Where a step takes its actor.
LEMMA Position ==
  ASSUME IInv, NEW a \in Actors, Step(a)
  PROVE  /\ Access(a) /\ pc[a] = "run" /\ Card' = Card /\ adapter' = adapter
         /\ at[a] \in 1 .. Len(Code(a)) /\ mixed'[a] = mixed[a]
         /\ at[a] # Len(Code(a)) => at'[a] = at[a] + 1 /\ pc'[a] = "run"
         /\ at[a] = Len(Code(a)) =>
              at'[a] = 1 /\ pc'[a] = IF a = Filter THEN "wakeup" ELSE "tsleep"
         /\ crossed => crossed'
  <1>1. at \in [Actors -> 1 .. 8] /\ pc \in [Actors -> {"user", "run", "tsleep", "sleep", "idle", "wakeup"}]
    BY DEF IInv, TypeOK
  <1>2. at' = [at EXCEPT ![a] = IF at[a] = Len(Code(a)) THEN 1 ELSE at[a] + 1]
    BY DEF Step
  <1>3. at[a] \in 1 .. Len(Code(a))
    <2> DEFINE n == Len(Code(a))
    <2>1. n \in 1 .. 8 /\ at[a] <= n
      BY CodeLength DEF IInv, At_OK
    <2> HIDE DEF n
    <2>2. at[a] \in 1 .. n
      BY <1>1, <2>1
    <2> QED BY <2>2 DEF n
  <1>4. mixed'[a] = mixed[a]
    BY Mixed DEF IInv, TypeOK, Step
  <1>5. Card' = Card
    BY DEF Step, Card
  <1> QED BY <1>1, <1>2, <1>3, <1>4, <1>5 DEF Step

\* The kinds of access: what they write is a value, and what they write to a
\* register that is modified in place must keep the rest.
LEMMA ReadKeeps ==
  ASSUME IInv, NEW a \in Actors, NEW r \in Registers, Step(a),
         Code(a)[at[a]] = Read(r)
  PROVE  /\ Typed(a) /\ pb'[a] = regs[Reached(r)] /\ UNCHANGED <<regs, saved_pmc, index>>
         /\ \A q \in InPlace' : Keeps(regs'[q])
  <1>1. pb' = [pb EXCEPT ![a] = regs[Reached(r)]] /\ UNCHANGED <<regs, pending, saved_pmc, index>>
    BY Position, AccessRead
  <1>2. regs[Reached(r)] \in SUBSET Bits
    BY DEF IInv, TypeOK, Reached, Registers
  <1>3. InPlace' \subseteq InPlace
    BY Position DEF InPlace
  <1>4. \A q \in InPlace' : Keeps(regs'[q])
    BY <1>1, <1>3 DEF IInv, Rest_OK
  <1>5. Typed(a)
    BY <1>1, <1>2 DEF Typed, IInv, TypeOK
  <1> QED BY <1>1, <1>4, <1>5 DEF IInv, TypeOK

LEMMA WriteKeeps ==
  ASSUME IInv, NEW a \in Actors, NEW q \in Registers, NEW v \in SUBSET Bits, Step(a),
         WriteReg(q, v), UNCHANGED <<saved_pmc, index>>,
         pb' = [pb EXCEPT ![a] = {}] \/ pb' = pb,
         q \notin InPlace' \/ Keeps(v)
  PROVE  /\ Typed(a) /\ regs' = [regs EXCEPT ![q] = v]
         /\ regs'[q] = v /\ \A r \in Registers : r # q => regs'[r] = regs[r]
         /\ \A r \in InPlace' : Keeps(regs'[r])
  <1>1. regs' = [regs EXCEPT ![q] = v]
    BY DEF WriteReg
  <1>2. regs \in [Registers -> SUBSET Bits]
    BY DEF IInv, TypeOK
  <1>3. regs'[q] = v /\ \A r \in Registers : r # q => regs'[r] = regs[r]
    BY <1>1, <1>2
  <1>4. InPlace' \subseteq InPlace /\ InPlace \subseteq Registers
    BY Position DEF InPlace, Registers
  <1>5. \A r \in InPlace' : Keeps(regs'[r])
    BY <1>3, <1>4 DEF IInv, Rest_OK
  <1>6. pending' \in BOOLEAN
    BY DEF WriteReg, IInv, TypeOK
  <1>7. pb' \in [Actors -> SUBSET Bits] /\ \A c \in Actors \ {a} : pb'[c] = pb[c]
    BY DEF IInv, TypeOK
  <1>8. Typed(a)
    BY <1>1, <1>2, <1>6, <1>7 DEF Typed, IInv, TypeOK
  <1> QED BY <1>1, <1>3, <1>5, <1>8

\* A register outside of the CRTC is the one it is.
LEMMA SetKeeps ==
  ASSUME IInv, NEW a \in Actors, NEW r \in Registers \ {"cr11"}, NEW add \in SUBSET Bits,
         Step(a), Code(a)[at[a]] = Set(r, add), r \notin InPlace'
  PROVE  /\ Typed(a) /\ UNCHANGED saved_pmc
         /\ regs'[r] = add /\ \A q \in Registers : q # r => regs'[q] = regs[q]
         /\ \A q \in InPlace' : Keeps(regs'[q])
  <1>1. /\ WriteReg(Reached(r), add) /\ pb' = [pb EXCEPT ![a] = {}]
        /\ UNCHANGED <<saved_pmc, index>>
    BY Position, AccessSet
  <1>2. Reached(r) = r
    BY DEF Reached
  <1>3. WriteReg(r, add)
    BY <1>1, <1>2
  <1> QED BY <1>1, <1>3, WriteKeeps

\* A register is written from what was read, but for bits with a meaning.
LEMMA ModifyKeeps ==
  ASSUME IInv, NEW a \in Actors, NEW r \in Registers, Step(a),
         NEW del \in SUBSET (Bits \ RestBits), NEW add \in SUBSET (Bits \ RestBits),
         Code(a)[at[a]] = Put(r, "pb", del, add), Reached(r) \notin InPlace' \/ Keeps(pb[a])
  PROVE  /\ Typed(a) /\ UNCHANGED <<saved_pmc, index>>
         /\ regs'[Reached(r)] = (pb[a] \ del) \cup add
         /\ \A q \in Registers : q # Reached(r) => regs'[q] = regs[q]
         /\ \A q \in InPlace' : Keeps(regs'[q])
  <1>1. PICK v \in SUBSET Bits : v = (pb[a] \ del) \cup add
    BY DEF IInv, TypeOK
  <1>2. PICK to \in Registers : to = Reached(r)
    BY DEF IInv, TypeOK, Reached, Registers
  <1>3. WriteReg(to, v)
    <2>1. Access(a)
      BY Position
    <2>2. "pb" = "pb" => WriteReg(Reached(r), (pb[a] \ del) \cup add)
      BY <2>1, AccessPut, Zenon
    <2> QED BY <1>1, <1>2, <2>2
  <1>4. pb' = [pb EXCEPT ![a] = {}] /\ UNCHANGED <<saved_pmc, index>>
    <2>1. Access(a)
      BY Position
    <2> QED BY <2>1, AccessPut, Zenon
  <1>5. to \notin InPlace' \/ Keeps(v)
    BY <1>1, <1>2 DEF Keeps, RestBits
  <1>6. /\ Typed(a)
        /\ regs'[to] = v /\ \A q \in Registers : q # to => regs'[q] = regs[q]
        /\ \A q \in InPlace' : Keeps(regs'[q])
    <2>1. pb' = [pb EXCEPT ![a] = {}] \/ pb' = pb
      BY <1>4
    <2>2. UNCHANGED <<saved_pmc, index>>
      BY <1>4
    <2> HIDE <1>1, <1>2
    <2>3. Typed(a)
      BY <1>3, <2>1, <2>2, <1>5, WriteKeeps, Zenon
    <2>4. regs'[to] = v /\ \A q \in Registers : q # to => regs'[q] = regs[q]
      BY <1>3, <2>1, <2>2, <1>5, WriteKeeps, Zenon
    <2>5. \A q \in InPlace' : Keeps(regs'[q])
      BY <1>3, <2>1, <2>2, <1>5, WriteKeeps, Zenon
    <2> QED BY <2>3, <2>4, <2>5
  <1> QED BY <1>1, <1>2, <1>4, <1>6

LEMMA RageAchieves ==
  ASSUME IInv, NEW a \in Actors, Step(a), Card = "rage" PROVE Achieves(a)
  <1>1. /\ Len(Code(a)) = 2 /\ Code(a)[1] = Read("18")
        /\ a = Filter => Code(a)[2] = Put("18", "pb", {0, 1, 2}, {2, 3})
        /\ a # Filter => Code(a)[2] = Put("18", "pb", {0, 1, 2}, {1, 2, 3})
    BY RageCode
  <1>2. Card' = "rage" /\ Reached("18") = "18" /\ "18" \in Registers
    BY Position DEF Reached, Registers
  <1>3. CASE at[a] = 1
    <2>1. at'[a] = 2 /\ pc'[a] = "run"
      BY <1>1, <1>3, Position
    <2>2. /\ Typed(a) /\ pb'[a] = regs["18"]
          /\ \A q \in InPlace' : Keeps(regs'[q])
      BY <1>1, <1>2, <1>3, ReadKeeps
    <2>3. Keeps(regs["18"])
      BY DEF IInv, Rest_OK, InPlace
    <2>4. Keeping(a)' /\ Alone(a)'
      BY <1>2, <2>1, <2>2, <2>3 DEF Keeping, SavesPmc, OwnNv4, Alone, Enabling, Silencing, Keeps
    <2> QED BY <1>2, <2>2, <2>4 DEF Achieves, SavesPmc, OwnNv4
  <1>4. CASE at[a] = 2
    <2>1. pc'[a] = IF a = Filter THEN "wakeup" ELSE "tsleep"
      BY <1>1, <1>4, Position
    <2>2. Keeps(pb[a])
      BY <1>4, Position DEF IInv, Rest_OK, Keeping, SavesPmc, OwnNv4
    <2>3. /\ Typed(a) /\ \A q \in InPlace' : Keeps(regs'[q])
          /\ 1 \in regs'["18"] <=> a # Filter
      <3>1. ASSUME NEW del \in SUBSET (Bits \ RestBits), NEW add \in SUBSET (Bits \ RestBits),
                   Code(a)[at[a]] = Put("18", "pb", del, add)
            PROVE  /\ Typed(a) /\ \A q \in InPlace' : Keeps(regs'[q])
                   /\ regs'["18"] = (pb[a] \ del) \cup add
        <4>1. Reached("18") \notin InPlace' \/ Keeps(pb[a])
          BY <2>2
        <4>2. "18" \in Registers
          BY <1>2
        <4>3. IInv /\ Step(a)
          OBVIOUS
        <4>4. Typed(a)
          BY <4>1, <4>2, <4>3, <3>1, ModifyKeeps, Zenon
        <4>5. \A q \in InPlace' : Keeps(regs'[q])
          BY <4>1, <4>2, <4>3, <3>1, ModifyKeeps, Zenon
        <4>6. regs'[Reached("18")] = (pb[a] \ del) \cup add
          BY <4>1, <4>2, <4>3, <3>1, ModifyKeeps, Zenon
        <4> QED BY <4>4, <4>5, <4>6, <1>2
      <3>2. /\ {0, 1, 2} \in SUBSET (Bits \ RestBits) /\ {2, 3} \in SUBSET (Bits \ RestBits)
            /\ {1, 2, 3} \in SUBSET (Bits \ RestBits)
        BY DEF Bits, RestBits
      <3>3. CASE a = Filter
        <4>1. Code(a)[at[a]] = Put("18", "pb", {0, 1, 2}, {2, 3})
          BY <1>1, <1>4, <3>3
        <4>2. /\ Typed(a) /\ \A q \in InPlace' : Keeps(regs'[q])
              /\ regs'["18"] = (pb[a] \ {0, 1, 2}) \cup {2, 3}
          BY <3>1, <3>2, <4>1
        <4> QED BY <3>3, <4>2
      <3>4. CASE a # Filter
        BY <1>1, <1>4, <3>1, <3>2, <3>4
      <3> QED BY <3>3, <3>4
    <2>4. Enabled' <=> a # Filter
      BY <1>2, <2>3 DEF Enabled
    <2>5. Keeping(a)' /\ Alone(a)'
      BY <1>2, <2>1, <2>4 DEF Keeping, SavesPmc, OwnNv4, Alone
    <2> QED BY <1>2, <2>3, <2>5 DEF Achieves, SavesPmc, OwnNv4
  <1>5. at[a] \in {1, 2}
    <2>1. at[a] \in 1 .. Len(Code(a))
      BY Position
    <2> QED BY <1>1, <2>1
  <1> QED BY <1>3, <1>4, <1>5

LEMMA R128Achieves ==
  ASSUME IInv, NEW a \in Actors, Step(a), Card = "r128" PROVE Achieves(a)
  <1>1. /\ Len(Code(a)) = 3
        /\ Code(a)[1] = Set("44", {0}) /\ Code(a)[2] = Read("40")
        /\ a = Filter => Code(a)[3] = Put("40", "pb", {0}, {})
        /\ a # Filter => Code(a)[3] = Put("40", "pb", {}, {0})
    BY R128Code
  <1>2. Card' = "r128" /\ Reached("40") = "40" /\ "40" \in Registers
    BY Position DEF Reached, Registers
  <1>3. CASE at[a] = 1
    <2>1. at'[a] = 2 /\ pc'[a] = "run"
      BY <1>1, <1>3, Position
    <2>2. "44" \in Registers \ {"cr11"} /\ "44" \notin InPlace' /\ {0} \in SUBSET Bits
      BY <1>2 DEF Registers, InPlace, Bits
    <2>3. Code(a)[at[a]] = Set("44", {0})
      BY <1>1, <1>3
    <2>4. Typed(a) /\ \A q \in InPlace' : Keeps(regs'[q])
      BY <2>2, <2>3, SetKeeps, Zenon
    <2>5. Keeping(a)' /\ Alone(a)'
      BY <1>2, <2>1 DEF Keeping, SavesPmc, OwnNv4, Alone, Enabling, Silencing
    <2> QED BY <1>2, <2>4, <2>5 DEF Achieves, SavesPmc, OwnNv4
  <1>4. CASE at[a] = 2
    <2>1. at'[a] = 3 /\ pc'[a] = "run"
      BY <1>1, <1>4, Position
    <2>2. /\ Typed(a) /\ pb'[a] = regs["40"]
          /\ \A q \in InPlace' : Keeps(regs'[q])
      BY <1>1, <1>2, <1>4, ReadKeeps
    <2>3. Keeps(regs["40"])
      BY DEF IInv, Rest_OK, InPlace
    <2>4. Keeping(a)' /\ Alone(a)'
      BY <1>2, <2>1, <2>2, <2>3 DEF Keeping, SavesPmc, OwnNv4, Alone, Enabling, Silencing, Keeps
    <2> QED BY <1>2, <2>2, <2>4 DEF Achieves, SavesPmc, OwnNv4
  <1>5. CASE at[a] = 3
    <2>1. pc'[a] = IF a = Filter THEN "wakeup" ELSE "tsleep"
      BY <1>1, <1>5, Position
    <2>2. Keeps(pb[a])
      BY <1>5, Position DEF IInv, Rest_OK, Keeping, SavesPmc, OwnNv4
    <2>3. ASSUME NEW del \in SUBSET (Bits \ RestBits), NEW add \in SUBSET (Bits \ RestBits),
                 Code(a)[at[a]] = Put("40", "pb", del, add)
          PROVE  /\ Typed(a) /\ \A q \in InPlace' : Keeps(regs'[q])
                 /\ regs'["40"] = (pb[a] \ del) \cup add
      <3>1. Reached("40") \notin InPlace' \/ Keeps(pb[a])
        BY <2>2
      <3>0. "40" \in Registers
        BY <1>2
      <3>2. Typed(a)
        BY <2>3, <3>0, <3>1, ModifyKeeps, Zenon
      <3>3. \A q \in InPlace' : Keeps(regs'[q])
        BY <2>3, <3>0, <3>1, ModifyKeeps, Zenon
      <3>4. regs'[Reached("40")] = (pb[a] \ del) \cup add
        BY <2>3, <3>0, <3>1, ModifyKeeps, Zenon
      <3> QED BY <1>2, <3>2, <3>3, <3>4
    <2>4. {} \in SUBSET (Bits \ RestBits) /\ {0} \in SUBSET (Bits \ RestBits)
      BY DEF Bits, RestBits
    <2>5. /\ Typed(a) /\ \A q \in InPlace' : Keeps(regs'[q])
          /\ 0 \in regs'["40"] <=> a # Filter
      <3>1. CASE a = Filter
        <4>1. Code(a)[at[a]] = Put("40", "pb", {0}, {})
          BY <1>1, <1>5, <3>1
        <4>2. /\ Typed(a) /\ \A q \in InPlace' : Keeps(regs'[q])
              /\ regs'["40"] = (pb[a] \ {0}) \cup {}
          BY <2>3, <2>4, <4>1
        <4> QED BY <3>1, <4>2
      <3>2. CASE a # Filter
        <4>1. Code(a)[at[a]] = Put("40", "pb", {}, {0})
          BY <1>1, <1>5, <3>2
        <4>2. /\ Typed(a) /\ \A q \in InPlace' : Keeps(regs'[q])
              /\ regs'["40"] = (pb[a] \ {}) \cup {0}
          BY <2>3, <2>4, <4>1
        <4> QED BY <3>2, <4>2
      <3> QED BY <3>1, <3>2
    <2>6. Enabled' <=> a # Filter
      BY <1>2, <2>5 DEF Enabled
    <2>7. Keeping(a)' /\ Alone(a)'
      BY <1>2, <2>1, <2>6 DEF Keeping, SavesPmc, OwnNv4, Alone
    <2> QED BY <1>2, <2>5, <2>7 DEF Achieves, SavesPmc, OwnNv4
  <1>6. at[a] \in {1, 2, 3}
    <2>1. at[a] \in 1 .. Len(Code(a))
      BY Position
    <2> QED BY <1>1, <2>1
  <1> QED BY <1>3, <1>4, <1>5, <1>6

\* The cards whose functions only set registers; the last access decides.
LEMMA SetLast ==
  ASSUME IInv, NEW a \in Actors, Step(a), NEW r \in {"8504", "46"}, NEW add \in SUBSET Bits,
         at[a] = Len(Code(a)), Code(a)[at[a]] = Set(r, add),
         \/ Card = "s3" /\ r = "8504" /\ (8 \in add <=> a # Filter)
         \/ Card = "rendition" /\ r = "46" /\ (0 \in add <=> a # Filter)
  PROVE  Achieves(a)
  <1>1. Card' = Card /\ pc'[a] = IF a = Filter THEN "wakeup" ELSE "tsleep"
    BY Position
  <1>2. r \in Registers \ {"cr11"} /\ r \notin InPlace'
    BY <1>1 DEF Registers, InPlace
  <1>3. /\ Typed(a) /\ \A q \in InPlace' : Keeps(regs'[q])
        /\ regs'[r] = add
    BY <1>2, SetKeeps, Zenon
  <1>4. Enabled' <=> a # Filter
    BY <1>1, <1>3 DEF Enabled
  <1>5. Keeping(a)' /\ Alone(a)'
    BY <1>1, <1>4 DEF Keeping, SavesPmc, OwnNv4, Alone
  <1> QED BY <1>1, <1>3, <1>5 DEF Achieves, SavesPmc, OwnNv4

LEMMA S3Achieves ==
  ASSUME IInv, NEW a \in Actors, Step(a), Card = "s3" PROVE Achieves(a)
  <1>1. /\ Len(Code(a)) = 1
        /\ a = Filter => Code(a)[1] = Set("8504", {0})
        /\ a # Filter => Code(a)[1] = Set("8504", {0, 8})
    BY S3Code
  <1>2. at[a] = 1 /\ at[a] = Len(Code(a))
    <2>1. at[a] \in 1 .. Len(Code(a))
      BY Position
    <2> QED BY <1>1, <2>1
  <1>3. {0} \in SUBSET Bits /\ {0, 8} \in SUBSET Bits
    BY DEF Bits
  <1>4. PICK add \in SUBSET Bits : Code(a)[at[a]] = Set("8504", add) /\ (8 \in add <=> a # Filter)
    BY <1>1, <1>2, <1>3
  <1>5. at[a] = Len(Code(a))
    BY <1>2
  <1> QED BY <1>4, <1>5, SetLast

LEMMA RenditionAchieves ==
  ASSUME IInv, NEW a \in Actors, Step(a), Card = "rendition" PROVE Achieves(a)
  <1>1. /\ Len(Code(a)) = 2 /\ Code(a)[1] = Set("44", {0})
        /\ a = Filter => Code(a)[2] = Set("46", {})
        /\ a # Filter => Code(a)[2] = Set("46", {0})
    BY RenditionCode
  <1>2. {0} \in SUBSET Bits /\ {} \in SUBSET Bits
    BY DEF Bits
  <1>3. CASE at[a] = 1
    <2>1. at'[a] = 2 /\ pc'[a] = "run" /\ Card' = "rendition"
      BY <1>1, <1>3, Position
    <2>2. "44" \in Registers \ {"cr11"} /\ "44" \notin InPlace'
      BY <2>1 DEF Registers, InPlace
    <2>3. Code(a)[at[a]] = Set("44", {0})
      BY <1>1, <1>3
    <2>4. Typed(a) /\ \A q \in InPlace' : Keeps(regs'[q])
      BY <1>2, <2>2, <2>3, SetKeeps, Zenon
    <2>5. Keeping(a)' /\ Alone(a)'
      BY <2>1 DEF Keeping, SavesPmc, OwnNv4, Alone, Enabling, Silencing
    <2> QED BY <2>1, <2>4, <2>5 DEF Achieves, SavesPmc, OwnNv4
  <1>4. CASE at[a] = 2
    <2>1. PICK add \in SUBSET Bits : Code(a)[at[a]] = Set("46", add) /\ (0 \in add <=> a # Filter)
      BY <1>1, <1>2, <1>4
    <2> QED BY <1>1, <1>4, <2>1, SetLast
  <1>5. at[a] \in {1, 2}
    <2>1. at[a] \in 1 .. Len(Code(a))
      BY Position
    <2> QED BY <1>1, <2>1
  <1> QED BY <1>3, <1>4, <1>5

-----------------------------------------------------------------------------
(***************************************************************************)
(* The nVidia cards, whose functions share saved_pmc.                      *)
(***************************************************************************)
NvRegs == {"100", "140", "400100", "400140", "600100", "600140"}

LEMMA SaveKeeps ==
  ASSUME IInv, NEW a \in Actors, Step(a), Code(a)[at[a]] = Save("200")
  PROVE  /\ Typed(a) /\ saved_pmc' = regs["200"]
         /\ \A q \in InPlace' : Keeps(regs'[q])
  <1>1. saved_pmc' = regs["200"] /\ UNCHANGED <<regs, pending, pb, index>>
    BY Position, AccessSave
  <1>2. InPlace' \subseteq InPlace
    BY Position DEF InPlace
  <1>3. regs["200"] \in SUBSET Bits
    BY DEF IInv, TypeOK, Registers
  <1> QED BY <1>1, <1>2, <1>3 DEF Typed, IInv, TypeOK, Rest_OK

LEMMA PutSavedKeeps ==
  ASSUME IInv, NEW a \in Actors, Step(a), NEW add \in SUBSET (Bits \ RestBits),
         Code(a)[at[a]] = Put("200", "saved_pmc", {}, add),
         "200" \notin InPlace' \/ Keeps(saved_pmc)
  PROVE  /\ Typed(a) /\ saved_pmc' = saved_pmc
         /\ \A q \in InPlace' : Keeps(regs'[q])
         /\ \A q \in NvRegs : regs'[q] = regs[q]
  <1>1. PICK v \in SUBSET Bits : v = (saved_pmc \ {}) \cup add
    BY DEF IInv, TypeOK
  <1>2. Access(a)
    BY Position
  <1>3. WriteReg("200", v)
    <2>1. "saved_pmc" = "saved_pmc" => WriteReg(Reached("200"), (saved_pmc \ {}) \cup add)
      BY <1>2, AccessPut, Zenon
    <2>2. Reached("200") = "200"
      BY DEF Reached
    <2> QED BY <1>1, <2>1, <2>2
  <1>4. pb' = [pb EXCEPT ![a] = {}] /\ UNCHANGED <<saved_pmc, index>>
    BY <1>2, AccessPut, Zenon
  <1>5. "200" \notin InPlace' \/ Keeps(v)
    BY <1>1 DEF Keeps, RestBits
  <1>6. "200" \in Registers /\ NvRegs \subseteq Registers \ {"200"}
    BY DEF Registers, NvRegs
  <1>7. /\ Typed(a) /\ \A q \in InPlace' : Keeps(regs'[q])
        /\ \A q \in Registers : q # "200" => regs'[q] = regs[q]
    BY <1>3, <1>4, <1>5, <1>6, WriteKeeps
  <1> QED BY <1>4, <1>6, <1>7

LEMMA RestoreKeeps ==
  ASSUME IInv, NEW a \in Actors, Step(a), Card = "nv3",
         Code(a)[at[a]] = [op |-> "restore", reg |-> "200"]
  PROVE  /\ Typed(a) /\ saved_pmc' = saved_pmc
         /\ \A q \in InPlace' : Keeps(regs'[q])
         /\ \A q \in NvRegs : regs'[q] = regs[q]
  <1>1. /\ \/ saved_pmc # Bits /\ WriteReg("200", saved_pmc)
           \/ UNCHANGED <<regs, pending>>
        /\ UNCHANGED <<saved_pmc, pb, index>>
    BY Position, AccessRestore
  <1>2. CASE saved_pmc # Bits /\ WriteReg("200", saved_pmc)
    <2>1. PICK v \in SUBSET Bits : v = saved_pmc
      BY DEF IInv, TypeOK
    <2>2. WriteReg("200", v) /\ Keeps(v)
      BY <1>2, <2>1 DEF IInv, Rest_OK, Keeps
    <2>3. "200" \in Registers /\ NvRegs \subseteq Registers \ {"200"}
      BY DEF Registers, NvRegs
    <2>4. /\ Typed(a) /\ \A q \in InPlace' : Keeps(regs'[q])
          /\ \A q \in Registers : q # "200" => regs'[q] = regs[q]
      BY <1>1, <2>2, <2>3, WriteKeeps
    <2> QED BY <1>1, <2>3, <2>4
  <1>3. CASE UNCHANGED <<regs, pending>>
    <2>1. InPlace' \subseteq InPlace
      BY Position DEF InPlace
    <2> QED BY <1>1, <1>3, <2>1 DEF Typed, IInv, TypeOK, Rest_OK
  <1> QED BY <1>1, <1>2, <1>3

LEMMA NvSet ==
  ASSUME IInv, NEW a \in Actors, Step(a), Card \in {"nv3", "nv4"},
         NEW r \in NvRegs, NEW add \in SUBSET Bits, Code(a)[at[a]] = Set(r, add),
         a = Filter \/ at[a] >= 2
  PROVE  /\ Typed(a) /\ saved_pmc' = saved_pmc /\ Keeping(a)'
         /\ \A q \in InPlace' : Keeps(regs'[q])
         /\ regs'[r] = add /\ \A q \in NvRegs \ {r} : regs'[q] = regs[q]
  <1>1. Card' = Card /\ pc[a] = "run"
    BY Position
  <1>2. r \in Registers \ {"cr11"} /\ r \notin InPlace' /\ NvRegs \subseteq Registers
    BY <1>1 DEF Registers, InPlace, NvRegs
  <1>3. Typed(a) /\ saved_pmc' = saved_pmc /\ \A q \in InPlace' : Keeps(regs'[q])
    BY <1>2, SetKeeps, Zenon
  <1>4. regs'[r] = add /\ \A q \in Registers : q # r => regs'[q] = regs[q]
    BY <1>2, SetKeeps, Zenon
  <1>5. Keeping(a)'
    <2>1. adapter' = adapter /\ (crossed => crossed')
      BY Position
    <2> QED BY <1>1, <1>3, <2>1, Position DEF IInv, Rest_OK, Keeping, SavesPmc, OwnNv4, Keeps
  <1> QED BY <1>2, <1>3, <1>4, <1>5

LEMMA Nv3Achieves ==
  ASSUME IInv, NEW a \in Actors, Step(a), Card = "nv3" PROVE Achieves(a)
  <1> USE DEF NvRegs
  <1>1. Card' = "nv3" /\ at[a] \in 1 .. Len(Code(a)) /\ mixed'[a] = mixed[a]
    BY Position
  <1>0. /\ at[a] # Len(Code(a)) => at'[a] = at[a] + 1 /\ pc'[a] = "run"
        /\ at[a] = Len(Code(a)) =>
             at'[a] = 1 /\ pc'[a] = IF a = Filter THEN "wakeup" ELSE "tsleep"
    BY Position, Zenon
  <1>2. {12} \in SUBSET (Bits \ RestBits) /\ {} \in SUBSET (Bits \ RestBits)
        /\ {0} \in SUBSET Bits /\ {8} \in SUBSET Bits /\ {} \in SUBSET Bits /\ Bits \in SUBSET Bits
    BY DEF Bits, RestBits
  <1>3. CASE a # Filter
    <2>1. /\ Len(Code(a)) = 6
          /\ Code(a)[1] = Save("200") /\ Code(a)[2] = Put("200", "saved_pmc", {}, {12})
          /\ Code(a)[3] = Set("140", {0}) /\ Code(a)[4] = Set("400140", {8})
          /\ Code(a)[5] = Set("100", Bits) /\ Code(a)[6] = Set("400100", Bits)
      BY <1>3, Nv3Code
    <2>2. CASE at[a] = 1
      <3>1. at'[a] = 2 /\ pc'[a] = "run" /\ Code(a)[at[a]] = Save("200")
        BY <1>0, <2>1, <2>2
      <3>2. /\ Typed(a) /\ saved_pmc' = regs["200"]
            /\ \A q \in InPlace' : Keeps(regs'[q])
        BY <3>1, SaveKeeps
      <3>3. Keeps(saved_pmc')
        BY <3>2 DEF IInv, Rest_OK, InPlace
      <3>4. Keeping(a)' /\ Alone(a)'
        BY <1>1, <3>1, <3>3 DEF Keeping, SavesPmc, OwnNv4, Alone, Enabling, Silencing, Keeps
      <3> QED BY <3>2, <3>3, <3>4 DEF Achieves
    <2>3. CASE at[a] = 2
      <3>1. at'[a] = 3 /\ pc'[a] = "run"
            /\ Code(a)[at[a]] = Put("200", "saved_pmc", {}, {12})
        BY <1>0, <2>1, <2>3
      <3>2. "200" \notin InPlace' \/ Keeps(saved_pmc)
        BY <1>3, <2>3, Position DEF IInv, Rest_OK, Keeping, SavesPmc, OwnNv4
      <3>3. /\ Typed(a) /\ saved_pmc' = saved_pmc
            /\ \A q \in InPlace' : Keeps(regs'[q])
        BY <1>2, <3>1, <3>2, PutSavedKeeps
      <3>4. Keeping(a)' /\ Alone(a)'
        BY <1>1, <3>1, <3>2, <3>3
           DEF Keeping, SavesPmc, OwnNv4, Alone, Enabling, Silencing, Keeps, InPlace
      <3> QED BY <3>3, <3>4 DEF Achieves
    <2>4. CASE at[a] = 3
      <3>1. at'[a] = 4 /\ pc'[a] = "run" /\ Code(a)[at[a]] = Set("140", {0})
        BY <1>0, <1>3, <2>1, <2>4
      <3>2. /\ Typed(a) /\ saved_pmc' = saved_pmc /\ Keeping(a)'
            /\ \A q \in InPlace' : Keeps(regs'[q])
            /\ regs'["140"] = {0} /\ \A q \in NvRegs \ {"140"} : regs'[q] = regs[q]
        BY <1>2, <2>4, <3>1, NvSet
      <3>3. Alone(a)'
        BY <1>1, <1>3, <2>4, <3>1, <3>2, Position DEF IInv, Alone_OK, Alone, Enabling
      <3> QED BY <3>2, <3>3 DEF Achieves
    <2>5. CASE at[a] = 4
      <3>1. at'[a] = 5 /\ pc'[a] = "run" /\ Code(a)[at[a]] = Set("400140", {8})
        BY <1>0, <1>3, <2>1, <2>5
      <3>2. /\ Typed(a) /\ saved_pmc' = saved_pmc /\ Keeping(a)'
            /\ \A q \in InPlace' : Keeps(regs'[q])
            /\ regs'["400140"] = {8} /\ \A q \in NvRegs \ {"400140"} : regs'[q] = regs[q]
        BY <1>2, <2>5, <3>1, NvSet
      <3>3. Alone(a)'
        BY <1>1, <1>3, <2>5, <3>1, <3>2, Position DEF IInv, Alone_OK, Alone, Enabling
      <3> QED BY <3>2, <3>3 DEF Achieves
    <2>6. CASE at[a] = 5
      <3>1. at'[a] = 6 /\ pc'[a] = "run" /\ Code(a)[at[a]] = Set("100", Bits)
        BY <1>0, <1>3, <2>1, <2>6
      <3>2. /\ Typed(a) /\ saved_pmc' = saved_pmc /\ Keeping(a)'
            /\ \A q \in InPlace' : Keeps(regs'[q])
            /\ regs'["100"] = Bits /\ \A q \in NvRegs \ {"100"} : regs'[q] = regs[q]
        BY <1>2, <2>6, <3>1, NvSet
      <3>3. Alone(a)'
        BY <1>1, <1>3, <2>6, <3>1, <3>2, Position DEF IInv, Alone_OK, Alone, Enabling
      <3> QED BY <3>2, <3>3 DEF Achieves
    <2>7. CASE at[a] = 6
      <3>1. pc'[a] = "tsleep" /\ Code(a)[at[a]] = Set("400100", Bits)
        BY <1>0, <1>3, <2>1, <2>7
      <3>2. /\ Typed(a) /\ saved_pmc' = saved_pmc /\ Keeping(a)'
            /\ \A q \in InPlace' : Keeps(regs'[q])
            /\ regs'["400100"] = Bits /\ \A q \in NvRegs \ {"400100"} : regs'[q] = regs[q]
        BY <1>2, <2>7, <3>1, NvSet
      <3>3. Alone(a)'
        BY <1>1, <1>3, <2>7, <3>1, <3>2, Position DEF IInv, Alone_OK, Alone, Enabling, Enabled
      <3> QED BY <3>2, <3>3 DEF Achieves
    <2>8. at[a] \in {1, 2, 3, 4, 5, 6}
      BY <1>1, <2>1
    <2> QED BY <2>2, <2>3, <2>4, <2>5, <2>6, <2>7, <2>8
  <1>4. CASE a = Filter
    <2>1. /\ Len(Code(a)) = 5
          /\ Code(a)[1] = Set("100", Bits) /\ Code(a)[2] = Set("400100", {8})
          /\ Code(a)[3] = Set("140", {}) /\ Code(a)[4] = Set("400140", {})
          /\ Code(a)[5] = [op |-> "restore", reg |-> "200"]
      BY <1>4, Nv3Code
    <2>2. CASE at[a] = 1
      <3>1. at'[a] = 2 /\ pc'[a] = "run" /\ Code(a)[at[a]] = Set("100", Bits)
        BY <1>0, <2>1, <2>2
      <3>2. /\ Typed(a) /\ saved_pmc' = saved_pmc /\ Keeping(a)'
            /\ \A q \in InPlace' : Keeps(regs'[q])
            /\ regs'["100"] = Bits /\ \A q \in NvRegs \ {"100"} : regs'[q] = regs[q]
        BY <1>2, <1>4, <3>1, NvSet
      <3>3. Alone(a)'
        BY <1>1, <1>4, <2>2, <3>1, <3>2, Position DEF IInv, Alone_OK, Alone, Silencing
      <3> QED BY <3>2, <3>3 DEF Achieves
    <2>3. CASE at[a] = 2
      <3>1. at'[a] = 3 /\ pc'[a] = "run" /\ Code(a)[at[a]] = Set("400100", {8})
        BY <1>0, <2>1, <2>3
      <3>2. /\ Typed(a) /\ saved_pmc' = saved_pmc /\ Keeping(a)'
            /\ \A q \in InPlace' : Keeps(regs'[q])
            /\ regs'["400100"] = {8} /\ \A q \in NvRegs \ {"400100"} : regs'[q] = regs[q]
        BY <1>2, <1>4, <3>1, NvSet
      <3>3. Alone(a)'
        BY <1>1, <1>4, <2>3, <3>1, <3>2, Position DEF IInv, Alone_OK, Alone, Silencing
      <3> QED BY <3>2, <3>3 DEF Achieves
    <2>4. CASE at[a] = 3
      <3>1. at'[a] = 4 /\ pc'[a] = "run" /\ Code(a)[at[a]] = Set("140", {})
        BY <1>0, <2>1, <2>4
      <3>2. /\ Typed(a) /\ saved_pmc' = saved_pmc /\ Keeping(a)'
            /\ \A q \in InPlace' : Keeps(regs'[q])
            /\ regs'["140"] = {} /\ \A q \in NvRegs \ {"140"} : regs'[q] = regs[q]
        BY <1>2, <1>4, <3>1, NvSet
      <3>3. Alone(a)'
        BY <1>1, <1>4, <2>4, <3>1, <3>2, Position DEF IInv, Alone_OK, Alone, Silencing
      <3> QED BY <3>2, <3>3 DEF Achieves
    <2>5. CASE at[a] = 4
      <3>1. at'[a] = 5 /\ pc'[a] = "run" /\ Code(a)[at[a]] = Set("400140", {})
        BY <1>0, <2>1, <2>5
      <3>2. /\ Typed(a) /\ saved_pmc' = saved_pmc /\ Keeping(a)'
            /\ \A q \in InPlace' : Keeps(regs'[q])
            /\ regs'["400140"] = {} /\ \A q \in NvRegs \ {"400140"} : regs'[q] = regs[q]
        BY <1>2, <1>4, <3>1, NvSet
      <3>3. Alone(a)'
        BY <1>1, <1>4, <2>5, <3>1, <3>2, Position DEF IInv, Alone_OK, Alone, Silencing
      <3> QED BY <3>2, <3>3 DEF Achieves
    <2>6. CASE at[a] = 5
      <3>1. pc'[a] = "wakeup" /\ Code(a)[at[a]] = [op |-> "restore", reg |-> "200"]
        BY <1>0, <1>4, <2>1, <2>6
      <3>2. /\ Typed(a) /\ saved_pmc' = saved_pmc
            /\ \A q \in InPlace' : Keeps(regs'[q])
            /\ \A q \in NvRegs : regs'[q] = regs[q]
        BY <3>1, RestoreKeeps
      <3>3. Alone(a)' /\ Keeping(a)'
        BY <1>1, <1>4, <2>6, <3>1, <3>2, Position
           DEF IInv, Alone_OK, Alone, Silencing, Enabled, Keeping, SavesPmc, OwnNv4
      <3> QED BY <3>2, <3>3 DEF Achieves
    <2>7. at[a] \in {1, 2, 3, 4, 5}
      BY <1>1, <2>1
    <2> QED BY <2>2, <2>3, <2>4, <2>5, <2>6, <2>7
  <1> QED BY <1>3, <1>4

LEMMA Nv4Achieves ==
  ASSUME IInv, NEW a \in Actors, Step(a), Card = "nv4" PROVE Achieves(a)
  <1> USE DEF NvRegs
  <1>1. Card' = "nv4" /\ at[a] \in 1 .. Len(Code(a)) /\ mixed'[a] = mixed[a]
    BY Position
  <1>0. /\ at[a] # Len(Code(a)) => at'[a] = at[a] + 1 /\ pc'[a] = "run"
        /\ at[a] = Len(Code(a)) =>
             at'[a] = 1 /\ pc'[a] = IF a = Filter THEN "wakeup" ELSE "tsleep"
    BY Position, Zenon
  <1>2. {24} \in SUBSET (Bits \ RestBits) /\ {} \in SUBSET (Bits \ RestBits)
        /\ {0} \in SUBSET Bits /\ {8} \in SUBSET Bits /\ {} \in SUBSET Bits /\ Bits \in SUBSET Bits
    BY DEF Bits, RestBits
  <1>3. CASE a # Filter
    <2>1. /\ Len(Code(a)) = 6
          /\ Code(a)[1] = Save("200") /\ Code(a)[2] = Put("200", "saved_pmc", {}, {24})
          /\ Code(a)[3] = Set("140", {0}) /\ Code(a)[4] = Set("600140", {0})
          /\ Code(a)[5] = Set("100", Bits) /\ Code(a)[6] = Set("600100", Bits)
      BY <1>3, Nv4Code
    <2>2. CASE at[a] = 1
      <3>1. at'[a] = 2 /\ pc'[a] = "run" /\ Code(a)[at[a]] = Save("200")
        BY <1>0, <2>1, <2>2
      <3>2. /\ Typed(a) /\ saved_pmc' = regs["200"]
            /\ \A q \in InPlace' : Keeps(regs'[q])
        BY <3>1, SaveKeeps
      <3>3. OwnNv4 => Keeps(saved_pmc')
        BY <3>2 DEF IInv, Rest_OK, InPlace, OwnNv4
      <3>4. adapter' = adapter
        BY Position
      <3>5. Keeping(a)' /\ Alone(a)'
        BY <1>1, <3>1, <3>3, <3>4
           DEF Keeping, SavesPmc, OwnNv4, Alone, Enabling, Silencing, Keeps
      <3> QED BY <1>1, <3>2, <3>3, <3>5, Position DEF Achieves, SavesPmc
    <2>3. CASE at[a] = 2
      <3>1. at'[a] = 3 /\ pc'[a] = "run"
            /\ Code(a)[at[a]] = Put("200", "saved_pmc", {}, {24})
        BY <1>0, <2>1, <2>3
      <3>2. "200" \notin InPlace' \/ Keeps(saved_pmc)
        <4>1. Keeping(a) /\ pc[a] = "run" /\ adapter' = adapter
          BY Position DEF IInv, Rest_OK
        <4> QED BY <1>1, <1>3, <2>3, <4>1 DEF Keeping, SavesPmc, OwnNv4, InPlace
      <3>3. /\ Typed(a) /\ saved_pmc' = saved_pmc
            /\ \A q \in InPlace' : Keeps(regs'[q])
        BY <1>2, <3>1, <3>2, PutSavedKeeps
      <3>4. Keeping(a)' /\ Alone(a)'
        BY <1>1, <3>1, <3>2, <3>3
           DEF Keeping, SavesPmc, OwnNv4, Alone, Enabling, Silencing, Keeps, InPlace
      <3> QED BY <3>3, <3>4 DEF Achieves
    <2>4. CASE at[a] = 3
      <3>1. at'[a] = 4 /\ pc'[a] = "run" /\ Code(a)[at[a]] = Set("140", {0})
        BY <1>0, <1>3, <2>1, <2>4
      <3>2. /\ Typed(a) /\ saved_pmc' = saved_pmc /\ Keeping(a)'
            /\ \A q \in InPlace' : Keeps(regs'[q])
            /\ regs'["140"] = {0} /\ \A q \in NvRegs \ {"140"} : regs'[q] = regs[q]
        BY <1>2, <2>4, <3>1, NvSet
      <3>3. Alone(a)'
        BY <1>1, <1>3, <2>4, <3>1, <3>2, Position DEF IInv, Alone_OK, Alone, Enabling
      <3> QED BY <3>2, <3>3 DEF Achieves
    <2>5. CASE at[a] = 4
      <3>1. at'[a] = 5 /\ pc'[a] = "run" /\ Code(a)[at[a]] = Set("600140", {0})
        BY <1>0, <1>3, <2>1, <2>5
      <3>2. /\ Typed(a) /\ saved_pmc' = saved_pmc /\ Keeping(a)'
            /\ \A q \in InPlace' : Keeps(regs'[q])
            /\ regs'["600140"] = {0} /\ \A q \in NvRegs \ {"600140"} : regs'[q] = regs[q]
        BY <1>2, <2>5, <3>1, NvSet
      <3>3. Alone(a)'
        BY <1>1, <1>3, <2>5, <3>1, <3>2, Position DEF IInv, Alone_OK, Alone, Enabling
      <3> QED BY <3>2, <3>3 DEF Achieves
    <2>6. CASE at[a] = 5
      <3>1. at'[a] = 6 /\ pc'[a] = "run" /\ Code(a)[at[a]] = Set("100", Bits)
        BY <1>0, <1>3, <2>1, <2>6
      <3>2. /\ Typed(a) /\ saved_pmc' = saved_pmc /\ Keeping(a)'
            /\ \A q \in InPlace' : Keeps(regs'[q])
            /\ regs'["100"] = Bits /\ \A q \in NvRegs \ {"100"} : regs'[q] = regs[q]
        BY <1>2, <2>6, <3>1, NvSet
      <3>3. Alone(a)'
        BY <1>1, <1>3, <2>6, <3>1, <3>2, Position DEF IInv, Alone_OK, Alone, Enabling
      <3> QED BY <3>2, <3>3 DEF Achieves
    <2>7. CASE at[a] = 6
      <3>1. pc'[a] = "tsleep" /\ Code(a)[at[a]] = Set("600100", Bits)
        BY <1>0, <1>3, <2>1, <2>7
      <3>2. /\ Typed(a) /\ saved_pmc' = saved_pmc /\ Keeping(a)'
            /\ \A q \in InPlace' : Keeps(regs'[q])
            /\ regs'["600100"] = Bits /\ \A q \in NvRegs \ {"600100"} : regs'[q] = regs[q]
        BY <1>2, <2>7, <3>1, NvSet
      <3>3. Alone(a)'
        BY <1>1, <1>3, <2>7, <3>1, <3>2, Position DEF IInv, Alone_OK, Alone, Enabling, Enabled
      <3> QED BY <3>2, <3>3 DEF Achieves
    <2>8. at[a] \in {1, 2, 3, 4, 5, 6}
      BY <1>1, <2>1
    <2> QED BY <2>2, <2>3, <2>4, <2>5, <2>6, <2>7, <2>8
  <1>4. CASE a = Filter
    <2>1. /\ Len(Code(a)) = 5
          /\ Code(a)[1] = Set("100", Bits) /\ Code(a)[2] = Set("600100", {0})
          /\ Code(a)[3] = Set("140", {}) /\ Code(a)[4] = Set("600140", {})
          /\ Code(a)[5] = Put("200", "saved_pmc", {}, {})
      BY <1>4, Nv4Code
    <2>2. CASE at[a] = 1
      <3>1. at'[a] = 2 /\ pc'[a] = "run" /\ Code(a)[at[a]] = Set("100", Bits)
        BY <1>0, <2>1, <2>2
      <3>2. /\ Typed(a) /\ saved_pmc' = saved_pmc /\ Keeping(a)'
            /\ \A q \in InPlace' : Keeps(regs'[q])
            /\ regs'["100"] = Bits /\ \A q \in NvRegs \ {"100"} : regs'[q] = regs[q]
        BY <1>2, <1>4, <3>1, NvSet
      <3>3. Alone(a)'
        BY <1>1, <1>4, <2>2, <3>1, <3>2, Position DEF IInv, Alone_OK, Alone, Silencing
      <3> QED BY <3>2, <3>3 DEF Achieves
    <2>3. CASE at[a] = 2
      <3>1. at'[a] = 3 /\ pc'[a] = "run" /\ Code(a)[at[a]] = Set("600100", {0})
        BY <1>0, <2>1, <2>3
      <3>2. /\ Typed(a) /\ saved_pmc' = saved_pmc /\ Keeping(a)'
            /\ \A q \in InPlace' : Keeps(regs'[q])
            /\ regs'["600100"] = {0} /\ \A q \in NvRegs \ {"600100"} : regs'[q] = regs[q]
        BY <1>2, <1>4, <3>1, NvSet
      <3>3. Alone(a)'
        BY <1>1, <1>4, <2>3, <3>1, <3>2, Position DEF IInv, Alone_OK, Alone, Silencing
      <3> QED BY <3>2, <3>3 DEF Achieves
    <2>4. CASE at[a] = 3
      <3>1. at'[a] = 4 /\ pc'[a] = "run" /\ Code(a)[at[a]] = Set("140", {})
        BY <1>0, <2>1, <2>4
      <3>2. /\ Typed(a) /\ saved_pmc' = saved_pmc /\ Keeping(a)'
            /\ \A q \in InPlace' : Keeps(regs'[q])
            /\ regs'["140"] = {} /\ \A q \in NvRegs \ {"140"} : regs'[q] = regs[q]
        BY <1>2, <1>4, <3>1, NvSet
      <3>3. Alone(a)'
        BY <1>1, <1>4, <2>4, <3>1, <3>2, Position DEF IInv, Alone_OK, Alone, Silencing
      <3> QED BY <3>2, <3>3 DEF Achieves
    <2>5. CASE at[a] = 4
      <3>1. at'[a] = 5 /\ pc'[a] = "run" /\ Code(a)[at[a]] = Set("600140", {})
        BY <1>0, <2>1, <2>5
      <3>2. /\ Typed(a) /\ saved_pmc' = saved_pmc /\ Keeping(a)'
            /\ \A q \in InPlace' : Keeps(regs'[q])
            /\ regs'["600140"] = {} /\ \A q \in NvRegs \ {"600140"} : regs'[q] = regs[q]
        BY <1>2, <1>4, <3>1, NvSet
      <3>3. Alone(a)'
        BY <1>1, <1>4, <2>5, <3>1, <3>2, Position DEF IInv, Alone_OK, Alone, Silencing
      <3> QED BY <3>2, <3>3 DEF Achieves
    <2>6. CASE at[a] = 5
      <3>1. pc'[a] = "wakeup" /\ Code(a)[at[a]] = Put("200", "saved_pmc", {}, {})
        BY <1>0, <1>4, <2>1, <2>6
      <3>2. /\ Typed(a) /\ saved_pmc' = saved_pmc
            /\ \A q \in InPlace' : Keeps(regs'[q])
            /\ \A q \in NvRegs : regs'[q] = regs[q]
        <4>1. "200" \notin InPlace' \/ Keeps(saved_pmc)
          <5>1. pc[Filter] = "run" /\ adapter' = adapter
            BY <1>4, Position
          <5> QED BY <1>1, <5>1 DEF InPlace, IInv, Pmc_OK, OwnNv4
        <4> QED BY <1>2, <3>1, <4>1, PutSavedKeeps
      <3>3. Alone(a)' /\ Keeping(a)'
        BY <1>1, <1>4, <2>6, <3>1, <3>2, Position
           DEF IInv, Alone_OK, Alone, Silencing, Enabled, Keeping, SavesPmc, OwnNv4
      <3> QED BY <3>2, <3>3 DEF Achieves
    <2>7. at[a] \in {1, 2, 3, 4, 5}
      BY <1>1, <2>1
    <2> QED BY <2>2, <2>3, <2>4, <2>5, <2>6, <2>7
  <1> QED BY <1>3, <1>4

-----------------------------------------------------------------------------
(***************************************************************************)
(* VGA: the two halves of the functions select CR11 and modify it.         *)
(***************************************************************************)
LEMMA IndexKeeps ==
  ASSUME IInv, NEW a \in Actors, Step(a), Code(a)[at[a]] = Index
  PROVE  /\ Typed(a) /\ index' = "cr11" /\ UNCHANGED <<regs, saved_pmc, pb>>
         /\ \A q \in InPlace' : Keeps(regs'[q])
  <1>1. index' = "cr11" /\ UNCHANGED <<regs, pending, saved_pmc, pb>>
    BY Position, AccessIndex
  <1>2. InPlace' \subseteq InPlace
    BY Position DEF InPlace
  <1> QED BY <1>1, <1>2 DEF Typed, IInv, TypeOK, Rest_OK

LEMMA VgaAchieves ==
  ASSUME IInv, NEW a \in Actors, Step(a), Card = "vga" PROVE Achieves(a)
  <1>1. /\ Card' = "vga" /\ at[a] \in 1 .. Len(Code(a)) /\ mixed'[a] = mixed[a]
        /\ pc[a] = "run" /\ (crossed => crossed')
    BY Position
  <1>2. /\ at[a] # Len(Code(a)) => at'[a] = at[a] + 1 /\ pc'[a] = "run"
        /\ at[a] = Len(Code(a)) =>
             at'[a] = 1 /\ pc'[a] = IF a = Filter THEN "wakeup" ELSE "tsleep"
    BY Position, Zenon
  <1>3. /\ Len(Code(a)) = 8
        /\ \A k \in {1, 3, 5, 7} : Code(a)[k] = Index
        /\ \A k \in {2, 6} : Code(a)[k] = Read("cr11")
        /\ a = Filter => /\ Code(a)[4] = Put("cr11", "pb", {4}, {5})
                         /\ Code(a)[8] = Put("cr11", "pb", {}, {5})
        /\ a # Filter => /\ Code(a)[4] = Put("cr11", "pb", {4, 5}, {})
                         /\ Code(a)[8] = Put("cr11", "pb", {}, {4})
    BY VgaCode
  <1>4. /\ Keeping(a) /\ Alone(a) /\ Reached("cr11") = index /\ "cr11" \in Registers
        /\ pb \in [Actors -> SUBSET Bits] /\ index \in Registers
    BY DEF IInv, Rest_OK, Alone_OK, TypeOK, Reached, Registers
  <1>5. CASE at[a] \in {1, 3, 5, 7}
    <2>1. at'[a] = at[a] + 1 /\ pc'[a] = "run" /\ Code(a)[at[a]] = Index
      BY <1>2, <1>3, <1>5
    <2>2. /\ Typed(a) /\ index' = "cr11" /\ UNCHANGED <<regs, saved_pmc, pb>>
          /\ \A q \in InPlace' : Keeps(regs'[q])
      BY <2>1, IndexKeeps
    <2>3. Keeping(a)'
      BY <1>1, <1>4, <1>5, <2>1, <2>2 DEF Keeping, SavesPmc, OwnNv4, Keeps
    <2>4. Alone(a)'
      BY <1>1, <1>4, <1>5, <2>1, <2>2 DEF Alone, Enabling, Silencing
    <2> QED BY <1>1, <2>2, <2>3, <2>4 DEF Achieves
  <1>6. CASE at[a] \in {2, 6}
    <2>1. at'[a] = at[a] + 1 /\ pc'[a] = "run" /\ Code(a)[at[a]] = Read("cr11")
      BY <1>2, <1>3, <1>6
    <2>2. /\ Typed(a) /\ pb'[a] = regs[index] /\ UNCHANGED <<regs, saved_pmc, index>>
          /\ \A q \in InPlace' : Keeps(regs'[q])
      BY <1>4, <2>1, ReadKeeps
    <2>3. ~crossed => Keeps(regs["cr11"])
      BY DEF IInv, Rest_OK, InPlace
    <2>4. Keeping(a)'
      BY <1>1, <1>4, <1>6, <2>1, <2>2, <2>3 DEF Keeping, SavesPmc, OwnNv4, Keeps
    <2>5. Alone(a)'
      BY <1>1, <1>4, <1>6, <2>1, <2>2 DEF Alone, Enabling, Silencing
    <2> QED BY <1>1, <2>2, <2>4, <2>5 DEF Achieves
  <1>7. CASE at[a] \in {4, 8}
    <2>1. index \notin InPlace' \/ Keeps(pb[a])
      BY <1>1, <1>4, <1>7 DEF Keeping, SavesPmc, OwnNv4, InPlace, IInv, TypeOK
    <2>2. ASSUME NEW del \in SUBSET (Bits \ RestBits), NEW add \in SUBSET (Bits \ RestBits),
                 Code(a)[at[a]] = Put("cr11", "pb", del, add)
          PROVE  /\ Typed(a) /\ UNCHANGED <<saved_pmc, index>>
                 /\ \A q \in InPlace' : Keeps(regs'[q])
                 /\ regs'[index] = (pb[a] \ del) \cup add
      <3>1. Reached("cr11") \notin InPlace' \/ Keeps(pb[a])
        BY <1>4, <2>1
      <3>2. "cr11" \in Registers
        BY <1>4
      <3>3. Typed(a) /\ saved_pmc' = saved_pmc /\ index' = index
        BY <2>2, <3>1, <3>2, ModifyKeeps, Zenon
      <3>4. \A q \in InPlace' : Keeps(regs'[q])
        BY <2>2, <3>1, <3>2, ModifyKeeps, Zenon
      <3>5. regs'[Reached("cr11")] = (pb[a] \ del) \cup add
        BY <2>2, <3>1, <3>2, ModifyKeeps, Zenon
      <3> QED BY <1>4, <3>3, <3>4, <3>5
    <2>3. /\ {4, 5} \in SUBSET (Bits \ RestBits) /\ {4} \in SUBSET (Bits \ RestBits)
          /\ {5} \in SUBSET (Bits \ RestBits) /\ {} \in SUBSET (Bits \ RestBits)
      BY DEF Bits, RestBits
    <2>4. /\ Typed(a) /\ UNCHANGED <<saved_pmc, index>>
          /\ \A q \in InPlace' : Keeps(regs'[q])
          /\ a = Filter => 5 \in regs'[index]
          /\ a # Filter /\ (at[a] = 4 \/ 5 \notin pb[a]) => 5 \notin regs'[index]
      <3>1. CASE a = Filter
        <4>1. PICK del \in SUBSET (Bits \ RestBits) :
                Code(a)[at[a]] = Put("cr11", "pb", del, {5})
          BY <1>3, <1>7, <2>3, <3>1
        <4>2. /\ Typed(a) /\ UNCHANGED <<saved_pmc, index>>
              /\ \A q \in InPlace' : Keeps(regs'[q])
              /\ regs'[index] = (pb[a] \ del) \cup {5}
          BY <2>2, <2>3, <4>1
        <4> QED BY <3>1, <4>2
      <3>2. CASE a # Filter
        <4>1. PICK del \in SUBSET (Bits \ RestBits), add \in SUBSET (Bits \ RestBits) :
                /\ Code(a)[at[a]] = Put("cr11", "pb", del, add)
                /\ 5 \notin add /\ (at[a] = 4 => 5 \in del)
          BY <1>3, <1>7, <2>3, <3>2
        <4>2. /\ Typed(a) /\ UNCHANGED <<saved_pmc, index>>
              /\ \A q \in InPlace' : Keeps(regs'[q])
              /\ regs'[index] = (pb[a] \ del) \cup add
          BY <2>2, <4>1
        <4> QED BY <3>2, <4>1, <4>2
      <3> QED BY <3>1, <3>2
    <2>5. CASE at[a] = 4
      <3>1. at'[a] = 5 /\ pc'[a] = "run"
        BY <1>2, <1>3, <2>5
      <3>2. Keeping(a)'
        BY <1>1, <1>4, <2>4, <2>5, <3>1 DEF Keeping, SavesPmc, OwnNv4
      <3>3. Alone(a)'
        BY <1>1, <1>4, <2>4, <2>5, <3>1 DEF Alone, Enabling, Silencing
      <3> QED BY <1>1, <2>4, <3>2, <3>3 DEF Achieves
    <2>6. CASE at[a] = 8
      <3>1. pc'[a] = IF a = Filter THEN "wakeup" ELSE "tsleep"
        BY <1>2, <1>3, <2>6
      <3>2. Keeping(a)'
        BY <3>1 DEF Keeping, SavesPmc, OwnNv4
      <3>3. Alone(a)'
        BY <1>1, <1>4, <2>4, <2>6, <3>1 DEF Alone, Enabling, Silencing, Enabled
      <3> QED BY <1>1, <2>4, <3>2, <3>3 DEF Achieves
    <2> QED BY <1>7, <2>5, <2>6
  <1>8. at[a] \in {1, 2, 3, 4, 5, 6, 7, 8}
    BY <1>1, <1>3
  <1> QED BY <1>5, <1>6, <1>7, <1>8

-----------------------------------------------------------------------------
\* Every step of the functions and of everyone else keeps the invariant.
LEMMA NextIInv == IInv /\ [Next]_vars => IInv'
  <1> SUFFICES ASSUME IInv, [Next]_vars PROVE IInv'
    OBVIOUS
  <1>1. CASE Retrace
    BY <1>1, RetraceIInv
  <1>2. CASE Wakeup
    BY <1>2, WakeupIInv
  <1>3. ASSUME NEW a \in Actors, Begin(a) PROVE IInv'
    BY <1>3, BeginIInv
  <1>4. ASSUME NEW a \in Actors, Step(a) PROVE IInv'
    <2>1. Card \in {"vga", "s3", "nv3", "nv4", "r128", "rage", "rendition"}
      BY CardIsOne DEF Cards
    <2>2. Achieves(a)
      BY <1>4, <2>1, VgaAchieves, S3Achieves, Nv3Achieves, Nv4Achieves, R128Achieves,
         RageAchieves, RenditionAchieves
    <2> QED BY <1>4, <2>2, StepIInv
  <1>5. ASSUME NEW t \in Threads, Sleep(t) \/ Timeout(t) PROVE IInv'
    BY <1>5, SleepIInv
  <1>6. ASSUME NEW p \in PortUsers, OutB(p) PROVE IInv'
    BY <1>6, OutBIInv
  <1>7. CASE UNCHANGED vars
    <2>1. UNCHANGED <<adapter, regs, pending, saved_pmc, pc, at, pb, mixed, index, port, crossed>>
      BY <1>7 DEF vars, portvars
    <2>2. TypeOK'
      BY <2>1 DEF IInv, TypeOK
    <2>3. \A c \in Actors : Alone(c)' /\ Keeping(c)'
      BY <2>1, Still DEF IInv, Alone_OK, Rest_OK
    <2>4. At_OK'
      BY <2>1, SameLength DEF IInv, At_OK
    <2>5. Rest_OK' /\ Pmc_OK'
      BY <2>1, <2>3, Untouched
    <2> QED BY <2>2, <2>3, <2>4, <2>5 DEF IInv, Alone_OK
  <1> QED BY <1>1, <1>2, <1>3, <1>4, <1>5, <1>6, <1>7 DEF Next

LEMMA RegsInvariance == Spec => []IInv
  <1> QED BY InitIInv, NextIInv, PTL DEF Spec

\* Every register, position and local of a function keeps its type: no access
\* reaches beyond a function or a card.
THEOREM TypeCorrect == Spec => []TypeOK
  <1>1. IInv => TypeOK
    BY DEF IInv
  <1> QED BY <1>1, RegsInvariance, PTL

\* A call of enable_vsync() in which nobody interfered leaves the interrupt
\* enabled, for every adapter and any number of processes.
THEOREM EnablesAlone == Spec => []EnableEnables
  <1>1. IInv => EnableEnables
    BY ActorAssumption DEF IInv, Alone_OK, Alone, EnableEnables, Actors, Filter
  <1> QED BY <1>1, RegsInvariance, PTL

\* An ack_vsync() in which nobody interfered takes the adapter off the line.
THEOREM SilencesAlone == Spec => []AckSilences
  <1>1. IInv => AckSilences
    BY DEF IInv, Alone_OK, Alone, AckSilences, Actors, Line
  <1> QED BY <1>1, RegsInvariance, PTL

\* No interleaving of calls loses the other bits of a register that is modified
\* in place, CR11 as long as no process uses the CRTC in between.
THEOREM RestKept == Spec => []RestPreserved
  <1>1. IInv => RestPreserved
    BY DEF IInv, Rest_OK, Keeps, RestPreserved
  <1> QED BY <1>1, RegsInvariance, PTL
=============================================================================
