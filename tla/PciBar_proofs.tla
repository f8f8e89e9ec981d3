---------------------------- MODULE PciBar_proofs ----------------------------
(***************************************************************************)
(* For every width, page size and layout the assumptions of PciBar admit:  *)
(* the scan leaves every register as the firmware assigned it, and a page  *)
(* can be mapped exactly where it should be.                               *)
(***************************************************************************)
EXTENDS PciBar, TLAPS

\* What a register holds between the two writes.
Sized(r) == Top - r.size + r.flags

\* What the scan has recorded of a register that it has passed.
Recorded(j) ==
  LET r == layout[j] IN
  IF Assigned(r) = 0 \/ Length(Sized(r)) = 0
  THEN len[j] = 0 /\ mem[j] = 0
  ELSE len[j] = Length(Sized(r)) /\ mem[j] = Masked(Assigned(r))

\* The inductive invariant: which registers hold what, what the two locals
\* hold at each step, and what is recorded of each register.
Registers_OK ==
  \A j \in Indices :
    IF j = i /\ pc \in {"size", "restore"} THEN bar[j] = Sized(layout[j])
                                           ELSE bar[j] = Assigned(layout[j])
Locals_OK ==
  /\ pc # "read" => result = Assigned(layout[i]) /\ result # 0
  /\ pc \in {"restore", "store"} => t = Sized(layout[i])
Records_OK ==
  \A j \in Indices : IF j < i THEN Recorded(j) ELSE len[j] = 0 /\ mem[j] = 0

IInv ==
  /\ TypeOK /\ layout \in Layouts /\ (func = 0 => first = layout)
  /\ Registers_OK /\ Locals_OK /\ Records_OK

\* The remainder of a number below the modulus, and of one a single wrap above.
LEMMA ModSmall == ASSUME NEW w \in Nat, NEW x \in 0 .. w - 1 PROVE x % w = x
  OBVIOUS

LEMMA ModOnce ==
  ASSUME NEW w \in Nat, NEW x \in w .. 2 * w - 1 PROVE x % w = x - w
  OBVIOUS

\* Clearing four bits goes down by less than 16, and not at all from a multiple.
LEMMA MaskedBounds ==
  ASSUME NEW v \in Nat
  PROVE  Masked(v) \in Nat /\ Masked(v) <= v /\ v - Masked(v) \in 0 .. 15
  BY DEF Masked

LEMMA MaskedFlags ==
  ASSUME NEW a \in Nat, a % 16 = 0, NEW f \in 0 .. 15
  PROVE  Masked(a + f) = a
  BY DEF Masked

\* The length is the distance of the masked value from the top.
LEMMA LengthBounds ==
  ASSUME NEW v \in 0 .. Top - 1
  PROVE  /\ Length(v) \in 0 .. Top - 1
         /\ Length(v) = IF Masked(v) = 0 THEN 0 ELSE Top - Masked(v)
  <1>1. Masked(v) \in 0 .. Top - 1
    BY MaskedBounds, WidthAssumption
  <1>2. CASE Masked(v) = 0
    <2>1. Top % Top = 0
      BY ModOnce, WidthAssumption
    <2> QED BY <1>2, <2>1, WidthAssumption DEF Length, Negated
  <1>3. CASE Masked(v) # 0
    <2>1. Top - Masked(v) \in 1 .. Top - 1
      BY <1>1, <1>3, WidthAssumption
    <2>2. (Top - Masked(v)) % Top = Top - Masked(v)
      BY <2>1, ModSmall, WidthAssumption
    <2> QED BY <1>3, <2>1, <2>2, WidthAssumption DEF Length, Negated
  <1> QED BY <1>2, <1>3

\* The facts about one register of an adapter that the steps need.
LEMMA RegisterFacts ==
  ASSUME NEW r \in Registers, WellFormed(r)
  PROVE  /\ Assigned(r) \in 0 .. Top - 1
         /\ Sized(r) \in 0 .. Top - 1
         /\ Written(r, Top - 1) = Sized(r)
         /\ Written(r, Assigned(r)) = Assigned(r)
  <1>1. /\ r.size \in 1 .. Top /\ r.flags \in 0 .. 15 /\ r.base \in 0 .. Top - 1
        /\ Top \in Nat
    BY WidthAssumption DEF Registers
  <1>a. r.flags < r.size /\ r.base + r.flags < Top
    BY DEF WellFormed
  <1>2. /\ (Top - 1) % r.size = r.size - 1
        /\ (r.base + r.flags) % r.size = r.flags
    BY DEF WellFormed
  <1>b. r.base + r.flags \in 0 .. Top - 1
    BY <1>1, <1>a
  <1>c. Top - r.size + r.flags \in 0 .. Top - 1
    BY <1>1, <1>a
  <1>3. Assigned(r) \in 0 .. Top - 1 /\ Sized(r) \in 0 .. Top - 1
    BY <1>b, <1>c DEF Assigned, Sized
  <1>4. Written(r, Top - 1) = Sized(r)
    <2>1. Written(r, Top - 1) = Top - 1 - (r.size - 1) + r.flags
      BY <1>2 DEF Written
    <2> QED BY <1>1, <2>1 DEF Sized
  <1>5. Written(r, Assigned(r)) = Assigned(r)
    <2>1. Written(r, Assigned(r)) = (r.base + r.flags) - r.flags + r.flags
      BY <1>2 DEF Written, Assigned
    <2> QED BY <1>1, <2>1 DEF Assigned
  <1> QED BY <1>3, <1>4, <1>5

LEMMA LayoutFacts ==
  ASSUME TypeOK, layout \in Layouts, NEW j \in Indices
  PROVE  layout[j] \in Registers /\ WellFormed(layout[j])
  BY LayoutAssumption DEF TypeOK

LEMMA InitInv == Init => IInv
  <1> SUFFICES ASSUME Init PROVE IInv
    OBVIOUS
  <1>1. layout \in [Indices -> Registers] /\ \A j \in Indices : WellFormed(layout[j])
    BY LayoutAssumption DEF Init
  <1>2. \A j \in Indices : Assigned(layout[j]) \in 0 .. Top - 1
    BY <1>1, RegisterFacts
  <1>3. first \in Layouts /\ first \in [Indices -> Registers] /\ (func = 0 => first = layout)
    BY LayoutAssumption, FunctionAssumption DEF Init
  <1>4. TypeOK
    BY <1>1, <1>2, <1>3, BarsAssumption, WidthAssumption DEF Init, TypeOK
  <1> QED BY <1>3, <1>4 DEF Init, IInv, Registers_OK, Locals_OK, Records_OK, Indices

\* One step of the scan.
LEMMA NextInv == IInv /\ [Next]_vars => IInv'
  <1> SUFFICES ASSUME IInv, [Next]_vars PROVE IInv'
    OBVIOUS
  <1>a. Bars \in Nat /\ Top \in Nat
    BY BarsAssumption, WidthAssumption
  <1> USE <1>a
  <1>0. /\ TypeOK /\ layout \in Layouts /\ (func = 0 => first = layout)
        /\ Registers_OK /\ Locals_OK /\ Records_OK
        /\ \A j \in Indices : /\ Assigned(layout[j]) \in 0 .. Top - 1
                              /\ Sized(layout[j]) \in 0 .. Top - 1
                              /\ Written(layout[j], Top - 1) = Sized(layout[j])
                              /\ Written(layout[j], Assigned(layout[j])) = Assigned(layout[j])
    BY LayoutFacts, RegisterFacts DEF IInv
  <1>1. CASE ReadBar
    <2>0. i \in Indices
      BY <1>0, <1>1 DEF ReadBar, device, TypeOK, Indices
    <2>a. i' \in 0 .. Bars /\ (pc' # "read" => i' < Bars)
      BY <1>1, <2>0 DEF ReadBar, device, Indices
    <2>1. TypeOK' /\ layout' \in Layouts /\ (func' = 0 => first' = layout')
      BY <1>0, <1>1, <2>0, <2>a DEF ReadBar, device, TypeOK
    <2>2. Registers_OK'
      BY <1>0, <1>1, <2>0 DEF ReadBar, device, Registers_OK
    <2>3. Locals_OK'
      BY <1>0, <1>1, <2>0 DEF ReadBar, device, Registers_OK, Locals_OK
    <2>4. Records_OK'
      <3> SUFFICES ASSUME NEW j \in Indices
                   PROVE  IF j < i' THEN Recorded(j)' ELSE len'[j] = 0 /\ mem'[j] = 0
        BY DEF Records_OK
      <3>1. Recorded(j)' <=> Recorded(j)
        BY <1>1 DEF ReadBar, device, Recorded
      <3>2. bar[i] = Assigned(layout[i])
        BY <1>0, <1>1, <2>0 DEF ReadBar, device, Registers_OK
      <3> QED BY <1>0, <1>1, <2>0, <3>1, <3>2 DEF ReadBar, device, Records_OK, Recorded, Indices
    <2> QED BY <2>1, <2>2, <2>3, <2>4 DEF IInv
  <1>2. CASE WriteOnes
    <2>0. i \in Indices
      BY <1>0, <1>2 DEF WriteOnes, device, TypeOK, Indices
    <2>1. TypeOK' /\ layout' \in Layouts /\ (func' = 0 => first' = layout')
      BY <1>0, <1>2, <2>0 DEF WriteOnes, device, TypeOK
    <2>2. Registers_OK'
      BY <1>0, <1>2, <2>0 DEF WriteOnes, device, Registers_OK, TypeOK
    <2>3. Locals_OK'
      BY <1>0, <1>2 DEF WriteOnes, device, Locals_OK
    <2>4. Records_OK'
      BY <1>0, <1>2 DEF WriteOnes, device, Records_OK, Recorded
    <2> QED BY <2>1, <2>2, <2>3, <2>4 DEF IInv
  <1>3. CASE ReadSize
    <2>0. i \in Indices
      BY <1>0, <1>3 DEF ReadSize, device, TypeOK, Indices
    <2>1. TypeOK' /\ layout' \in Layouts /\ (func' = 0 => first' = layout')
      BY <1>0, <1>3, <2>0 DEF ReadSize, device, TypeOK
    <2>2. Registers_OK'
      BY <1>0, <1>3 DEF ReadSize, device, Registers_OK
    <2>3. Locals_OK'
      BY <1>0, <1>3, <2>0 DEF ReadSize, device, Locals_OK, Registers_OK
    <2>4. Records_OK'
      BY <1>0, <1>3 DEF ReadSize, device, Records_OK, Recorded
    <2> QED BY <2>1, <2>2, <2>3, <2>4 DEF IInv
  <1>4. CASE Restore
    <2>0. i \in Indices
      BY <1>0, <1>4 DEF Restore, device, TypeOK, Indices
    <2>1. TypeOK' /\ layout' \in Layouts /\ (func' = 0 => first' = layout')
      BY <1>0, <1>4, <2>0 DEF Restore, device, TypeOK, Locals_OK
    <2>2. Registers_OK'
      BY <1>0, <1>4, <2>0 DEF Restore, device, Registers_OK, Locals_OK, TypeOK
    <2>3. Locals_OK'
      BY <1>0, <1>4 DEF Restore, device, Locals_OK
    <2>4. Records_OK'
      BY <1>0, <1>4 DEF Restore, device, Records_OK, Recorded
    <2> QED BY <2>1, <2>2, <2>3, <2>4 DEF IInv
  <1>5. CASE Store
    <2>0. i \in Indices
      BY <1>0, <1>5 DEF Store, device, TypeOK, Indices
    <2>a. Length(t) \in 0 .. Top - 1 /\ Masked(result) \in 0 .. Top - 1
      BY <1>0, LengthBounds, MaskedBounds DEF TypeOK
    <2>b. i' \in 0 .. Bars
      BY <1>5, <2>0 DEF Store, device, Indices
    <2>1. TypeOK' /\ layout' \in Layouts /\ (func' = 0 => first' = layout')
      BY <1>0, <1>5, <2>0, <2>a, <2>b DEF Store, device, TypeOK
    <2>2. Registers_OK'
      BY <1>0, <1>5 DEF Store, device, Registers_OK
    <2>3. Locals_OK'
      BY <1>5 DEF Store, device, Locals_OK
    <2>4. Records_OK'
      <3> SUFFICES ASSUME NEW j \in Indices
                   PROVE  IF j < i' THEN Recorded(j)' ELSE len'[j] = 0 /\ mem'[j] = 0
        BY DEF Records_OK
      <3>1. CASE j = i
        BY <1>0, <1>5, <2>0, <3>1
        DEF Store, device, Records_OK, Recorded, Locals_OK, TypeOK, Indices
      <3>2. CASE j # i
        <4>1. len'[j] = len[j] /\ mem'[j] = mem[j]
          BY <1>0, <1>5, <2>0, <3>2 DEF Store, device, TypeOK
        <4>2. (j < i' <=> j < i) /\ (Recorded(j)' <=> Recorded(j))
          BY <1>0, <1>5, <2>0, <3>2, <4>1 DEF Store, device, Recorded, Indices
        <4> QED BY <1>0, <4>1, <4>2 DEF Records_OK
      <3> QED BY <3>1, <3>2
    <2> QED BY <2>1, <2>2, <2>3, <2>4 DEF IInv
  <1>6. CASE UNCHANGED vars
    BY <1>0, <1>6
    DEF vars, device, IInv, TypeOK, Registers_OK, Locals_OK, Records_OK, Recorded
  <1> QED BY <1>1, <1>2, <1>3, <1>4, <1>5, <1>6 DEF Next

\* What svga_load() holds in its locals and records stays in 32 bits.
THEOREM TypeCorrect == Spec => []TypeOK
  <1>1. IInv => TypeOK
    BY DEF IInv
  <1> QED BY InitInv, NextInv, <1>1, PTL DEF Spec

\* No register is left with the value that sizes it: see PciBar.
THEOREM RegistersRestored == Spec => []Restored
  <1>1. IInv => Restored
    BY DEF IInv, Registers_OK, Restored
  <1> QED BY InitInv, NextInv, <1>1, PTL DEF Spec

\* What is recorded of an aperture of memory that the firmware has placed, and
\* of every other register.
LEMMA RecordedMemory ==
  ASSUME TypeOK, layout \in Layouts, NEW j \in Indices, Recorded(j),
         layout[j].kind = "memory", layout[j].base > 0
  PROVE  mem[j] = layout[j].base /\ len[j] = layout[j].size
  <1> DEFINE r == layout[j]
  <1> HIDE DEF r
  <1>1. r \in Registers /\ WellFormed(r) /\ r.kind = "memory" /\ r.base > 0
    BY LayoutFacts DEF r
  <1>a. /\ r.size < Top /\ r.size % 16 = 0 /\ r.base % 16 = 0
    BY <1>1 DEF WellFormed
  <1>b. r.size \in 1 .. Top /\ r.flags \in 0 .. 15 /\ r.base \in 0 .. Top - 1
    BY <1>1 DEF Registers
  <1>c. r.size \in 1 .. Top - 1 /\ r.base \in 1 .. Top - 1
    BY <1>1, <1>a, <1>b, WidthAssumption
  <1>2. /\ r.size \in 1 .. Top - 1 /\ r.flags \in 0 .. 15 /\ r.base \in 1 .. Top - 1
        /\ r.size % 16 = 0 /\ r.base % 16 = 0
    BY <1>a, <1>b, <1>c
  <1>3. Masked(Assigned(r)) = r.base
    BY <1>2, MaskedFlags, WidthAssumption DEF Assigned
  <1>4. Masked(Sized(r)) = Top - r.size
    <2>1. Top - r.size \in 1 .. Top - 1 /\ (Top - r.size) % 16 = 0
      BY <1>2, WidthAssumption
    <2> QED BY <1>2, <2>1, MaskedFlags, WidthAssumption DEF Sized
  <1>5. Length(Sized(r)) = r.size
    <2>1. Sized(r) \in 0 .. Top - 1
      BY <1>1, RegisterFacts
    <2> QED BY <1>2, <1>4, <2>1, LengthBounds, WidthAssumption
  <1>6. Assigned(r) # 0
    BY <1>2, WidthAssumption DEF Assigned
  <1> QED BY <1>2, <1>3, <1>5, <1>6 DEF Recorded, r

LEMMA RecordedOther ==
  ASSUME TypeOK, layout \in Layouts, NEW j \in Indices, Recorded(j),
         layout[j].kind # "memory" \/ layout[j].base = 0
  PROVE  mem[j] = 0 \/ len[j] < Page
  <1> DEFINE r == layout[j]
  <1> HIDE DEF r
  <1>1. r \in Registers /\ WellFormed(r)
    BY LayoutFacts DEF r
  <1>2. /\ r.size \in 1 .. Top /\ r.flags \in 0 .. 15 /\ r.base \in 0 .. Top - 1
        /\ r.kind \in Kinds
    BY <1>1, WidthAssumption DEF Registers
  <1>3. Sized(r) \in 0 .. Top - 1
    BY <1>1, RegisterFacts
  <1>4. CASE r.base = 0
    <2>1. Masked(Assigned(r)) = 0
      BY <1>2, <1>4, MaskedFlags DEF Assigned
    <2> QED BY <2>1 DEF Recorded, r
  <1>5. CASE r.kind = "port"
    <2>1. r.size + 16 <= Page
      BY <1>1, <1>5 DEF WellFormed
    <2>a. /\ Length(Sized(r)) \in 0 .. Top - 1
          /\ Length(Sized(r)) = IF Masked(Sized(r)) = 0 THEN 0 ELSE Top - Masked(Sized(r))
      BY <1>3, LengthBounds
    <2>b. Masked(Sized(r)) \in Nat /\ Sized(r) - Masked(Sized(r)) \in 0 .. 15
      BY <1>3, MaskedBounds
    <2>c. Sized(r) >= Top - r.size
      BY <1>2, WidthAssumption DEF Sized
    <2>2. Length(Sized(r)) < Page
      BY <1>2, <1>3, <2>1, <2>a, <2>b, <2>c, WidthAssumption, PageAssumption
    <2> QED BY <2>2, PageAssumption DEF Recorded, r
  <1>6. CASE r.kind \in {"high", "none"}
    BY <1>1, <1>4, <1>6 DEF WellFormed
  <1>7. r.kind # "memory" \/ r.base = 0
    BY DEF r
  <1> QED BY <1>2, <1>4, <1>5, <1>6, <1>7 DEF Kinds

\* What the assumptions say of the width of this machine.
LEMMA WidthFacts ==
  ASSUME word \in Words
  PROVE  word \in Nat /\ word >= Top /\ Page < word /\ Page \in Nat /\ Top \in Nat
  BY WidthAssumption, PageAssumption

\* The end of a range that does not start above it has not wrapped.
LEMMA EndOfRange ==
  ASSUME word \in Words, NEW start \in 0 .. word - 1, (start + Page) % word >= start
  PROVE  (start + Page) % word = start + Page
  <1> USE WidthFacts
  <1>1. start + Page \in 0 .. 2 * word - 1
    OBVIOUS
  <1>2. CASE start + Page >= word
    <2>1. (start + Page) % word = start + Page - word
      BY <1>1, <1>2, ModOnce
    <2> QED BY <2>1
  <1>3. CASE start + Page < word
    BY <1>1, <1>3, ModSmall
  <1> QED BY <1>1, <1>2, <1>3

\* A sum of two 32-bit numbers is not larger after it has wrapped.
LEMMA EndOfBar ==
  ASSUME word \in Words, NEW a \in 0 .. Top - 1, NEW b \in 0 .. Top - 1
  PROVE  (a + b) % word <= a + b /\ (a + b < word => (a + b) % word = a + b)
  <1> USE WidthFacts
  <1>1. CASE a + b < word
    <2>1. (a + b) % word = a + b
      BY <1>1, ModSmall
    <2> QED BY <2>1
  <1>2. CASE a + b >= word
    <2>1. (a + b) % word = a + b - word
      BY <1>2, ModOnce
    <2> QED BY <1>2, <2>1
  <1> QED BY <1>1, <1>2

LEMMA InvMapsOwn == IInv => MapsOwn
  <1> SUFFICES ASSUME IInv, Scanned, NEW start \in 0 .. word - 1, MayMap(start)
               PROVE  \/ InLegacy(start, start + Page)
                      \/ \E j \in Indices : InAperture(j, start, Page)
    BY DEF MapsOwn
  <1>0. word \in Words
    BY DEF IInv, TypeOK
  <1> USE <1>0, WidthFacts, BarsAssumption
  <1>1. TypeOK /\ layout \in Layouts /\ \A j \in Indices : Recorded(j)
    BY DEF IInv, Records_OK, Scanned, Indices
  <1>2. (start + Page) % word >= start /\ Allowed(start, (start + Page) % word)
    BY DEF MayMap, check_mem
  <1>3. Allowed(start, start + Page)
    BY <1>2, EndOfRange
  <1>4. ASSUME NEW j \in Indices, InBar(j, start, start + Page)
        PROVE  InAperture(j, start, Page)
    <2>1. mem[j] \in 0 .. Top - 1 /\ len[j] \in 0 .. Top - 1
      BY <1>1 DEF TypeOK
    <2>a. (mem[j] + len[j]) % word <= mem[j] + len[j]
      BY <2>1, EndOfBar
    <2>b. (mem[j] + len[j]) % word \in Nat
      BY <2>1
    <2>c. /\ mem[j] # 0 /\ start >= mem[j]
          /\ start + Page <= (mem[j] + len[j]) % word
      BY <1>4 DEF InBar
    <2>2. mem[j] # 0 /\ start >= mem[j] /\ start + Page <= mem[j] + len[j]
      BY <2>1, <2>a, <2>b, <2>c
    <2>3. ~ (mem[j] = 0 \/ len[j] < Page)
      BY <2>1, <2>2
    <2>4. layout[j].kind = "memory" /\ layout[j].base # 0
      BY <1>1, <2>3, RecordedOther
    <2>5. layout[j] \in Registers
      BY <1>1, LayoutFacts
    <2>6. mem[j] = layout[j].base /\ len[j] = layout[j].size
      BY <1>1, <2>4, <2>5, RecordedMemory DEF Registers
    <2> QED BY <2>2, <2>4, <2>6 DEF InAperture
  <1> QED BY <1>3, <1>4 DEF Allowed

LEMMA InvMapsAll == IInv => MapsAll
  <1> SUFFICES ASSUME IInv, Scanned, NEW j \in Indices,
                      layout[j].kind = "memory", layout[j].base > 0,
                      layout[j].base + layout[j].size < word
               PROVE  /\ len[j] = layout[j].size
                      /\ \A start \in 0 .. word - 1 :
                           InAperture(j, start, Page) => MayMap(start)
    BY DEF MapsAll
  <1>0. word \in Words
    BY DEF IInv, TypeOK
  <1> USE <1>0, WidthFacts, BarsAssumption
  <1>1. TypeOK /\ layout \in Layouts /\ Recorded(j)
    BY DEF IInv, Records_OK, Scanned, Indices
  <1>2. mem[j] = layout[j].base /\ len[j] = layout[j].size
    BY <1>1, RecordedMemory
  <1>3. mem[j] \in 0 .. Top - 1 /\ len[j] \in 0 .. Top - 1
    BY <1>1 DEF TypeOK
  <1>4. (mem[j] + len[j]) % word = mem[j] + len[j]
    BY <1>2, <1>3, EndOfBar
  <1>5. ASSUME NEW start \in 0 .. word - 1, InAperture(j, start, Page)
        PROVE  MayMap(start)
    <2>1. mem[j] <= start /\ start + Page <= mem[j] + len[j]
      BY <1>2, <1>5 DEF InAperture
    <2>a. start + Page \in 0 .. word - 1
      BY <1>2, <1>3, <2>1
    <2>2. (start + Page) % word = start + Page
      BY <2>a, ModSmall
    <2>3. Allowed(start, start + Page)
      BY <1>2, <1>4, <2>1 DEF Allowed, InBar
    <2> QED BY <2>2, <2>3, PageAssumption DEF MayMap, check_mem
  <1> QED BY <1>2, <1>5

\* check_mem() accepts no page outside the legacy window and the apertures.
THEOREM MapsOnlyOwn == Spec => []MapsOwn
  BY InitInv, NextInv, InvMapsOwn, PTL DEF Spec

\* It accepts every page of an aperture, and the recorded length is the real one.
THEOREM MapsWholeAperture == Spec => []MapsAll
  BY InitInv, NextInv, InvMapsAll, PTL DEF Spec

\* The length the scan finds: 16 for fewer ports, none where no bit above the
\* lowest four can be written, and else the size.
LEMMA SizedLength ==
  ASSUME NEW r \in Registers, WellFormed(r), r.kind \in {"memory", "port"}
  PROVE  Length(Sized(r)) = IF r.size = Top THEN 0
                            ELSE IF r.size < 16 THEN 16 ELSE r.size
  <1>1. /\ r.size \in 1 .. Top /\ r.flags \in 0 .. 15
        /\ Top \in Nat /\ Top % 16 = 0 /\ Top > 16
    BY WidthAssumption DEF Registers
  <1>2. r.flags < r.size /\ (r.size < 16 \/ r.size % 16 = 0)
    BY DEF WellFormed
  <1>3. Sized(r) \in 0 .. Top - 1
    BY RegisterFacts
  <1>4. CASE r.size < 16
    <2>1. Top - 16 \in Nat /\ (Top - 16) % 16 = 0 /\ 16 - r.size + r.flags \in 0 .. 15
      BY <1>1, <1>2, <1>4
    <2>2. Masked(Top - 16 + (16 - r.size + r.flags)) = Top - 16
      BY <2>1, MaskedFlags
    <2>3. Top - 16 + (16 - r.size + r.flags) = Sized(r)
      BY <1>1 DEF Sized
    <2> QED BY <1>1, <1>3, <1>4, <2>2, <2>3, LengthBounds
  <1>5. CASE r.size >= 16
    <2>1. Top - r.size \in Nat /\ (Top - r.size) % 16 = 0
      BY <1>1, <1>2, <1>5
    <2>2. Masked(Sized(r)) = Top - r.size
      BY <1>1, <2>1, MaskedFlags DEF Sized
    <2> QED BY <1>1, <1>3, <1>5, <2>2, LengthBounds
  <1> QED BY <1>1, <1>4, <1>5

\* The upper half of an aperture below 4 GB, and a register without address
\* bits, record nothing.
LEMMA OtherLength ==
  ASSUME NEW r \in Registers, WellFormed(r), r.kind \in {"high", "none"}, Assigned(r) # 0
  PROVE  r.flags # 0 /\ r.size = Top /\ Length(Sized(r)) = 0
  <1>1. /\ r.size \in 1 .. Top /\ r.flags \in 0 .. 15
        /\ r.base = 0 /\ Top \in Nat /\ Top > 16
    BY WidthAssumption DEF Registers, WellFormed
  <1>2. r.flags # 0 /\ r.size = Top
    BY <1>1 DEF WellFormed, Assigned
  <1>3. Masked(Sized(r)) = 0
    <2>1. Sized(r) = 0 + r.flags
      BY <1>1, <1>2 DEF Sized
    <2> QED BY <1>1, <2>1, MaskedFlags
  <1> QED BY <1>2, <1>3, RegisterFacts, LengthBounds

LEMMA InvLengthsAgree == IInv => LengthsAgree
  <1> SUFFICES ASSUME IInv, Scanned, func = 0, NEW j \in Indices, NEW fails \in BOOLEAN
               PROVE  LET known == read_aperture_len(j, TRUE, fails)
                          sized == read_aperture_len(j, FALSE, fails)
                      IN  \/ sized = known
                          \/ fails /\ known = 0
                          \/ sized = 0 /\ (Assigned(layout[j]) = 0 \/ known = Top)
                          \/ layout[j].kind = "port" /\ known < 16 /\ sized = 16
    BY DEF LengthsAgree
  <1> DEFINE r == layout[j]
  <1>1. TypeOK /\ layout \in Layouts /\ Recorded(j)
    BY BarsAssumption DEF IInv, Records_OK, Scanned, Indices
  <1>2. r \in Registers /\ WellFormed(r) /\ r.kind \in Kinds
    BY <1>1, LayoutFacts DEF Registers
  <1>3. /\ read_aperture_len(j, TRUE, fails) = IF fails THEN 0 ELSE PCIOCGETBAR(r)
        /\ read_aperture_len(j, FALSE, fails) = len[j]
    BY DEF read_aperture_len, IInv
  <1>4. len[j] = IF Assigned(r) = 0 THEN 0 ELSE Length(Sized(r))
    BY <1>1 DEF Recorded
  <1> HIDE DEF r
  <1>5. CASE Assigned(r) = 0
    BY <1>3, <1>4, <1>5 DEF r
  <1>6. CASE Assigned(r) # 0 /\ r.kind \in {"memory", "port"}
    <2>1. PCIOCGETBAR(r) = r.size
      BY <1>6 DEF PCIOCGETBAR
    <2>2. r.size < 16 => r.kind = "port"
      <3>1. r.size \in Nat /\ r.size > 0 /\ (r.kind = "memory" => r.size % 16 = 0)
        BY <1>2, WidthAssumption DEF WellFormed, Registers
      <3>2. r.size \in 1 .. 15 => r.size % 16 = r.size
        BY <3>1, ModSmall
      <3> QED BY <1>6, <3>1, <3>2
    <2>3. len[j] = IF r.size = Top THEN 0 ELSE IF r.size < 16 THEN 16 ELSE r.size
      BY <1>2, <1>4, <1>6, SizedLength
    <2> QED BY <1>3, <2>1, <2>2, <2>3 DEF r
  <1>7. CASE Assigned(r) # 0 /\ r.kind \in {"high", "none"}
    <2>1. r.flags # 0 /\ r.size = Top /\ len[j] = 0
      BY <1>2, <1>4, <1>7, OtherLength
    <2>2. PCIOCGETBAR(r) \in {0, Top}
      BY <1>7 DEF PCIOCGETBAR
    <2> QED BY <1>3, <2>1, <2>2 DEF r
  <1> QED BY <1>2, <1>5, <1>6, <1>7 DEF Kinds

\* With and without the module a program is told the same lengths of an
\* adapter that is function 0 of its device, but for the exceptions that
\* LengthsAgree names: whatever its registers and whether or not /dev/pci fails.
THEOREM SameLengths == Spec => []LengthsAgree
  BY InitInv, NextInv, InvLengthsAgree, PTL DEF Spec
=============================================================================
