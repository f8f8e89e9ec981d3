--------------------------- MODULE KeyTest_proofs ---------------------------
(***************************************************************************)
(* For every set of keys held and released in whatever order, and however  *)
(* many events wait: the types, that every code printed has a name, and    *)
(* that what is printed is what is pressed.                                *)
(***************************************************************************)
EXTENDS KeyTest, Iteration, SequenceTheorems, TLAPS

-----------------------------------------------------------------------------
(***************************************************************************)
(* The tables.                                                             *)
(***************************************************************************)
Lows == 0 .. 127

Entry == [up : (1 .. 93) \cup (103 .. 114), low : Lows]

\* The low codes of the first run are neither that of right Control nor 90.
Main == Letters \o Digits \o Pad \o FKeys \o Others

LEMMA MainRun ==
  /\ Len(Main) = 93
  /\ \A i \in 1 .. 93 : Main[i] \in Lows \ {90, 97}
  <1> DEFINE S == Lows \ {90, 97}
  <1>1. Letters \in Seq(S) /\ Len(Letters) = 26
    BY DEF Letters, Lows
  <1>2. Digits \in Seq(S) /\ Len(Digits) = 10
    BY DEF Digits, Lows
  <1>3. Pad \in Seq(S) /\ Len(Pad) = 10
    BY DEF Pad, Lows
  <1>4. FKeys \in Seq(S) /\ Len(FKeys) = 12
    BY DEF FKeys, Lows
  <1>5. Others \in Seq(S) /\ Len(Others) = 35
    BY DEF Others, Lows
  <1> HIDE DEF S
  <1>6. Main \in Seq(S) /\ Len(Main) = 93
    <2>1. \A s, t \in Seq(S) : s \o t \in Seq(S) /\ Len(s \o t) = Len(s) + Len(t)
      BY ConcatProperties
    <2> DEFINE a == Letters \o Digits  b == a \o Pad  c == b \o FKeys
    <2>2. a \in Seq(S) /\ Len(a) = Len(Letters) + Len(Digits)
      BY <1>1, <1>2, <2>1, Zenon
    <2>3. b \in Seq(S) /\ Len(b) = Len(a) + Len(Pad)
      BY <1>3, <2>1, <2>2, Zenon
    <2>4. c \in Seq(S) /\ Len(c) = Len(b) + Len(FKeys)
      BY <1>4, <2>1, <2>3, Zenon
    <2>5. c \o Others \in Seq(S) /\ Len(c \o Others) = Len(c) + Len(Others)
      BY <1>5, <2>1, <2>4, Zenon
    <2>6. Main = c \o Others
      BY Zenon DEF Main, a, b, c
    <2> HIDE DEF a, b, c
    <2>7. Len(Main) = Len(c) + Len(Others) /\ Main \in Seq(S)
      BY <2>5, <2>6
    <2> QED BY <1>1, <1>2, <1>3, <1>4, <1>5, <2>2, <2>3, <2>4, <2>7
  <1>7. \A i \in 1 .. 93 : Main[i] \in S
    BY <1>6, ElementOfSeq
  <1> QED BY <1>6, <1>7 DEF S

LEMMA ModifierRun ==
  /\ Len(Modifiers) = 12
  /\ \A i \in 1 .. 12 : Modifiers[i] \in Lows \ {90} /\ (Modifiers[i] = 97 <=> i = 4)
  BY DEF Modifiers, Lows

\* Every entry of KEYS is one of a key with a name; low code 97 is that of right
\* Control alone, and no key has 90.
LEMMA Entries ==
  ASSUME NEW e \in KEYS
  PROVE  e \in Entry /\ e.low # 90 /\ (e.low = 97 <=> e.up = KEYB_RCONTROL)
  <1>1. KEYS = Run(1, Main) \cup Run(103, Modifiers)
    BY DEF KEYS, Main
  <1>2. CASE e \in Run(1, Main)
    <2>1. PICK i \in 1 .. 93 : e = [up |-> 1 + i - 1, low |-> Main[i]]
      BY <1>2, MainRun DEF Run
    <2>2. PICK c \in Lows \ {90, 97} : c = Main[i]
      BY MainRun
    <2>3. e = [up |-> i, low |-> c]
      BY <2>1, <2>2
    <2> QED BY <2>3 DEF Entry, KEYB_RCONTROL
  <1>3. CASE e \in Run(103, Modifiers)
    <2>1. PICK i \in 1 .. 12 : e = [up |-> 103 + i - 1, low |-> Modifiers[i]]
      BY <1>3, ModifierRun DEF Run
    <2>2. PICK c \in Lows \ {90} : c = Modifiers[i] /\ (c = 97 <=> i = 4)
      BY ModifierRun
    <2>3. e = [up |-> 102 + i, low |-> c]
      BY <2>1, <2>2
    <2> QED BY <2>2, <2>3 DEF Entry, KEYB_RCONTROL
  <1> QED BY <1>1, <1>2, <1>3

\* The raw codes a keyboard can send.
LEMMA RawCodes ==
  ASSUME NEW k \in Keyboard \cup SunKeys
  PROVE  k \in Nat /\ k \in 1 .. 115 /\ kbd_mapkey(k) \in Lows
  <1>1. k \in 1 .. 115
    BY DEF Keyboard, SunKeys, MainBlock
  <1>2. kbd_mapkey(k) \in Lows
    BY <1>1 DEF kbd_mapkey, Cases, Lows
  <1> QED BY <1>1, <1>2

\* No two keys of a PC keyboard have the same low code, and each but right
\* Control has the code Linux gives it; code 97 is no other's.
LEMMA Distinct ==
  ASSUME NEW j \in Keyboard, NEW k \in Keyboard, kbd_mapkey(j) = kbd_mapkey(k)
  PROVE  j = k
  <1>1. j \in 1 .. 107 /\ k \in 1 .. 107 /\ j \notin {84, 85} /\ k \notin {84, 85}
    BY DEF Keyboard, MainBlock
  <1> QED BY <1>1 DEF kbd_mapkey, Cases

LEMMA LinuxCodes ==
  ASSUME NEW k \in Keyboard
  PROVE  /\ k # 90 => kbd_mapkey(k) = Linux(k)
         /\ k = 90 => kbd_mapkey(k) = 90 /\ Linux(k) = 97
         /\ kbd_mapkey(k) # 97
  <1>1. CASE k \in MainBlock
    <2>1. k \in 1 .. 88
      BY <1>1 DEF MainBlock
    <2> QED BY <1>1, <2>1 DEF Linux, kbd_mapkey, Cases
  <1>2. CASE k \notin MainBlock
    <2>1. k \in 89 .. 107
      BY <1>2 DEF Keyboard
    <2>2. Linux(k) = Extended[k - 88]
      BY <1>2 DEF Linux
    <2> QED BY <2>1, <2>2 DEF Extended, kbd_mapkey, Cases
  <1> QED BY <1>1, <1>2

-----------------------------------------------------------------------------
(***************************************************************************)
(* The events of the console, one after the other.                         *)
(***************************************************************************)
Event == [raw : Keyboard \cup SunKeys, press : BOOLEAN]
State == SUBSET Lows

LEMMA AfterType ==
  ASSUME NEW state \in State, NEW event \in Event
  PROVE  After(state, event) \in State
  <1>1. event.raw \in Keyboard \cup SunKeys
    BY DEF Event
  <1>2. kbd_mapkey(event.raw) \in Lows
    BY <1>1, RawCodes
  <1> QED BY <1>2 DEF After, State

\* The recursive function Updates has the values its equation says.
LEMMA UpdateStep ==
  ASSUME NEW state \in State, NEW events \in Seq(Event)
  PROVE  /\ Updates(state, events) \in [0 .. Len(events) -> State]
         /\ Updates(state, events)[0] = state
         /\ \A k \in 1 .. Len(events) :
              Updates(state, events)[k] = After(Updates(state, events)[k - 1], events[k])
  <1> DEFINE n == Len(events)
             Solves(f) == f = [k \in 0 .. n |->
                                 IF k = 0 THEN state ELSE After(f[k - 1], events[k])]
             step == [k \in 1 .. n |-> [s \in State |-> After(s, events[k])]]
  <1>1. n \in Nat /\ \A k \in 1 .. n : events[k] \in Event
    OBVIOUS
  <1>2. step \in [1 .. n -> [State -> State]]
    BY <1>1, AfterType
  <1>3. PICK f \in [0 .. n -> State] : Iterates(f, state, n, step)
    <2> HIDE DEF n, step
    <2> QED BY <1>1, <1>2, Iteration
  <1>4. \A k \in 1 .. n : f[k - 1] \in State
    BY <1>1
  <1>5. Solves(f)
    <2>1. f[0] = state /\ \A k \in 1 .. n : f[k] = After(f[k - 1], events[k])
      BY <1>3, <1>4 DEF Iterates
    <2> QED BY <1>1, <2>1
  <1>6. Updates(state, events) = CHOOSE f1 : Solves(f1)
    BY DEF Updates
  <1> DEFINE r == Updates(state, events)
  <1>7. Solves(r)
    <2> HIDE DEF Solves, r
    <2>1. r = CHOOSE f1 : Solves(f1)
      BY <1>6 DEF r
    <2> QED BY <1>5, <2>1
  <1> HIDE DEF r
  <1>8. /\ r[0] = state /\ \A k \in 1 .. n : r[k] = After(r[k - 1], events[k])
        /\ r = [k \in 0 .. n |-> r[k]]
    BY <1>1, <1>7
  <1>9. \A k \in 0 .. n : r[k] \in State
    <2> DEFINE P == {k \in Nat : r[k] \in State}
    <2>1. 0 \in P
      BY <1>8
    <2>2. ASSUME NEW k \in 1 .. n, k - 1 \in P PROVE k \in P
      <3>1. r[k - 1] \in State /\ events[k] \in Event /\ k \in Nat
        BY <1>1, <2>2
      <3>2. After(r[k - 1], events[k]) \in State
        BY <3>1, AfterType
      <3> QED BY <1>8, <3>1, <3>2
    <2> HIDE DEF P, n
    <2>3. 0 .. n \subseteq P
      BY <1>1, <2>1, <2>2, UpTo
    <2> QED BY <2>3 DEF P
  <1> QED BY <1>8, <1>9 DEF r

LEMMA NoEvents ==
  ASSUME NEW state \in State
  PROVE  AfterAll(state, <<>>) = state
  <1>1. <<>> \in Seq(Event) /\ Len(<<>>) = 0
    OBVIOUS
  <1> QED BY <1>1, UpdateStep DEF AfterAll

LEMMA EventsType ==
  ASSUME NEW state \in State, NEW events \in Seq(Event)
  PROVE  AfterAll(state, events) \in State
  <1>1. Len(events) \in 0 .. Len(events)
    OBVIOUS
  <1> QED BY <1>1, UpdateStep DEF AfterAll

\* One more event happens after all the others.
LEMMA EventsAppend ==
  ASSUME NEW state \in State, NEW events \in Seq(Event), NEW event \in Event
  PROVE  AfterAll(state, Append(events, event)) = After(AfterAll(state, events), event)
  <1> DEFINE more == Append(events, event)  n == Len(events)
             r == Updates(state, events)  s == Updates(state, more)
  <1>1. /\ more \in Seq(Event) /\ Len(more) = n + 1 /\ n \in Nat
        /\ \A k \in 1 .. n : more[k] = events[k]
        /\ more[n + 1] = event
    OBVIOUS
  <1>2. r[0] = state /\ \A k \in 1 .. n : r[k] = After(r[k - 1], events[k])
    BY UpdateStep
  <1>3. s[0] = state /\ \A k \in 1 .. n + 1 : s[k] = After(s[k - 1], more[k])
    <2> HIDE DEF more
    <2> QED BY <1>1, UpdateStep
  <1>4. AfterAll(state, events) = r[n] /\ AfterAll(state, more) = s[n + 1]
    BY <1>1 DEF AfterAll
  <1> HIDE DEF more, n, r, s
  <1>5. s[n] = r[n]
    <2> DEFINE P == {k \in Nat : s[k] = r[k]}
    <2>1. 0 \in P
      BY <1>2, <1>3
    <2>2. ASSUME NEW k \in 1 .. n, k - 1 \in P PROVE k \in P
      BY <1>1, <1>2, <1>3, <2>2
    <2> HIDE DEF P
    <2>3. 0 .. n \subseteq P
      BY <1>1, <2>1, <2>2, UpTo
    <2>4. n \in 0 .. n
      BY <1>1
    <2> QED BY <2>3, <2>4 DEF P
  <1>6. s[n + 1] = After(s[n], event)
    <2>1. n + 1 \in 1 .. n + 1 /\ (n + 1) - 1 = n
      BY <1>1
    <2> QED BY <1>1, <1>3, <2>1
  <1>7. AfterAll(state, more) = After(AfterAll(state, events), event)
    BY <1>4, <1>5, <1>6
  <1> QED BY <1>7 DEF more

-----------------------------------------------------------------------------
(***************************************************************************)
(* The types, and the codes that are printed.                              *)
(***************************************************************************)
Codes == {e.up : e \in {f \in KEYS : f.low \in keystate}} \ {KEYB_PAUSE}

TableInv ==
  /\ map_up_to_low \subseteq KEYS
  /\ pc # "init" => map_up_to_low = KEYS
  /\ code_map \subseteq {e.up : e \in KEYS}

TypeInv == TypeOK /\ TableInv

\* The keys and what waits are keys of the keyboard and events of them.
LEMMA Waiting ==
  ASSUME TypeOK
  PROVE  /\ keys \subseteq Keyboard \cup SunKeys
         /\ queue \in Seq(Event) /\ Len(queue) \in Nat
         /\ keystate \in State
  <1>1. keys \subseteq Keyboard \cup SunKeys
    BY PairAssumption DEF TypeOK
  <1>2. [raw : keys, press : BOOLEAN] \subseteq Event
    BY <1>1 DEF Event
  <1>3. queue \in Seq(Event)
    BY <1>2, SeqMonotonic DEF TypeOK
  <1> QED BY <1>1, <1>3 DEF TypeOK, State, Lows

LEMMA EntryTypes ==
  /\ KEYS \subseteq [up : 0 .. (KEYB_MAX - 1), low : 0 .. 127]
  /\ {e.up : e \in KEYS} \subseteq (1 .. 93) \cup (103 .. 114)
  /\ {e.up : e \in KEYS} \subseteq 0 .. (KEYB_MAX - 1)
  <1>1. \A e \in KEYS : e \in Entry
    BY Entries
  <1>2. Entry \subseteq [up : 0 .. (KEYB_MAX - 1), low : 0 .. 127]
    BY DEF Entry, Lows, KEYB_MAX
  <1>3. \A e \in KEYS : e.up \in (1 .. 93) \cup (103 .. 114)
    BY <1>1 DEF Entry
  <1>4. (1 .. 93) \cup (103 .. 114) \subseteq 0 .. (KEYB_MAX - 1)
    BY DEF KEYB_MAX
  <1> QED BY <1>1, <1>2, <1>3, <1>4

LEMMA EmptyQueue ==
  ASSUME NEW K
  PROVE  <<>> \in Seq([raw : K, press : BOOLEAN]) /\ Len(<<>>) = 0 /\ 0 <= MaxQueue
  BY QueueAssumption

LEMMA InitTypeInv == Init => TypeInv
  <1> SUFFICES ASSUME Init PROVE TypeInv
    OBVIOUS
  <1>1. queue \in Seq([raw : keys, press : BOOLEAN]) /\ Len(queue) <= MaxQueue
    BY EmptyQueue DEF Init
  <1> QED BY <1>1 DEF Init, TypeInv, TypeOK, TableInv

\* Every step keeps the types.
LEMMA NextTypeInv == TypeInv /\ [Next]_vars => TypeInv'
  <1> SUFFICES ASSUME TypeInv, [Next]_vars PROVE TypeInv'
    OBVIOUS
  <1> USE DEF TypeInv
  <1>1. CASE keyb_svgalib_init
    BY <1>1, EntryTypes DEF keyb_svgalib_init, TypeOK, TableInv, user
  <1>2. CASE keyb_svgalib_enable
    <2>1. /\ UNCHANGED <<keys, down, map_up_to_low, code_map>>
          /\ pc' = "poll" /\ pc = "enable" /\ opened' \in BOOLEAN
          /\ \/ queue' = <<>> /\ pressed' = {} /\ keystate' = {}
             \/ UNCHANGED <<queue, pressed, keystate>>
      BY <1>2 DEF keyb_svgalib_enable
    <2>2. queue' \in Seq([raw : keys, press : BOOLEAN]) /\ Len(queue') <= MaxQueue
      BY <2>1, EmptyQueue DEF TypeOK
    <2>3. keystate' \subseteq 0 .. 127 /\ pressed' \subseteq down
      BY <2>1 DEF TypeOK
    <2> QED BY <2>1, <2>2, <2>3 DEF TypeOK, TableInv
  <1>3. CASE keyb_svgalib_poll
    <2>1. /\ UNCHANGED <<keys, down, pressed, opened, map_up_to_low, code_map>>
          /\ pc' = "get" /\ pc = "poll"
          /\ \/ keystate' = AfterAll(keystate, queue) /\ queue' = <<>>
             \/ UNCHANGED <<keystate, queue>>
      BY <1>3 DEF keyb_svgalib_poll
    <2>2. AfterAll(keystate, queue) \in State
      BY Waiting, EventsType
    <2>3. queue' \in Seq([raw : keys, press : BOOLEAN]) /\ Len(queue') <= MaxQueue
      BY <2>1, EmptyQueue DEF TypeOK
    <2>4. keystate' \subseteq 0 .. 127
      BY <2>1, <2>2 DEF TypeOK, State, Lows
    <2> QED BY <2>1, <2>3, <2>4 DEF TypeOK, TableInv
  <1>4. CASE keyb_svgalib_all_get
    <2>1. /\ UNCHANGED <<keys, down, queue, pressed, opened, keystate, map_up_to_low>>
          /\ pc' = "test" /\ pc = "get" /\ code_map' = Codes
      BY <1>4 DEF keyb_svgalib_all_get, user, TableInv, Codes
    <2>2. Codes \subseteq {e.up : e \in KEYS}
      BY DEF Codes
    <2> QED BY <2>1, <2>2, EntryTypes DEF TypeOK, TableInv
  <1>5. CASE Test
    BY <1>5 DEF Test, TypeOK, TableInv, user
  <1>6. CASE keyb_svgalib_disable
    BY <1>6 DEF keyb_svgalib_disable, TypeOK, TableInv, user
  <1>7. ASSUME NEW k \in keys, Strike(k) PROVE TypeInv'
    <2> DEFINE event == [raw |-> k, press |-> k \notin down]
    <2>1. /\ UNCHANGED <<keys, opened, keystate, map_up_to_low, code_map, pc>>
          /\ queue' = Append(queue, event) /\ Len(queue) < MaxQueue
          /\ \/ down' = down \ {k} /\ pressed' = pressed \ {k}
             \/ down' = down \cup {k} /\ pressed' = pressed \cup {k}
      BY <1>7 DEF Strike
    <2>2. event \in [raw : keys, press : BOOLEAN]
      OBVIOUS
    <2> HIDE DEF event
    <2>3. queue' \in Seq([raw : keys, press : BOOLEAN]) /\ Len(queue') <= MaxQueue
      BY <2>1, <2>2, QueueAssumption DEF TypeOK
    <2> QED BY <2>1, <2>3 DEF TypeOK, TableInv
  <1>8. CASE UNCHANGED vars
    BY <1>8 DEF vars, user, TypeOK, TableInv
  <1> QED
    BY <1>1, <1>2, <1>3, <1>4, <1>5, <1>6, <1>7, <1>8 DEF Next, main

\* The arrays of keytest and svgalib are indexed within their bounds.
THEOREM KeyTypeCorrect == Spec => []TypeOK
  <1>1. TypeInv => TypeOK
    BY DEF TypeInv
  <1> QED BY <1>1, InitTypeInv, NextTypeInv, PTL DEF Spec

\* Whatever is typed, every code printed is that of a key with a name.
THEOREM AllNamed == Spec => []Named
  <1>1. TypeInv => Named
    <2> SUFFICES ASSUME TypeInv, NEW c \in code_map PROVE key_is_defined(c)
      BY DEF Named
    <2>1. c \in (1 .. 93) \cup (103 .. 114)
      BY EntryTypes DEF TypeInv, TableInv
    <2> QED BY <2>1 DEF key_is_defined, Defined, KEYB_MAX
  <1> QED BY <1>1, InitTypeInv, NextTypeInv, PTL DEF Spec

-----------------------------------------------------------------------------
(***************************************************************************)
(* What is printed is what is pressed.  When the keyboard is open, the     *)
(* array is right once the waiting events have been taken; code_map is     *)
(* what the array says until the next poll.                                *)
(***************************************************************************)
Pressed == {kbd_mapkey(k) : k \in pressed}

TrackInv == opened => AfterAll(keystate, queue) = Pressed

KeyInv == TypeInv /\ TrackInv /\ Reported

\* A key released takes no other out of the array, one pressed adds itself.
LEMMA Struck ==
  ASSUME NEW held \in SUBSET Keyboard, NEW k \in Keyboard, NEW press \in BOOLEAN
  PROVE  After({kbd_mapkey(j) : j \in held}, [raw |-> k, press |-> press])
           = {kbd_mapkey(j) : j \in (IF press THEN held \cup {k} ELSE held \ {k})}
  <1> DEFINE event == [raw |-> k, press |-> press]
  <1>1. event.raw = k /\ event.press = press
    OBVIOUS
  <1> HIDE DEF event
  <1>2. CASE press
    <2>1. After({kbd_mapkey(j) : j \in held}, event) = {kbd_mapkey(j) : j \in held} \cup {kbd_mapkey(k)}
      BY <1>1, <1>2 DEF After
    <2>2. {kbd_mapkey(j) : j \in held \cup {k}} = {kbd_mapkey(j) : j \in held} \cup {kbd_mapkey(k)}
      OBVIOUS
    <2> QED BY <1>2, <2>1, <2>2 DEF event
  <1>3. CASE ~ press
    <2>1. After({kbd_mapkey(j) : j \in held}, event) = {kbd_mapkey(j) : j \in held} \ {kbd_mapkey(k)}
      BY <1>1, <1>3 DEF After
    <2>2. \A j \in held : kbd_mapkey(j) = kbd_mapkey(k) => j = k
      BY Distinct
    <2>3. {kbd_mapkey(j) : j \in held \ {k}} = {kbd_mapkey(j) : j \in held} \ {kbd_mapkey(k)}
      BY <2>2
    <2> QED BY <1>3, <2>1, <2>3 DEF event
  <1> QED BY <1>2, <1>3

\* The entries whose low code is set by the keys held are those of the keys
\* held, but for right Control.
LEMMA Translated ==
  ASSUME NEW held \in SUBSET Keyboard
  PROVE  {e.up : e \in {f \in KEYS : f.low \in {kbd_mapkey(k) : k \in held}}} \ {KEYB_PAUSE}
           = (UNION {Up(k) : k \in held}) \ Unreported
  <1> DEFINE L == {e.up : e \in {f \in KEYS : f.low \in {kbd_mapkey(k) : k \in held}}} \ {KEYB_PAUSE}
             R == (UNION {Up(k) : k \in held}) \ Unreported
  <1>1. ASSUME NEW c \in L PROVE c \in R
    <2>1. PICK e \in KEYS, k \in held : c = e.up /\ e.low = kbd_mapkey(k) /\ c # KEYB_PAUSE
      OBVIOUS
    <2>2. k # 90 /\ e.low # 97
      BY <2>1, Entries, LinuxCodes
    <2>3. e.low = Linux(k) /\ c # KEYB_RCONTROL
      BY <2>1, <2>2, Entries, LinuxCodes
    <2>4. c \in Up(k)
      BY <2>1, <2>3 DEF Up
    <2>5. c \notin Unreported
      BY <2>1, <2>3 DEF Unreported
    <2>6. c \in UNION {Up(j) : j \in held}
      BY <2>4
    <2> QED BY <2>5, <2>6
  <1>2. ASSUME NEW c \in R PROVE c \in L
    <2>1. PICK k \in held : c \in Up(k)
      OBVIOUS
    <2>2. PICK e \in KEYS : c = e.up /\ e.low = Linux(k)
      BY <2>1 DEF Up
    <2>3. c # KEYB_PAUSE /\ c # KEYB_RCONTROL
      <3>1. c \notin Unreported
        OBVIOUS
      <3> QED BY <3>1 DEF Unreported
    <2>4. k # 90
      BY <2>2, <2>3, Entries, LinuxCodes
    <2>5. e.low = kbd_mapkey(k)
      BY <2>2, <2>4, LinuxCodes
    <2> QED BY <2>2, <2>3, <2>5
  <1> HIDE DEF L, R
  <1>3. L = R
    BY <1>1, <1>2
  <1> QED BY <1>3 DEF L, R

LEMMA InitKeyInv == Init => KeyInv
  BY InitTypeInv DEF Init, KeyInv, TrackInv, Reported

\* Nothing but a poll, a key and keyboard_init() touches the array or what waits.
LEMMA TrackKept ==
  ASSUME TrackInv, UNCHANGED <<queue, keystate, pressed>>, opened' => opened
  PROVE  TrackInv'
  BY DEF TrackInv, Pressed

LEMMA PollTracks ==
  ASSUME KeyInv, keyb_svgalib_poll
  PROVE  TrackInv'
  <1> SUFFICES ASSUME opened' PROVE TrackInv'
    BY DEF TrackInv
  <1>1. opened /\ keystate' = AfterAll(keystate, queue) /\ queue' = <<>> /\ pressed' = pressed
    BY DEF keyb_svgalib_poll
  <1>2. PICK s \in State : s = AfterAll(keystate, queue)
    BY Waiting, EventsType DEF KeyInv, TypeInv
  <1>3. AfterAll(s, <<>>) = s
    BY NoEvents
  <1>4. s = Pressed
    BY <1>1, <1>2 DEF KeyInv, TrackInv
  <1>5. AfterAll(keystate', queue') = s
    BY <1>1, <1>2, <1>3
  <1>6. Pressed' = Pressed
    BY <1>1 DEF Pressed
  <1> QED BY <1>4, <1>5, <1>6 DEF TrackInv

LEMMA EnableTracks ==
  ASSUME KeyInv, keyb_svgalib_enable
  PROVE  TrackInv'
  <1> SUFFICES ASSUME opened' PROVE TrackInv'
    BY DEF TrackInv
  <1>1. keystate' = {} /\ queue' = <<>> /\ pressed' = {}
    BY DEF keyb_svgalib_enable
  <1>2. AfterAll({}, <<>>) = {}
    BY NoEvents DEF State
  <1> QED BY <1>1, <1>2 DEF TrackInv, Pressed

LEMMA StrikeTracks ==
  ASSUME Pairs \subseteq SUBSET Keyboard, KeyInv, NEW k \in keys, Strike(k)
  PROVE  TrackInv'
  <1> SUFFICES ASSUME opened' PROVE TrackInv'
    BY DEF TrackInv
  <1>1. PICK s \in State, events \in Seq(Event) : s = keystate /\ events = queue
    BY Waiting DEF KeyInv, TypeInv
  <1>2. PICK press \in BOOLEAN : press = (k \notin down)
    OBVIOUS
  <1>3. PICK held \in SUBSET Keyboard : held = pressed
    BY DEF KeyInv, TypeInv, TypeOK
  <1>4. k \in Keyboard
    BY DEF KeyInv, TypeInv, TypeOK
  <1> DEFINE event == [raw |-> k, press |-> press]
             after == IF press THEN held \cup {k} ELSE held \ {k}
  <1>5. event \in Event
    BY <1>4 DEF Event
  <1>6. /\ opened' = opened /\ keystate' = s /\ queue' = Append(events, event)
        /\ pressed' = after
    BY <1>1, <1>2, <1>3 DEF Strike
  <1> DEFINE codes == {kbd_mapkey(j) : j \in held}
  <1>7. AfterAll(s, events) = codes
    BY <1>1, <1>3, <1>6 DEF KeyInv, TrackInv, Pressed
  <1>8. AfterAll(s, Append(events, event)) = After(AfterAll(s, events), event)
    BY <1>5, EventsAppend, Zenon
  <1>9. After(codes, event) = {kbd_mapkey(j) : j \in after}
    BY <1>4, Struck, Zenon
  <1> HIDE DEF event, after, codes
  <1>10. AfterAll(keystate', queue') = {kbd_mapkey(j) : j \in after}
    BY <1>6, <1>7, <1>8, <1>9, Zenon
  <1>11. Pressed' = {kbd_mapkey(j) : j \in after}
    BY <1>6, Zenon DEF Pressed
  <1> QED BY <1>10, <1>11, Zenon DEF TrackInv

\* The scan of the array finds the codes of the keys that are pressed.
LEMMA GetReports ==
  ASSUME Pairs \subseteq SUBSET Keyboard, KeyInv, keyb_svgalib_all_get
  PROVE  Reported'
  <1> SUFFICES ASSUME opened', queue' = <<>>
               PROVE  code_map' = (UNION {Up(k) : k \in pressed'}) \ Unreported
    BY DEF Reported
  <1>1. /\ UNCHANGED <<queue, pressed, opened, keystate>>
        /\ code_map' = Codes
    BY DEF keyb_svgalib_all_get, user, KeyInv, TypeInv, TableInv, Codes
  <1>2. keystate \in State /\ AfterAll(keystate, <<>>) = Pressed
    BY <1>1, Waiting DEF KeyInv, TypeInv, TrackInv
  <1>3. keystate = Pressed
    BY <1>2, NoEvents
  <1>4. PICK held \in SUBSET Keyboard : held = pressed
    BY DEF KeyInv, TypeInv, TypeOK
  <1>5. {e.up : e \in {f \in KEYS : f.low \in {kbd_mapkey(k) : k \in held}}} \ {KEYB_PAUSE}
          = (UNION {Up(k) : k \in held}) \ Unreported
    BY Translated, Zenon
  <1>6. Codes = {e.up : e \in {f \in KEYS : f.low \in {kbd_mapkey(k) : k \in held}}} \ {KEYB_PAUSE}
    BY <1>3, <1>4 DEF Codes, Pressed
  <1> QED BY <1>1, <1>4, <1>5, <1>6, Zenon

LEMMA NextKeyInv ==
  ASSUME Pairs \subseteq SUBSET Keyboard
  PROVE  KeyInv /\ [Next]_vars => KeyInv'
  <1> SUFFICES ASSUME KeyInv, [Next]_vars PROVE KeyInv'
    OBVIOUS
  <1>1. TypeInv'
    BY NextTypeInv DEF KeyInv
  <1>2. CASE keyb_svgalib_init \/ Test \/ keyb_svgalib_disable
    <2>1. /\ UNCHANGED <<queue, keystate, pressed>> /\ (opened' => opened) /\ pc' # "test"
      BY <1>2 DEF keyb_svgalib_init, Test, keyb_svgalib_disable, user
    <2>2. TrackInv'
      BY <2>1, TrackKept DEF KeyInv
    <2> QED BY <1>1, <2>1, <2>2 DEF KeyInv, Reported
  <1>3. CASE keyb_svgalib_enable
    <2>1. pc' # "test"
      BY <1>3 DEF keyb_svgalib_enable
    <2> QED BY <1>1, <1>3, <2>1, EnableTracks DEF KeyInv, Reported
  <1>4. CASE keyb_svgalib_poll
    <2>1. pc' # "test"
      BY <1>4 DEF keyb_svgalib_poll
    <2> QED BY <1>1, <1>4, <2>1, PollTracks DEF KeyInv, Reported
  <1>5. CASE keyb_svgalib_all_get
    <2>1. TrackInv'
      BY <1>5, TrackKept DEF KeyInv, keyb_svgalib_all_get, user
    <2> QED BY <1>1, <1>5, <2>1, GetReports DEF KeyInv
  <1>6. ASSUME NEW k \in keys, Strike(k) PROVE KeyInv'
    <2>1. PICK events \in Seq(Event) : events = queue
      BY Waiting DEF KeyInv, TypeInv
    <2>2. queue' = Append(events, [raw |-> k, press |-> k \notin down])
      BY <1>6, <2>1 DEF Strike
    <2>3. queue' # <<>>
      BY <2>2
    <2> QED BY <1>1, <1>6, <2>3, StrikeTracks DEF KeyInv, Reported
  <1>7. CASE UNCHANGED vars
    <2>1. TrackInv'
      BY <1>7, TrackKept DEF KeyInv, vars, user
    <2>2. Reported'
      BY <1>7 DEF KeyInv, Reported, vars, user
    <2> QED BY <1>1, <2>1, <2>2 DEF KeyInv
  <1> QED
    BY <1>2, <1>3, <1>4, <1>5, <1>6, <1>7 DEF Next, main

\* Of a PC keyboard, whichever keys are used and however many at once: when no
\* event waits, the codes printed are those of the keys that are down, but for
\* right Control and Pause.
THEOREM AllReported ==
  ASSUME Pairs \subseteq SUBSET Keyboard
  PROVE  Spec => []Reported
  <1>1. KeyInv => Reported
    BY DEF KeyInv
  <1>2. KeyInv /\ [Next]_vars => KeyInv'
    BY NextKeyInv
  <1> QED BY <1>1, <1>2, InitKeyInv, PTL DEF Spec

\* The codes of a PC keyboard are enough: it is the keys of a Sun keyboard that
\* share theirs.
THEOREM OwnCodes ==
  ASSUME Pairs \subseteq SUBSET Keyboard
  PROVE  Spec => []OwnCode
  <1>1. KeyInv => OwnCode
    <2> SUFFICES ASSUME KeyInv, opened, queue = <<>>, NEW k \in pressed
                 PROVE  kbd_mapkey(k) \in keystate
      BY DEF OwnCode
    <2>1. AfterAll(keystate, <<>>) = Pressed /\ keystate \in State
      BY Waiting DEF KeyInv, TypeInv, TrackInv
    <2>2. keystate = Pressed
      BY <2>1, NoEvents
    <2> QED BY <2>2 DEF Pressed
  <1>2. KeyInv /\ [Next]_vars => KeyInv'
    BY NextKeyInv
  <1> QED BY <1>1, <1>2, InitKeyInv, PTL DEF Spec
=============================================================================
