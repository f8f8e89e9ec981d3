------------------------------- MODULE KeyTest -------------------------------
(***************************************************************************)
(* ktest/keytest.c on top of svgalib's raw keyboard: a user holds and      *)
(* releases two keys of one keyboard while main() polls, prints what is    *)
(* pressed and sleeps, until it sees Escape.                               *)
(***************************************************************************)
EXTENDS KeyCodes

CONSTANTS
  Pairs,     \* the sets of keys considered, each a pair, by raw code
  MaxQueue   \* bound: events the console driver holds back before a poll

ASSUME PairAssumption == Pairs \subseteq SUBSET (Keyboard \cup SunKeys)
ASSUME QueueAssumption == MaxQueue \in Nat \ {0}

(***************************************************************************)
(* keys are the two keys, down those held, queue the events not yet read.  *)
(* keystate is the set of low codes that svgalib's array has pressed;      *)
(* map_up_to_low the entries keytest has set to a code other than          *)
(* LOW_INVALID, and code_map the set of up codes it found pressed.         *)
(* opened tells whether keyboard_init() succeeded, and pressed (a history  *)
(* variable) which keys were last seen going down since keyboard_init()    *)
(* discarded the input of before.                                          *)
(***************************************************************************)
VARIABLES keys, down, queue, opened, keystate, map_up_to_low, code_map, pressed, pc

user == <<down, queue, pressed>>
vars == <<keys, down, queue, opened, keystate, map_up_to_low, code_map, pressed, pc>>

Init ==
  /\ keys \in Pairs
  /\ down = {} /\ queue = <<>> /\ pressed = {}
  /\ opened = FALSE
  /\ keystate = {}
  /\ map_up_to_low = {}
  /\ code_map = {}
  /\ pc = "init"

\* keyb_svgalib_init(): all invalid, then the entries of KEYS.
keyb_svgalib_init ==
  /\ pc = "init"
  /\ map_up_to_low' = KEYS
  /\ pc' = "enable"
  /\ UNCHANGED <<keys, user, opened, keystate, code_map>>

\* keyb_svgalib_enable(): keyboard_init() discards what was typed and clears
\* the state, or fails; main() does not look at the result.
keyb_svgalib_enable ==
  /\ pc = "enable"
  /\ opened' \in BOOLEAN
  /\ IF opened' THEN queue' = <<>> /\ pressed' = {} /\ keystate' = {}
                ELSE UNCHANGED <<queue, pressed, keystate>>
  /\ pc' = "poll"
  /\ UNCHANGED <<keys, down, map_up_to_low, code_map>>

\* keyboard_update() (external): every queued event sets or clears the state of
\* the low code kbd_mapkey() gives.
After(state, event) ==
  IF event.press THEN state \cup {kbd_mapkey(event.raw)}
                 ELSE state \ {kbd_mapkey(event.raw)}

Updates(state, events) ==
  LET after[n \in 0 .. Len(events)] ==
        IF n = 0 THEN state ELSE After(after[n - 1], events[n])
  IN  after

AfterAll(state, events) == Updates(state, events)[Len(events)]

\* Mutant: only the first waiting event is taken.
PollOne ==
  /\ pc = "poll"
  /\ IF opened /\ queue # <<>>
       THEN keystate' = After(keystate, queue[1]) /\ queue' = <<>>
       ELSE UNCHANGED <<keystate, queue>>
  /\ pc' = "get"
  /\ UNCHANGED <<keys, down, pressed, opened, map_up_to_low, code_map>>

keyb_svgalib_poll ==
  /\ pc = "poll"
  /\ IF opened THEN keystate' = AfterAll(keystate, queue) /\ queue' = <<>>
               ELSE UNCHANGED <<keystate, queue>>
  /\ pc' = "get"
  /\ UNCHANGED <<keys, down, pressed, opened, map_up_to_low, code_map>>

\* keyb_svgalib_all_get(): the up codes whose low code is set, never Pause.
keyb_svgalib_all_get ==
  /\ pc = "get"
  /\ code_map' = {e.up : e \in {f \in map_up_to_low : f.low \in keystate}}
                   \ {KEYB_PAUSE}
  /\ pc' = "test"
  /\ UNCHANGED <<keys, user, opened, keystate, map_up_to_low>>

\* Escape ends the loop; anything else is printed, and main() sleeps.
Test ==
  /\ pc = "test"
  /\ pc' = IF KEYB_ESC \in code_map THEN "disable" ELSE "poll"
  /\ UNCHANGED <<keys, user, opened, keystate, map_up_to_low, code_map>>

keyb_svgalib_disable ==
  /\ pc = "disable"
  /\ opened' = FALSE
  /\ pc' = "exit"
  /\ UNCHANGED <<keys, user, keystate, map_up_to_low, code_map>>

main ==
  \/ keyb_svgalib_init \/ keyb_svgalib_enable \/ keyb_svgalib_poll
  \/ keyb_svgalib_all_get \/ Test \/ keyb_svgalib_disable

\* A key goes down or comes up (external).
Strike(k) ==
  /\ pc # "exit" /\ Len(queue) < MaxQueue
  /\ queue' = Append(queue, [raw |-> k, press |-> k \notin down])
  /\ IF k \in down THEN down' = down \ {k} /\ pressed' = pressed \ {k}
                   ELSE down' = down \cup {k} /\ pressed' = pressed \cup {k}
  /\ UNCHANGED <<keys, opened, keystate, map_up_to_low, code_map, pc>>

Next == main \/ \E k \in keys : Strike(k)

Spec == Init /\ [][Next]_vars

\* The process runs; the user is free to stop typing.
FairSpec == Spec /\ WF_vars(main)

------------------------------------------------------------------------------
\* The type of the arrays: up codes index map_up_to_low[KEYB_MAX] and code_map,
\* low codes svgalib's 128 keys.
TypeOK ==
  /\ keys \in Pairs /\ down \subseteq keys /\ pressed \subseteq down
  /\ queue \in Seq([raw : keys, press : BOOLEAN]) /\ Len(queue) <= MaxQueue
  /\ opened \in BOOLEAN /\ keystate \subseteq 0..127
  /\ map_up_to_low \subseteq [up : 0..(KEYB_MAX - 1), low : 0..127]
  /\ code_map \subseteq 0..(KEYB_MAX - 1)
  /\ pc \in {"init", "enable", "poll", "get", "test", "disable", "exit"}

\* The up code keytest means for a key, if it has one.
Up(k) == {e.up : e \in {f \in KEYS : f.low = Linux(k)}}

Unreported == {KEYB_PAUSE, KEYB_RCONTROL}

\* What is printed is exactly the keys that are down, each under the code KEYS
\* and KEY have for it, whatever was struck in between: the raw code, the
\* switch of kbd_mapkey, KEYS and the disabled code agree for every key.
\* Right Control never arrives (its raw code has no case) and Pause is masked
\* (keytest.c 257).
Reported ==
  pc = "test" /\ opened /\ queue = <<>> =>
    code_map = (UNION {Up(k) : k \in pressed}) \ Unreported

\* A line "PRESSED:" (303) names a key: no code printed is outside key.c.
Named == \A c \in code_map : key_is_defined(c)

\* Escape ends the loop (299) unless it is let go again, if the keyboard was
\* opened: the queue may be full of other events, but every poll empties it.
EscapeQuits ==
  opened /\ 1 \in pressed ~> pc = "exit" \/ 1 \notin pressed

\* Every key that is down is down in svgalib's array, whatever its neighbours
\* do meanwhile: no two keys of a PC keyboard share a code.  (Again of a Sun
\* keyboard has 90, keyboard.c patch 116, as right Control has.)
OwnCode ==
  pc = "get" /\ opened /\ queue = <<>> =>
    \A k \in pressed : kbd_mapkey(k) \in keystate
==============================================================================
