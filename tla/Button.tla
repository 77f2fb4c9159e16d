------------------------------- MODULE Button -------------------------------
(***************************************************************************)
(* The state machine of one button (components/button): every scan reads   *)
(* the level of the pin, debounces it and turns presses and releases into  *)
(* events for the callbacks.  Levels are TRUE while the button is pressed. *)
(***************************************************************************)
EXTENDS Integers

CONSTANTS DEBOUNCE_TICKS,     \* CONFIG_BUTTON_DEBOUNCE_TICKS
          SHORT_TICKS,        \* CONFIG_BUTTON_SHORT_PRESS_TIME_MS in scans
          SERIAL_TICKS,       \* CONFIG_BUTTON_SERIAL_TIME_MS in scans
          long_press_ticks,   \* of this button
          short_press_ticks,  \* of this button
          TickBits,           \* width of ticks, 16 in the code
          MaxPresses          \* bound: presses in one sequence of clicks

ASSUME TicksAssumption ==
  /\ DEBOUNCE_TICKS \in 1 .. 8 /\ SHORT_TICKS \in Nat /\ SERIAL_TICKS \in Nat
  /\ long_press_ticks \in Nat /\ short_press_ticks \in Nat
  /\ TickBits \in Nat /\ 2 ^ TickBits \in Nat \ {0} /\ MaxPresses \in 1 .. 255

VARIABLES level,         \* oblfr_button_level, debounced
          debounce_cnt,  \* a bit field of three bits
          state, ticks, repeat, long_press_hold_cnt,
          fired,         \* the callbacks called in the last scan
          raw,           \* the level read in the last scan
          scan,          \* flips with every scan: a scan that changes nothing else is a step
          hist           \* history: see Init

vars == <<level, debounce_cnt, state, ticks, repeat, long_press_hold_cnt, fired, raw, scan, hist>>

Events == {"PRESS_DOWN", "PRESS_UP", "PRESS_REPEAT", "PRESS_REPEAT_DONE", "SINGLE_CLICK",
           "DOUBLE_CLICK", "LONG_PRESS_START", "LONG_PRESS_HOLD"}

Init ==
  /\ level = FALSE /\ debounce_cnt = 0
  /\ state = 0 /\ ticks = 0 /\ repeat = 0 /\ long_press_hold_cnt = 0
  /\ fired = {} /\ raw = FALSE /\ scan = FALSE
  /\ hist = [same |-> 0,      \* scans in a row that read raw, up to DEBOUNCE_TICKS
             down |-> FALSE,  \* PRESS_DOWN came after the last PRESS_UP
             presses |-> 0,   \* presses since the last sequence of clicks ended
             held |-> 0]      \* scans since PRESS_DOWN, up to long_press_ticks + 1

Least(a, b) == IF a < b THEN a ELSE b

-----------------------------------------------------------------------------
(* Mutant: one scan less. *)
Debounced_early(now) ==
  LET cnt == (debounce_cnt + 1) % 8
  IN  IF now = level THEN [level |-> level, cnt |-> 0]
      ELSE IF cnt >= DEBOUNCE_TICKS - 1 THEN [level |-> now, cnt |-> 0]
      ELSE [level |-> level, cnt |-> cnt]

Debounced(now) ==
  LET cnt == (debounce_cnt + 1) % 8
  IN  IF now = level THEN [level |-> level, cnt |-> 0]
      ELSE IF cnt >= DEBOUNCE_TICKS THEN [level |-> now, cnt |-> 0]
      ELSE [level |-> level, cnt |-> cnt]

(* Mutant: a counter without a width. *)
Ticked_wide == IF state > 0 THEN ticks + 1 ELSE ticks

Ticked == IF state > 0 THEN (ticks + 1) % 2 ^ TickBits ELSE ticks

(* The cases of the switch, after level' is known. *)

(* Mutant: the count of the last sequence goes on. *)
Pressed_counting ==
  /\ state = 0 /\ level'
  /\ fired' = {"PRESS_DOWN"}
  /\ ticks' = 0 /\ repeat' = (repeat + 1) % 256 /\ state' = 1
  /\ UNCHANGED long_press_hold_cnt

Pressed ==
  /\ state = 0 /\ level'
  /\ fired' = {"PRESS_DOWN"}
  /\ ticks' = 0 /\ repeat' = 1 /\ state' = 1
  /\ UNCHANGED long_press_hold_cnt

Released ==
  /\ state = 1 /\ ~level'
  /\ fired' = {"PRESS_UP"}
  /\ ticks' = 0 /\ state' = 2
  /\ UNCHANGED <<repeat, long_press_hold_cnt>>

LongPressed ==
  /\ state = 1 /\ level' /\ Ticked > long_press_ticks
  /\ fired' = {"LONG_PRESS_START"}
  /\ ticks' = Ticked /\ state' = 5
  /\ UNCHANGED <<repeat, long_press_hold_cnt>>

PressedAgain ==
  /\ state = 2 /\ level'
  /\ hist.presses < MaxPresses
  /\ fired' = {"PRESS_DOWN", "PRESS_REPEAT"}
  /\ ticks' = 0 /\ repeat' = (repeat + 1) % 256 /\ state' = 3
  /\ UNCHANGED long_press_hold_cnt

(* Mutant: the state is not left. *)
ClicksDone_staying ==
  /\ state = 2 /\ ~level' /\ Ticked > short_press_ticks
  /\ fired' = {"PRESS_REPEAT_DONE"}
  /\ ticks' = Ticked
  /\ UNCHANGED <<state, repeat, long_press_hold_cnt>>

ClicksDone ==
  /\ state = 2 /\ ~level' /\ Ticked > short_press_ticks
  /\ fired' = {"PRESS_REPEAT_DONE"}
                \cup (IF repeat = 1 THEN {"SINGLE_CLICK"}
                      ELSE IF repeat = 2 THEN {"DOUBLE_CLICK"} ELSE {})
  /\ ticks' = Ticked /\ state' = 0
  /\ UNCHANGED <<repeat, long_press_hold_cnt>>

ReleasedAgain ==
  /\ state = 3 /\ ~level'
  /\ fired' = {"PRESS_UP"}
  /\ IF Ticked < SHORT_TICKS THEN ticks' = 0 /\ state' = 2 ELSE ticks' = Ticked /\ state' = 0
  /\ UNCHANGED <<repeat, long_press_hold_cnt>>

Hold ==
  /\ state = 5 /\ level' /\ Ticked >= (long_press_hold_cnt + 1) * SERIAL_TICKS
  /\ fired' = {"LONG_PRESS_HOLD"}
  /\ long_press_hold_cnt' = (long_press_hold_cnt + 1) % 65536   \* uint16_t
  /\ ticks' = Ticked
  /\ UNCHANGED <<state, repeat>>

HoldReleased ==
  /\ state = 5 /\ ~level'
  /\ fired' = {"PRESS_UP"}
  /\ state' = 0 /\ long_press_hold_cnt' = 0 /\ ticks' = Ticked
  /\ UNCHANGED repeat

Waiting ==
  /\ \/ state = 0 /\ ~level'
     \/ state = 1 /\ level' /\ Ticked <= long_press_ticks
     \/ state = 2 /\ ~level' /\ Ticked <= short_press_ticks
     \/ state = 3 /\ level'
     \/ state = 5 /\ level' /\ Ticked < (long_press_hold_cnt + 1) * SERIAL_TICKS
  /\ fired' = {} /\ ticks' = Ticked
  /\ UNCHANGED <<state, repeat, long_press_hold_cnt>>

Record ==
  hist' = [same |-> IF raw' = raw THEN Least(hist.same + 1, DEBOUNCE_TICKS) ELSE 1,
           down |-> "PRESS_DOWN" \in fired' \/ (hist.down /\ "PRESS_UP" \notin fired'),
           presses |-> IF state' = 0 THEN 0
                       ELSE IF "PRESS_DOWN" \in fired' THEN hist.presses + 1 ELSE hist.presses,
           held |-> IF "PRESS_DOWN" \in fired' THEN 0
                    ELSE Least(hist.held + 1, long_press_ticks + 1)]

oblfr_button_handler(now) ==
  /\ raw' = now /\ scan' = ~scan
  /\ level' = Debounced(now).level
  /\ debounce_cnt' = Debounced(now).cnt
  /\ \/ Pressed \/ Released \/ LongPressed \/ PressedAgain \/ ClicksDone \/ ReleasedAgain
     \/ Hold \/ HoldReleased \/ Waiting
  /\ Record

Next == \E now \in BOOLEAN : oblfr_button_handler(now)

Spec == Init /\ [][Next]_vars

(* The periodic timer of the buttons keeps firing (oblfr_button_cb). *)
FairSpec == Spec /\ WF_vars(Next)
-----------------------------------------------------------------------------
(* The types of the fields, with the widths of their bit fields and integers. *)
TypeOK ==
  /\ level \in BOOLEAN /\ raw \in BOOLEAN /\ scan \in BOOLEAN /\ debounce_cnt \in 0 .. 7
  /\ state \in {0, 1, 2, 3, 5} /\ ticks \in 0 .. 2 ^ TickBits - 1
  /\ repeat \in 0 .. 255 /\ long_press_hold_cnt \in Nat
  /\ fired \subseteq Events
  /\ hist \in [same : 0 .. DEBOUNCE_TICKS, down : BOOLEAN, presses : 0 .. MaxPresses,
               held : 0 .. long_press_ticks + 1]

(* The debounced level changes only after DEBOUNCE_TICKS scans in a row     *)
(* read the new level (the counter, its reset and its width).               *)
Debounces == [][level' # level => hist'.same >= DEBOUNCE_TICKS]_vars

(* PRESS_DOWN and PRESS_UP alternate, whatever way the state machine takes, *)
(* SINGLE_CLICK and DOUBLE_CLICK are reported after exactly one and two     *)
(* presses, and LONG_PRESS_START in the first press of a sequence, held     *)
(* longer than long_press_ticks.                                            *)
ClicksExact ==
  [][/\ "PRESS_DOWN" \in fired' => ~hist.down
     /\ "PRESS_UP" \in fired' => hist.down
     /\ "SINGLE_CLICK" \in fired' => hist.presses = 1
     /\ "DOUBLE_CLICK" \in fired' => hist.presses = 2
     /\ "LONG_PRESS_START" \in fired' =>
          hist.presses = 1 /\ hist.down /\ hist'.held > long_press_ticks]_vars

(* A button that stays pressed is seen to be so, and one that is left alone *)
(* is seen to be released and returns to its initial state (the debounce    *)
(* counter, and every way back to case 0 of the state machine).             *)
Settles ==
  /\ (<>[]raw) => <>[]level
  /\ (<>[]~raw) => <>[](~level /\ state = 0)
=============================================================================
