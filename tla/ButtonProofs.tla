---------------------------- MODULE ButtonProofs ----------------------------
(***************************************************************************)
(* Proofs about Button, for every choice of the debounce and press times   *)
(* and every width of the tick counter.                                    *)
(***************************************************************************)
EXTENDS Button, TLAPS

(* The debounce counter counts scans in a row that differ from the level:   *)
(* it never runs ahead of the history and starts again when the pin returns.*)
DebounceInv ==
  /\ debounce_cnt <= hist.same
  /\ debounce_cnt > 0 => raw # level

(* What each state of the machine knows about the presses it has reported. *)
ClickInv ==
  /\ hist.down <=> state \in {1, 3, 5}
  /\ state = 0 => hist.presses = 0
  /\ state # 0 => repeat = hist.presses
  /\ state \in {1, 5} => hist.presses = 1
  /\ state = 1 => ticks <= hist.held

(* The inductive invariant of Button. *)
IInv == TypeOK /\ DebounceInv /\ ClickInv

-----------------------------------------------------------------------------
(* A counter that wraps around stays in its width and never runs ahead. *)
LEMMA WrapAround ==
  ASSUME NEW M \in Nat \ {0}, NEW x \in 0 .. M - 1
  PROVE  (x + 1) % M \in 0 .. M - 1 /\ (x + 1) % M <= x + 1
  <1>1. CASE x + 1 < M
    BY <1>1
  <1>2. CASE x + 1 = M
    BY <1>2
  <1> QED BY <1>1, <1>2

(* Ticks after a scan, from TypeOK alone (oblfr_button_handler, ticks++). *)
LEMMA TickedType ==
  TypeOK => Ticked \in 0 .. 2 ^ TickBits - 1 /\ Ticked <= ticks + 1
  <1> SUFFICES ASSUME TypeOK PROVE Ticked \in 0 .. 2 ^ TickBits - 1 /\ Ticked <= ticks + 1
    OBVIOUS
  <1> DEFINE M == 2 ^ TickBits
  <1>1. M \in Nat \ {0} /\ ticks \in 0 .. M - 1
    BY TicksAssumption DEF TypeOK
  <1> HIDE DEF M
  <1>2. (ticks + 1) % M \in 0 .. M - 1 /\ (ticks + 1) % M <= ticks + 1
    BY <1>1, WrapAround
  <1>3. Ticked = IF state > 0 THEN (ticks + 1) % M ELSE ticks
    BY DEF Ticked, M
  <1>4. Ticked \in 0 .. M - 1 /\ Ticked <= ticks + 1
    BY <1>1, <1>2, <1>3
  <1> QED BY <1>4 DEF M

-----------------------------------------------------------------------------
(* A new button satisfies the invariant (oblfr_button_create_com). *)
LEMMA InitIInv == Init => IInv
  <1> DEFINE M == 2 ^ TickBits
  <1>1. M \in Nat \ {0} /\ DEBOUNCE_TICKS \in 1 .. 8 /\ long_press_ticks \in Nat /\ MaxPresses \in 1 .. 255
    BY TicksAssumption
  <1> HIDE DEF M
  <1>2. 0 \in 0 .. M - 1
    BY <1>1
  <1>3. Init => TypeOK
    <2> SUFFICES ASSUME Init PROVE TypeOK
      OBVIOUS
    <2>1. hist \in [same : 0 .. DEBOUNCE_TICKS, down : BOOLEAN, presses : 0 .. MaxPresses,
                    held : 0 .. long_press_ticks + 1]
      BY <1>1 DEF Init
    <2>2. ticks \in 0 .. 2 ^ TickBits - 1
      BY <1>2 DEF Init, M
    <2>3. level \in BOOLEAN /\ raw \in BOOLEAN /\ scan \in BOOLEAN /\ fired \subseteq Events
      BY DEF Init
    <2>4. /\ debounce_cnt \in 0 .. 7 /\ state \in {0, 1, 2, 3, 5} /\ repeat \in 0 .. 255
          /\ long_press_hold_cnt \in Nat
      BY DEF Init
    <2> QED BY <2>1, <2>2, <2>3, <2>4 DEF TypeOK
  <1>4. Init => DebounceInv
    <2> SUFFICES ASSUME Init PROVE DebounceInv
      OBVIOUS
    <2>1. debounce_cnt = 0 /\ hist.same = 0
      BY DEF Init
    <2> QED BY <2>1 DEF DebounceInv
  <1>5. Init => ClickInv
    <2> SUFFICES ASSUME Init PROVE ClickInv
      OBVIOUS
    <2>1. state = 0 /\ hist.down = FALSE /\ hist.presses = 0
      BY DEF Init
    <2> QED BY <2>1 DEF ClickInv
  <1> QED BY <1>3, <1>4, <1>5 DEF IInv

(* One scan keeps the part of the invariant about debouncing, and a level   *)
(* that changes has been read often enough.                                 *)
LEMMA DebounceStep ==
  ASSUME IInv, NEW now \in BOOLEAN, oblfr_button_handler(now)
  PROVE  /\ level' \in BOOLEAN /\ debounce_cnt' \in 0 .. 7 /\ hist'.same \in 0 .. DEBOUNCE_TICKS
         /\ DebounceInv'
         /\ level' # level => hist'.same >= DEBOUNCE_TICKS
  <1> DEFINE cnt == (debounce_cnt + 1) % 8
  <1>1. /\ level \in BOOLEAN /\ raw \in BOOLEAN /\ debounce_cnt \in 0 .. 7
        /\ hist.same \in 0 .. DEBOUNCE_TICKS /\ DEBOUNCE_TICKS \in 1 .. 8
        /\ debounce_cnt <= hist.same /\ (debounce_cnt > 0 => raw # level)
    BY TicksAssumption DEF IInv, TypeOK, DebounceInv
  <1>2. cnt \in 0 .. 7 /\ (cnt = debounce_cnt + 1 \/ cnt = 0)
    BY <1>1
  <1>3. raw' = now /\ hist'.same = IF raw' = raw THEN Least(hist.same + 1, DEBOUNCE_TICKS) ELSE 1
    BY DEF oblfr_button_handler, Record
  <1>4. CASE now = level
    <2>1. level' = level /\ debounce_cnt' = 0
      BY <1>4 DEF oblfr_button_handler, Debounced
    <2> QED BY <1>1, <1>3, <2>1 DEF DebounceInv, Least
  <1>5. CASE now # level /\ cnt >= DEBOUNCE_TICKS
    <2>1. level' = now /\ debounce_cnt' = 0
      BY <1>5 DEF oblfr_button_handler, Debounced
    <2>2. cnt = debounce_cnt + 1
      BY <1>1, <1>2, <1>5
    <2>3. CASE raw = level
      BY <1>1, <1>3, <1>5, <2>1, <2>2, <2>3 DEF DebounceInv, Least
    <2>4. CASE raw # level
      BY <1>1, <1>3, <1>5, <2>1, <2>2, <2>4 DEF DebounceInv, Least
    <2> QED BY <2>3, <2>4
  <1>6. CASE now # level /\ ~(cnt >= DEBOUNCE_TICKS)
    <2>1. level' = level /\ debounce_cnt' = cnt
      BY <1>6 DEF oblfr_button_handler, Debounced
    <2>2. CASE raw = level
      BY <1>1, <1>2, <1>3, <1>6, <2>1, <2>2 DEF DebounceInv, Least
    <2>3. CASE raw # level
      BY <1>1, <1>2, <1>3, <1>6, <2>1, <2>3 DEF DebounceInv, Least
    <2> QED BY <2>2, <2>3
  <1> QED BY <1>4, <1>5, <1>6

(* What the events of one scan say about the presses so far. *)
EventsExact ==
  /\ "PRESS_DOWN" \in fired' => ~hist.down
  /\ "PRESS_UP" \in fired' => hist.down
  /\ "SINGLE_CLICK" \in fired' => hist.presses = 1
  /\ "DOUBLE_CLICK" \in fired' => hist.presses = 2
  /\ "LONG_PRESS_START" \in fired' =>
       hist.presses = 1 /\ hist.down /\ hist'.held > long_press_ticks

(* One scan keeps the rest of the invariant, branch by branch of the switch *)
(* in oblfr_button_handler, and reports only what happened.                 *)
LEMMA ClickStep ==
  ASSUME IInv, NEW now \in BOOLEAN, oblfr_button_handler(now)
  PROVE  TypeOK' /\ ClickInv' /\ EventsExact
  <1> DEFINE M == 2 ^ TickBits
  <1>1. /\ M \in Nat \ {0} /\ long_press_ticks \in Nat /\ MaxPresses \in 1 .. 255
        /\ TypeOK /\ ClickInv
    BY TicksAssumption DEF IInv
  <1>2. Ticked \in 0 .. M - 1 /\ Ticked <= ticks + 1 /\ ticks \in 0 .. M - 1
    BY <1>1, TickedType DEF TypeOK
  <1>3. /\ level' \in BOOLEAN /\ debounce_cnt' \in 0 .. 7 /\ hist'.same \in 0 .. DEBOUNCE_TICKS
        /\ raw' \in BOOLEAN /\ scan' \in BOOLEAN
    BY <1>1, DebounceStep DEF oblfr_button_handler, TypeOK
  <1> HIDE DEF M
  <1>4. TypeOK' <=> /\ state' \in {0, 1, 2, 3, 5} /\ ticks' \in 0 .. M - 1 /\ repeat' \in 0 .. 255
                    /\ long_press_hold_cnt' \in Nat /\ fired' \subseteq Events
                    /\ hist'.presses \in 0 .. MaxPresses /\ hist'.held \in 0 .. long_press_ticks + 1
    <2>1. DOMAIN hist' = {"same", "down", "presses", "held"} /\ hist'.down \in BOOLEAN
      BY <1>1 DEF oblfr_button_handler, Record, TypeOK
    <2>2. hist' = [same |-> hist'.same, down |-> hist'.down, presses |-> hist'.presses, held |-> hist'.held]
      BY DEF oblfr_button_handler, Record
    <2> QED BY <1>3, <2>1, <2>2 DEF TypeOK, M
  <1>5. /\ hist'.down <=> ("PRESS_DOWN" \in fired' \/ (hist.down /\ "PRESS_UP" \notin fired'))
        /\ hist'.presses = IF state' = 0 THEN 0
                           ELSE IF "PRESS_DOWN" \in fired' THEN hist.presses + 1 ELSE hist.presses
        /\ hist'.held = IF "PRESS_DOWN" \in fired' THEN 0
                        ELSE IF hist.held + 1 < long_press_ticks + 1 THEN hist.held + 1
                        ELSE long_press_ticks + 1
    BY DEF oblfr_button_handler, Record, Least
  <1>6. /\ state \in {0, 1, 2, 3, 5} /\ repeat \in 0 .. 255 /\ long_press_hold_cnt \in Nat
        /\ hist.down \in BOOLEAN /\ hist.presses \in 0 .. MaxPresses
        /\ hist.held \in 0 .. long_press_ticks + 1
    BY <1>1 DEF TypeOK
  <1> USE DEF ClickInv, EventsExact, Events
  <1>11. CASE Pressed
    BY <1>1, <1>2, <1>4, <1>5, <1>6, <1>11 DEF Pressed
  <1>12. CASE Released
    BY <1>1, <1>2, <1>4, <1>5, <1>6, <1>12 DEF Released
  <1>13. CASE LongPressed
    BY <1>1, <1>2, <1>4, <1>5, <1>6, <1>13 DEF LongPressed
  <1>14. CASE PressedAgain
    <2>1. /\ state = 2 /\ state' = 3 /\ ticks' = 0 /\ fired' = {"PRESS_DOWN", "PRESS_REPEAT"}
          /\ repeat' = (repeat + 1) % 256 /\ long_press_hold_cnt' = long_press_hold_cnt
          /\ hist.presses < MaxPresses
      BY <1>14 DEF PressedAgain
    <2>2. repeat = hist.presses
      BY <1>1, <2>1
    <2>3. repeat' = hist.presses + 1 /\ repeat' \in 0 .. 255
      BY <1>1, <1>6, <2>1, <2>2
    <2>4. hist'.down = TRUE /\ hist'.presses = hist.presses + 1 /\ hist'.held = 0
      BY <1>5, <2>1
    <2>5. TypeOK'
      BY <1>1, <1>2, <1>4, <1>6, <2>1, <2>3, <2>4
    <2>6. ClickInv'
      BY <2>1, <2>3, <2>4
    <2>7. EventsExact
      BY <1>1, <2>1
    <2> QED BY <2>5, <2>6, <2>7
  <1>15. CASE ClicksDone
    BY <1>1, <1>2, <1>4, <1>5, <1>6, <1>15 DEF ClicksDone
  <1>16. CASE ReleasedAgain
    <2>1. CASE state' = 2 /\ ticks' = 0
      BY <1>1, <1>2, <1>4, <1>5, <1>6, <1>16, <2>1 DEF ReleasedAgain
    <2>2. CASE state' = 0 /\ ticks' = Ticked
      BY <1>1, <1>2, <1>4, <1>5, <1>6, <1>16, <2>2 DEF ReleasedAgain
    <2> QED BY <1>16, <2>1, <2>2 DEF ReleasedAgain
  <1>17. CASE Hold
    BY <1>1, <1>2, <1>4, <1>5, <1>6, <1>17 DEF Hold
  <1>18. CASE HoldReleased
    BY <1>1, <1>2, <1>4, <1>5, <1>6, <1>18 DEF HoldReleased
  <1>19. CASE Waiting
    BY <1>1, <1>2, <1>4, <1>5, <1>6, <1>19 DEF Waiting
  <1> QED BY <1>11, <1>12, <1>13, <1>14, <1>15, <1>16, <1>17, <1>18, <1>19 DEF oblfr_button_handler

(* The invariant holds throughout (oblfr_button_handler, called for every   *)
(* scan), and with it the facts about one step that the properties state.   *)
LEMMA NextIInv == IInv /\ [Next]_vars => IInv'
  <1> SUFFICES ASSUME IInv, [Next]_vars PROVE IInv'
    OBVIOUS
  <1>1. ASSUME NEW now \in BOOLEAN, oblfr_button_handler(now) PROVE IInv'
    BY <1>1, DebounceStep, ClickStep DEF IInv
  <1>2. CASE UNCHANGED vars
    BY <1>2 DEF vars, IInv, TypeOK, DebounceInv, ClickInv
  <1> QED BY <1>1, <1>2 DEF Next

(* IInv is an invariant of Button: types, debounce counter, press counts.   *)
THEOREM InductiveInvariant == Spec => []IInv
  BY InitIInv, NextIInv, PTL DEF Spec

(* The fields of a button keep their types and widths, whatever sequence of *)
(* levels oblfr_button_handler reads.                                       *)
THEOREM TypeCorrect == Spec => []TypeOK
  <1>1. IInv => TypeOK
    BY DEF IInv
  <1> QED BY <1>1, InductiveInvariant, PTL

(* The debounced level changes only after DEBOUNCE_TICKS scans in a row     *)
(* that read the new level, for every DEBOUNCE_TICKS up to 8.               *)
THEOREM DebouncesCorrect == Spec => Debounces
  <1>1. IInv /\ [Next]_vars => [level' # level => hist'.same >= DEBOUNCE_TICKS]_vars
    <2> SUFFICES ASSUME IInv, Next PROVE level' # level => hist'.same >= DEBOUNCE_TICKS
      BY DEF vars
    <2>1. PICK now \in BOOLEAN : oblfr_button_handler(now)
      BY DEF Next
    <2> QED BY <2>1, DebounceStep
  <1> QED BY <1>1, InductiveInvariant, PTL DEF Spec, Debounces

(* PRESS_DOWN and PRESS_UP alternate, clicks are counted exactly, and a     *)
(* long press is the first of its sequence and long enough, for all limits  *)
(* and every width of ticks.                                                *)
THEOREM ClicksExactCorrect == Spec => ClicksExact
  <1>1. IInv /\ [Next]_vars => [EventsExact]_vars
    <2> SUFFICES ASSUME IInv, Next PROVE EventsExact
      OBVIOUS
    <2>1. PICK now \in BOOLEAN : oblfr_button_handler(now)
      BY DEF Next
    <2> QED BY <2>1, ClickStep
  <1> QED BY <1>1, InductiveInvariant, PTL DEF Spec, ClicksExact, EventsExact

=============================================================================
