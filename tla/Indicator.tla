----------------------------- MODULE Indicator -----------------------------
(***************************************************************************)
(* The LED indicator of components/indicator: blink lists, started and     *)
(* stopped by the application, of which the one with the highest priority  *)
(* is shown.  A one-shot timer ends every step that holds the LED.         *)
(*                                                                         *)
(* _blink_list_runner runs in the timer service task, and in the tasks     *)
(* that start a list.  It reads and advances the step of the active list   *)
(* before it takes the mutex.                                              *)
(***************************************************************************)
EXTENDS Integers, Sequences, FiniteSets

CONSTANTS Callers,   \* the tasks that start and stop lists
          Lists,     \* the blink lists, by falling priority: sequences of steps
          Windows    \* the control points at which other tasks may run as well

Blinks == 1 .. Len(Lists)
Service == "timer service"
Tasks == Callers \cup {Service}
Kinds == {"on", "off", "flash", "loop", "stop"}   \* flash: a hold of 0 ms
LED_BLINK_STOP == -1
NULL_ACTIVE_BLINK == 0
Nobody == "nobody"

(* The stretches of a task that must not be interrupted. *)
Guarded == {"update", "advance", "lock", "act"}

ASSUME CallersAssumption == Service \notin Callers /\ Nobody \notin Callers
ASSUME ListsAssumption ==
  /\ Lists \in Seq(Seq(Kinds))
  /\ \A l \in Blinks : Lists[l] # <<>> /\ Lists[l][Len(Lists[l])] \in {"loop", "stop"}
ASSUME WindowsAssumption == Windows \subseteq SUBSET Guarded

VARIABLES windows,  \* where other tasks may run in this behaviour
          steps,    \* p_blink_steps: the step each list is at, from 0
          active,   \* active_blink
          mutex,    \* who has taken the mutex
          timer,    \* is h_timer running?
          led,
          proc      \* every task: control point, call, and what the runner has read

vars == <<windows, steps, active, mutex, timer, led, proc>>

Idle == [pc |-> "idle", op |-> "none", list |-> 0, blink |-> 0, step |-> 0]

(* oblfr_indicator_create *)
Init ==
  /\ windows \in Windows
  /\ steps = [l \in Blinks |-> LED_BLINK_STOP]
  /\ active = NULL_ACTIVE_BLINK
  /\ mutex = Nobody /\ timer = FALSE /\ led = "off"
  /\ proc = [t \in Tasks |-> Idle]

Runs(t) == \A u \in Tasks \ {t} : proc[u].pc \in Guarded => proc[u].pc \in windows
At(t, pc) == Runs(t) /\ proc[t].pc = pc
Goto(t, pc) == proc' = [proc EXCEPT ![t].pc = pc]
Return(t) == proc' = [proc EXCEPT ![t] = Idle]

Unfinished(s) == {l \in Blinks : s[l] # LED_BLINK_STOP}

(* _blink_list_switch *)
Switched(s) ==
  IF Unfinished(s) = {} THEN NULL_ACTIVE_BLINK
  ELSE CHOOSE l \in Unfinished(s) : \A k \in Unfinished(s) : l <= k

-----------------------------------------------------------------------------
Call(t, op, l) ==
  /\ t \in Callers /\ At(t, "idle")
  /\ proc' = [proc EXCEPT ![t] = [pc |-> "take", op |-> op, list |-> l, blink |-> 0, step |-> 0]]
  /\ UNCHANGED <<windows, steps, active, mutex, timer, led>>
oblfr_indicator_start(t, l) == Call(t, "start", l)
oblfr_indicator_stop(t, l) == Call(t, "stop", l)

TakeMutex(t) ==
  /\ At(t, "take") /\ mutex = Nobody
  /\ mutex' = t
  /\ Goto(t, "update")
  /\ UNCHANGED <<windows, steps, active, timer, led>>

(* Mutant: the lists are switched before the step is written, so           *)
(* that the list chosen is the one of the call before.                      *)
Update_swapped(t) ==
  /\ At(t, "update")
  /\ steps' = [steps EXCEPT ![proc[t].list] = IF proc[t].op = "start" THEN 0 ELSE LED_BLINK_STOP]
  /\ active' = Switched(steps)
  /\ mutex' = Nobody
  /\ Goto(t, "check")
  /\ UNCHANGED <<windows, timer, led>>

Update(t) ==
  /\ At(t, "update")
  /\ steps' = [steps EXCEPT ![proc[t].list] = IF proc[t].op = "start" THEN 0 ELSE LED_BLINK_STOP]
  /\ active' = Switched(steps')
  /\ mutex' = Nobody
  /\ Goto(t, "check")
  /\ UNCHANGED <<windows, timer, led>>

(* The list is run from its first step if it is the active one. *)
Check(t) ==
  /\ At(t, "check")
  /\ IF active = proc[t].list THEN Goto(t, "loop") ELSE Return(t)
  /\ UNCHANGED <<windows, steps, active, mutex, timer, led>>

Expire ==
  /\ timer /\ At(Service, "idle")
  /\ timer' = FALSE
  /\ Goto(Service, "loop")
  /\ UNCHANGED <<windows, steps, active, mutex, led>>

-----------------------------------------------------------------------------
(* _blink_list_runner *)
RunnerRead(t) ==
  /\ At(t, "loop")
  /\ IF active = NULL_ACTIVE_BLINK
       THEN Return(t)
       ELSE proc' = [proc EXCEPT ![t].pc = "advance", ![t].blink = active, ![t].step = steps[active]]
  /\ UNCHANGED <<windows, steps, active, mutex, timer, led>>

(* Mutant: the step is counted for the list of the highest priority. *)
RunnerAdvance_first(t) ==
  /\ At(t, "advance")
  /\ steps' = [steps EXCEPT ![1] = IF @ < Len(Lists[1]) THEN @ + 1 ELSE @]
  /\ Goto(t, "lock")
  /\ UNCHANGED <<windows, active, mutex, timer, led>>

(* A step past the end stays past the end. *)
RunnerAdvance(t) ==
  LET l == proc[t].blink
  IN  /\ At(t, "advance")
      /\ steps' = [steps EXCEPT ![l] = IF @ < Len(Lists[l]) THEN @ + 1 ELSE @]
      /\ Goto(t, "lock")
      /\ UNCHANGED <<windows, active, mutex, timer, led>>

RunnerLock(t) ==
  /\ At(t, "lock") /\ mutex = Nobody
  /\ mutex' = t
  /\ Goto(t, "act")
  /\ UNCHANGED <<windows, steps, active, timer, led>>

(* The mutex is not free for 100 ms: the step is left out. *)
RunnerTimeout(t) ==
  /\ At(t, "lock") /\ mutex # Nobody
  /\ timer' = TRUE
  /\ Return(t)
  /\ UNCHANGED <<windows, steps, active, mutex, led>>

(* A step that is not in the list is whatever lies in memory there. *)
InList(l, step) == step \in 0 .. Len(Lists[l]) - 1
StepKinds(l, step) == IF InList(l, step) THEN {Lists[l][step + 1]} ELSE Kinds

(* Mutant: a list that loops is not taken back to its first step. *)
RunnerLoop_on(t) ==
  /\ At(t, "act") /\ "loop" \in StepKinds(proc[t].blink, proc[t].step)
  /\ mutex' = Nobody
  /\ Goto(t, "loop")
  /\ UNCHANGED <<windows, steps, active, timer, led>>

RunnerLoop(t) ==
  /\ At(t, "act") /\ "loop" \in StepKinds(proc[t].blink, proc[t].step)
  /\ steps' = [steps EXCEPT ![proc[t].blink] = 0]
  /\ mutex' = Nobody
  /\ Goto(t, "loop")
  /\ UNCHANGED <<windows, active, timer, led>>

(* Mutant: the list at its end is left without a look at the others. *)
RunnerStop_alone(t) ==
  /\ At(t, "act") /\ "stop" \in StepKinds(proc[t].blink, proc[t].step)
  /\ steps' = [steps EXCEPT ![proc[t].blink] = LED_BLINK_STOP]
  /\ mutex' = Nobody
  /\ Return(t)
  /\ UNCHANGED <<windows, active, timer, led>>

RunnerStop(t) ==
  /\ At(t, "act") /\ "stop" \in StepKinds(proc[t].blink, proc[t].step)
  /\ steps' = [steps EXCEPT ![proc[t].blink] = LED_BLINK_STOP]
  /\ active' = Switched(steps')
  /\ mutex' = Nobody
  /\ Goto(t, "loop")
  /\ UNCHANGED <<windows, timer, led>>

(* Mutant: the timer is left alone. *)
RunnerHold_untimed(t) ==
  /\ At(t, "act")
  /\ \E k \in StepKinds(proc[t].blink, proc[t].step) \cap {"on", "off"} : led' = k
  /\ mutex' = Nobody
  /\ Return(t)
  /\ UNCHANGED <<windows, steps, active, timer>>

RunnerHold(t) ==
  /\ At(t, "act")
  /\ \E k \in StepKinds(proc[t].blink, proc[t].step) \cap {"on", "off"} : led' = k
  /\ timer' = TRUE
  /\ mutex' = Nobody
  /\ Return(t)
  /\ UNCHANGED <<windows, steps, active>>

RunnerFlash(t) ==
  /\ At(t, "act") /\ "flash" \in StepKinds(proc[t].blink, proc[t].step)
  /\ led' = "on"
  /\ mutex' = Nobody
  /\ Goto(t, "loop")
  /\ UNCHANGED <<windows, steps, active, timer>>

-----------------------------------------------------------------------------
Runner(t) ==
  \/ RunnerRead(t) \/ RunnerAdvance(t) \/ RunnerLock(t) \/ RunnerTimeout(t)
  \/ RunnerLoop(t) \/ RunnerStop(t) \/ RunnerHold(t) \/ RunnerFlash(t)
Caller(t) == TakeMutex(t) \/ Update(t) \/ Check(t)

Next ==
  \/ \E t \in Callers, l \in Blinks : oblfr_indicator_start(t, l) \/ oblfr_indicator_stop(t, l)
  \/ \E t \in Callers : Caller(t)
  \/ \E t \in Tasks : Runner(t)
  \/ Expire

Spec == Init /\ [][Next]_vars

(* Every task that is ready runs, one that waits for the mutex gets it, and *)
(* a timer that runs expires.                                               *)
FairSpec ==
  /\ Spec
  /\ \A t \in Callers : SF_vars(Caller(t))
  /\ \A t \in Tasks : SF_vars(Runner(t))
  /\ SF_vars(Expire)
-----------------------------------------------------------------------------
Process ==
  [pc : {"idle", "take", "check", "loop"} \cup Guarded, op : {"none", "start", "stop"},
   list : Blinks \cup {0}, blink : Blinks \cup {0}, step : Int]
TypeOK ==
  /\ windows \in Windows
  /\ steps \in [Blinks -> Int] /\ \A l \in Blinks : steps[l] \in LED_BLINK_STOP .. Len(Lists[l])
  /\ active \in Blinks \cup {NULL_ACTIVE_BLINK}
  /\ mutex \in Tasks \cup {Nobody} /\ timer \in BOOLEAN /\ led \in {"on", "off"}
  /\ proc \in [Tasks -> Process]

Calm == windows = {}

(* The runner reads steps inside its list only, as long as it is never kept *)
(* from its step for longer than it waits for the mutex.                    *)
StepsInList ==
  Calm => \A t \in Tasks : proc[t].pc = "act" => InList(proc[t].blink, proc[t].step)

(* The list that is shown is the first one that is not finished, whenever   *)
(* nobody is at work on the indicator (_blink_list_switch); steps and the   *)
(* other variables stay in their ranges.                                    *)
PriorityKept ==
  /\ TypeOK
  /\ mutex = Nobody => active = Switched(steps)

(* A list that was stopped, or has ended, stays so until it is started. *)
StopHolds ==
  [][\A l \in Blinks :
       steps[l] = LED_BLINK_STOP /\ steps'[l] # LED_BLINK_STOP =>
         \E t \in Callers : proc[t].pc = "update" /\ proc[t].op = "start" /\ proc[t].list = l]_vars

(* While a list is active, somebody is going to show its next step. *)
Driven ==
  active # NULL_ACTIVE_BLINK =>
    \/ timer
    \/ \E t \in Tasks : \/ proc[t].pc \in {"loop", "advance", "lock", "act"}
                        \/ proc[t].pc = "check" /\ proc[t].list = active

(* A list keeps blinking until it ends, is stopped, or another takes over,  *)
(* as long as no runner gives up on the mutex.                              *)
Shows(l) == \E t \in Tasks : proc[t].pc = "act" /\ proc[t].blink = l
KeepsBlinking == \A l \in Blinks : Calm => []<>(active # l \/ Shows(l))
=============================================================================
