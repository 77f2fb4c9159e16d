-------------------------- MODULE IndicatorProofs --------------------------
(***************************************************************************)
(* Proofs about Indicator, for every set of blink lists.                   *)
(***************************************************************************)
EXTENDS Indicator, Least

(* A runner is not interrupted between its look at the list and the mutex. *)
Undisturbed == \A w \in Windows : "advance" \notin w /\ "lock" \notin w

(* The mutex is held exactly in the two stretches that it protects. *)
MutexInv == \A t \in Tasks : mutex = t <=> proc[t].pc \in {"update", "act"}

(* A call knows its list and what to do with it; the service makes none. *)
CallInv ==
  \A t \in Tasks : proc[t].pc \in {"take", "update", "check"} =>
    t \in Callers /\ proc[t].list \in Blinks /\ proc[t].op \in {"start", "stop"}

(* A runner on its way works for the active list, which is not finished. *)
RunnerInv ==
  \A t \in Tasks : proc[t].pc \in {"advance", "lock", "act"} =>
    proc[t].blink \in Blinks /\ proc[t].blink = active /\ steps[active] # LED_BLINK_STOP

(* The inductive invariant of Indicator; the mutex is not mentioned in the  *)
(* part about priorities, since no stretch ever leaves it unsatisfied.      *)
IInv == TypeOK /\ active = Switched(steps) /\ MutexInv /\ CallInv /\ RunnerInv

-----------------------------------------------------------------------------
(* What _blink_list_switch computes: nothing if all lists are finished, and *)
(* otherwise an unfinished one.                                             *)
LEMMA SwitchedType ==
  ASSUME NEW s
  PROVE  /\ Unfinished(s) = {} => Switched(s) = NULL_ACTIVE_BLINK
         /\ Unfinished(s) # {} => Switched(s) \in Unfinished(s) /\ Switched(s) # NULL_ACTIVE_BLINK
         /\ Switched(s) \in Blinks \cup {NULL_ACTIVE_BLINK}
  <1>1. Unfinished(s) \subseteq Blinks /\ Blinks \subseteq Nat \ {0}
    BY ListsAssumption DEF Unfinished, Blinks
  <1>2. CASE Unfinished(s) = {}
    BY <1>2 DEF Switched
  <1>3. CASE Unfinished(s) # {}
    <2>1. \E l \in Unfinished(s) : \A k \in Unfinished(s) : l <= k
      BY <1>1, <1>3, LeastExists
    <2>2. Switched(s) \in Unfinished(s)
      BY <1>3, <2>1 DEF Switched
    <2> QED BY <1>1, <1>3, <2>2 DEF NULL_ACTIVE_BLINK
  <1> QED BY <1>2, <1>3

(* The choice depends only on which lists are unfinished. *)
LEMMA SwitchedSame ==
  ASSUME NEW s, NEW r, Unfinished(s) = Unfinished(r)
  PROVE  Switched(s) = Switched(r)
  BY DEF Switched

-----------------------------------------------------------------------------
(* Processes keep their type when they move on or return. *)
LEMMA ProcessTypes ==
  /\ Idle \in Process /\ Idle.pc = "idle"
  /\ \A p \in Process, pc \in {"idle", "take", "check", "loop"} \cup Guarded :
       [p EXCEPT !.pc = pc] \in Process /\ [p EXCEPT !.pc = pc].pc = pc
  BY DEF Process, Idle

(* Lengths of lists, for the types of steps. *)
LEMMA ListLengths ==
  /\ \A l \in Blinks : Len(Lists[l]) \in Nat \ {0} /\ l \in Nat \ {0}
  /\ \A l \in Blinks : Lists[l] \in Seq(Kinds)
  BY ListsAssumption DEF Blinks

(* A new indicator satisfies the invariant (oblfr_indicator_create). *)
LEMMA InitIInv == Init => IInv
  <1> SUFFICES ASSUME Init PROVE IInv
    OBVIOUS
  <1>1. Unfinished(steps) = {}
    BY DEF Init, Unfinished
  <1>2. active = Switched(steps)
    BY <1>1, SwitchedType DEF Init
  <1>3. \A t \in Tasks : proc[t] = Idle
    BY DEF Init
  <1>4. TypeOK
    <2>1. steps \in [Blinks -> Int] /\ \A l \in Blinks : steps[l] \in LED_BLINK_STOP .. Len(Lists[l])
      BY ListLengths DEF Init, LED_BLINK_STOP
    <2>2. proc \in [Tasks -> Process]
      BY ProcessTypes DEF Init
    <2> QED BY <2>1, <2>2 DEF Init, TypeOK
  <1>5. MutexInv
    BY <1>3, CallersAssumption DEF Init, MutexInv, Idle, Tasks, Nobody, Service
  <1>6. CallInv /\ RunnerInv
    BY <1>3 DEF CallInv, RunnerInv, Idle
  <1> QED BY <1>2, <1>4, <1>5, <1>6 DEF IInv

(* A task that runs at a point where a runner is on its way is that runner. *)
LEMMA Alone ==
  ASSUME Undisturbed, TypeOK, NEW t \in Tasks, Runs(t), NEW u \in Tasks,
         proc[u].pc \in {"advance", "lock"}
  PROVE  u = t
  BY DEF Undisturbed, TypeOK, Runs, Guarded

(* Starting and stopping a list keeps the invariant: the mutex is free only *)
(* after the active list has been chosen again.                             *)
LEMMA CallerSteps ==
  ASSUME Undisturbed, IInv, NEW t \in Callers, Caller(t) \/ \E l \in Blinks : oblfr_indicator_start(t, l) \/ oblfr_indicator_stop(t, l)
  PROVE  IInv'
  <1> USE DEF IInv
  <1>0. t \in Tasks /\ t # Nobody /\ Nobody \notin Tasks
    BY CallersAssumption DEF Tasks, Nobody, Service
  <1>1. ASSUME NEW l \in Blinks, NEW op \in {"start", "stop"}, Call(t, op, l)
        PROVE  IInv'
    <2> DEFINE p == [pc |-> "take", op |-> op, list |-> l, blink |-> 0, step |-> 0]
    <2>0. p \in Process /\ p.pc = "take" /\ p.op = op /\ p.list = l
      BY DEF Process
    <2> HIDE DEF p
    <2>1. proc' = [proc EXCEPT ![t] = p]
          /\ UNCHANGED <<windows, steps, active, mutex, timer, led>> /\ proc[t].pc = "idle"
      BY <1>1 DEF Call, At, p
    <2>2. TypeOK'
      BY <1>0, <2>0, <2>1 DEF TypeOK
    <2>3. MutexInv' /\ CallInv' /\ RunnerInv'
      BY <1>0, <2>0, <2>1 DEF MutexInv, CallInv, RunnerInv, TypeOK
    <2> QED BY <2>1, <2>2, <2>3
  <1>2. CASE TakeMutex(t)
    <2>1. proc' = [proc EXCEPT ![t].pc = "update"] /\ mutex = Nobody /\ mutex' = t
          /\ UNCHANGED <<windows, steps, active, timer, led>> /\ proc[t].pc = "take"
      BY <1>2 DEF TakeMutex, Goto, At
    <2>2. TypeOK'
      BY <1>0, <2>1, ProcessTypes DEF TypeOK, Guarded
    <2>3. MutexInv' /\ CallInv' /\ RunnerInv'
      BY <1>0, <2>1 DEF MutexInv, CallInv, RunnerInv, TypeOK
    <2> QED BY <2>1, <2>2, <2>3
  <1>3. CASE Update(t)
    <2>1. /\ proc' = [proc EXCEPT ![t].pc = "check"] /\ mutex' = Nobody
          /\ steps' = [steps EXCEPT ![proc[t].list] = IF proc[t].op = "start" THEN 0 ELSE LED_BLINK_STOP]
          /\ active' = Switched(steps') /\ UNCHANGED <<windows, timer, led>> /\ proc[t].pc = "update"
          /\ Runs(t)
      BY <1>3 DEF Update, Goto, At
    <2>2. mutex = t /\ proc[t].list \in Blinks
      BY <1>0, <2>1 DEF MutexInv, CallInv
    <2>3. \A u \in Tasks : proc[u].pc \notin {"advance", "lock", "act"}
      BY <1>0, <2>1, <2>2, Alone DEF MutexInv
    <2>4. TypeOK'
      <3>1. proc' \in [Tasks -> Process]
        BY <1>0, <2>1, ProcessTypes DEF TypeOK
      <3>2. steps' \in [Blinks -> Int] /\ \A l \in Blinks : steps'[l] \in LED_BLINK_STOP .. Len(Lists[l])
        BY <2>1, <2>2, ListLengths DEF TypeOK, LED_BLINK_STOP
      <3>3. active' \in Blinks \cup {NULL_ACTIVE_BLINK}
        BY <2>1, SwitchedType
      <3> QED BY <2>1, <3>1, <3>2, <3>3 DEF TypeOK
    <2>5. MutexInv' /\ CallInv' /\ RunnerInv'
      BY <1>0, <2>1, <2>2, <2>3 DEF MutexInv, CallInv, RunnerInv, TypeOK
    <2> QED BY <2>1, <2>4, <2>5
  <1>4. CASE Check(t)
    <2>1. PICK p \in {Idle, [proc[t] EXCEPT !.pc = "loop"]} :
            /\ proc' = [proc EXCEPT ![t] = p]
            /\ UNCHANGED <<windows, steps, active, mutex, timer, led>> /\ proc[t].pc = "check"
      BY <1>0, <1>4 DEF Check, Goto, Return, At, TypeOK
    <2>2. p \in Process /\ p.pc \in {"idle", "loop"}
      <3>1. proc[t] \in Process
        BY <1>0 DEF TypeOK
      <3>2. [proc[t] EXCEPT !.pc = "loop"] \in Process /\ [proc[t] EXCEPT !.pc = "loop"].pc = "loop"
        BY <3>1, ProcessTypes
      <3> QED BY <2>1, <3>2, ProcessTypes
    <2>3. TypeOK'
      BY <1>0, <2>1, <2>2 DEF TypeOK
    <2>4. MutexInv' /\ CallInv' /\ RunnerInv'
      BY <1>0, <2>1, <2>2 DEF MutexInv, CallInv, RunnerInv, TypeOK
    <2> QED BY <2>1, <2>3, <2>4
  <1> QED BY <1>1, <1>2, <1>3, <1>4 DEF Caller, oblfr_indicator_start, oblfr_indicator_stop

(* The timer service wakes up and keeps the invariant. *)
LEMMA ExpireStep ==
  ASSUME Undisturbed, IInv, Expire
  PROVE  IInv'
  <1> USE DEF IInv
  <1>1. /\ proc' = [proc EXCEPT ![Service].pc = "loop"] /\ proc[Service].pc = "idle" /\ timer' = FALSE
        /\ UNCHANGED <<windows, steps, active, mutex, led>> /\ Service \in Tasks
    BY DEF Expire, At, Goto, Tasks
  <1>2. TypeOK'
    BY <1>1, ProcessTypes DEF TypeOK
  <1>3. MutexInv' /\ CallInv' /\ RunnerInv'
    BY <1>1 DEF MutexInv, CallInv, RunnerInv, TypeOK
  <1> QED BY <1>1, <1>2, <1>3

(* _blink_list_runner keeps the invariant: it works for the active list     *)
(* from its first look to its step, because nobody can finish that list in  *)
(* between, and it never brings a finished list back.                       *)
LEMMA RunnerSteps ==
  ASSUME Undisturbed, IInv, NEW t \in Tasks, Runner(t)
  PROVE  IInv' /\ \A l \in Blinks : steps[l] = LED_BLINK_STOP => steps'[l] = LED_BLINK_STOP
  <1> USE DEF IInv
  <1>0. Nobody \notin Tasks /\ proc[t] \in Process /\ proc \in [Tasks -> Process]
    BY CallersAssumption DEF Tasks, Nobody, Service, TypeOK
  <1>1. CASE RunnerRead(t)
    <2>1. UNCHANGED <<windows, steps, active, mutex, timer, led>> /\ proc[t].pc = "loop"
      BY <1>1 DEF RunnerRead, At
    <2>2. PICK p \in Process :
            /\ proc' = [proc EXCEPT ![t] = p] /\ p.pc \in {"idle", "advance"}
            /\ p.pc = "advance" => p.blink = active /\ active # NULL_ACTIVE_BLINK
      <3>1. CASE active = NULL_ACTIVE_BLINK
        BY <1>1, <3>1, ProcessTypes DEF RunnerRead, Return
      <3>2. CASE active # NULL_ACTIVE_BLINK
        <4> DEFINE p == [proc[t] EXCEPT !.pc = "advance", !.blink = active, !.step = steps[active]]
        <4>1. p \in Process /\ p.pc = "advance" /\ p.blink = active
          BY <1>0, <3>2 DEF Process, TypeOK, Guarded
        <4>2. proc' = [proc EXCEPT ![t] = p]
          BY <1>0, <1>1, <3>2 DEF RunnerRead
        <4> QED BY <3>2, <4>1, <4>2
      <3> QED BY <3>1, <3>2
    <2>3. active # NULL_ACTIVE_BLINK => active \in Blinks /\ steps[active] # LED_BLINK_STOP
      BY SwitchedType DEF Unfinished
    <2>4. TypeOK'
      BY <1>0, <2>1, <2>2 DEF TypeOK
    <2>5. MutexInv' /\ CallInv' /\ RunnerInv'
      BY <1>0, <2>1, <2>2, <2>3 DEF MutexInv, CallInv, RunnerInv
    <2> QED BY <2>1, <2>4, <2>5
  <1>2. CASE RunnerAdvance(t)
    <2> DEFINE l == proc[t].blink
    <2>1. /\ proc[t].pc = "advance" /\ Runs(t) /\ UNCHANGED <<windows, active, mutex, timer, led>>
          /\ steps' = [steps EXCEPT ![l] = IF @ < Len(Lists[l]) THEN @ + 1 ELSE @]
          /\ proc' = [proc EXCEPT ![t].pc = "lock"]
      BY <1>2 DEF RunnerAdvance, At, Goto
    <2>2. l \in Blinks /\ l = active /\ steps[l] # LED_BLINK_STOP
      BY <2>1 DEF RunnerInv
    <2>3. proc'[t] \in Process /\ proc'[t].pc = "lock" /\ proc'[t].blink = l
      <3>1. proc'[t] = [proc[t] EXCEPT !.pc = "lock"]
        BY <1>0, <2>1
      <3>2. proc'[t].blink = proc[t].blink
        BY <1>0, <3>1 DEF Process
      <3>3. [proc[t] EXCEPT !.pc = "lock"] \in Process /\ [proc[t] EXCEPT !.pc = "lock"].pc = "lock"
        BY <1>0, ProcessTypes DEF Guarded
      <3> QED BY <3>1, <3>2, <3>3
    <2>4. steps[l] \in Int /\ steps[l] >= 0 /\ steps[l] <= Len(Lists[l]) /\ Len(Lists[l]) \in Nat
      BY <2>2, ListLengths DEF TypeOK, LED_BLINK_STOP
    <2>5. steps'[l] \in 0 .. Len(Lists[l]) /\ \A k \in Blinks \ {l} : steps'[k] = steps[k]
      BY <2>1, <2>2, <2>4 DEF TypeOK
    <2>6. Unfinished(steps') = Unfinished(steps)
      BY <2>2, <2>5 DEF Unfinished, LED_BLINK_STOP
    <2>7. active' = Switched(steps')
      BY <2>1, <2>6, SwitchedSame
    <2>8. TypeOK'
      <3>1. steps' \in [Blinks -> Int] /\ \A k \in Blinks : steps'[k] \in LED_BLINK_STOP .. Len(Lists[k])
        BY <2>1, <2>2, <2>4, <2>5 DEF TypeOK, LED_BLINK_STOP
      <3>2. proc' \in [Tasks -> Process]
        BY <1>0, <2>1, <2>3
      <3> QED BY <2>1, <3>1, <3>2 DEF TypeOK
    <2>9. MutexInv' /\ CallInv' /\ RunnerInv'
      <3>1. \A u \in Tasks \ {t} : proc'[u] = proc[u]
        BY <1>0, <2>1
      <3> QED BY <1>0, <2>1, <2>2, <2>3, <2>5, <3>1 DEF MutexInv, CallInv, RunnerInv, LED_BLINK_STOP
    <2> QED BY <2>6, <2>7, <2>8, <2>9 DEF Unfinished
  <1>3. CASE RunnerLock(t)
    <2>1. /\ proc[t].pc = "lock" /\ mutex = Nobody /\ mutex' = t
          /\ proc' = [proc EXCEPT ![t].pc = "act"] /\ UNCHANGED <<windows, steps, active, timer, led>>
      BY <1>3 DEF RunnerLock, At, Goto
    <2>2. TypeOK'
      BY <1>0, <2>1, ProcessTypes DEF TypeOK, Guarded
    <2>3. MutexInv' /\ CallInv' /\ RunnerInv'
      BY <1>0, <2>1 DEF MutexInv, CallInv, RunnerInv, Process
    <2> QED BY <2>1, <2>2, <2>3
  <1>4. CASE RunnerTimeout(t)
    <2>1. /\ proc[t].pc = "lock" /\ timer' = TRUE /\ proc' = [proc EXCEPT ![t] = Idle]
          /\ UNCHANGED <<windows, steps, active, mutex, led>>
      BY <1>4 DEF RunnerTimeout, At, Return
    <2>2. TypeOK'
      BY <1>0, <2>1, ProcessTypes DEF TypeOK
    <2>3. MutexInv' /\ CallInv' /\ RunnerInv'
      BY <1>0, <2>1, ProcessTypes DEF MutexInv, CallInv, RunnerInv
    <2> QED BY <2>1, <2>2, <2>3
  <1>5. ASSUME proc[t].pc = "act"
        PROVE  /\ mutex = t /\ proc[t].blink \in Blinks /\ proc[t].blink = active
               /\ steps[active] # LED_BLINK_STOP
               /\ Runs(t) => \A u \in Tasks \ {t} : proc[u].pc \notin {"update", "advance", "lock", "act"}
    BY <1>0, <1>5, Alone DEF MutexInv, RunnerInv
  <1>6. CASE RunnerLoop(t)
    <2> DEFINE l == proc[t].blink
    <2>1. /\ proc[t].pc = "act" /\ Runs(t) /\ mutex' = Nobody
          /\ steps' = [steps EXCEPT ![l] = 0]
          /\ proc' = [proc EXCEPT ![t].pc = "loop"] /\ UNCHANGED <<windows, active, timer, led>>
      BY <1>6 DEF RunnerLoop, At, Goto
    <2>2. Unfinished(steps') = Unfinished(steps)
      BY <1>5, <2>1 DEF Unfinished, LED_BLINK_STOP, TypeOK
    <2>3. active' = Switched(steps')
      BY <2>1, <2>2, SwitchedSame
    <2>4. TypeOK'
      <3>1. steps' \in [Blinks -> Int] /\ \A k \in Blinks : steps'[k] \in LED_BLINK_STOP .. Len(Lists[k])
        BY <1>5, <2>1, ListLengths DEF TypeOK, LED_BLINK_STOP
      <3>2. proc' \in [Tasks -> Process]
        BY <1>0, <2>1, ProcessTypes
      <3> QED BY <2>1, <3>1, <3>2 DEF TypeOK
    <2>5. MutexInv' /\ CallInv' /\ RunnerInv'
      BY <1>0, <1>5, <2>1 DEF MutexInv, CallInv, RunnerInv, Process
    <2> QED BY <2>2, <2>3, <2>4, <2>5 DEF Unfinished
  <1>7. CASE RunnerStop(t)
    <2> DEFINE l == proc[t].blink
    <2>1. /\ proc[t].pc = "act" /\ Runs(t) /\ mutex' = Nobody
          /\ steps' = [steps EXCEPT ![l] = LED_BLINK_STOP] /\ active' = Switched(steps')
          /\ proc' = [proc EXCEPT ![t].pc = "loop"] /\ UNCHANGED <<windows, timer, led>>
      BY <1>7 DEF RunnerStop, At, Goto
    <2>2. \A k \in Blinks : steps[k] = LED_BLINK_STOP => steps'[k] = LED_BLINK_STOP
      BY <1>5, <2>1 DEF TypeOK
    <2>3. TypeOK'
      <3>1. steps' \in [Blinks -> Int] /\ \A k \in Blinks : steps'[k] \in LED_BLINK_STOP .. Len(Lists[k])
        BY <1>5, <2>1, ListLengths DEF TypeOK, LED_BLINK_STOP
      <3>2. proc' \in [Tasks -> Process]
        BY <1>0, <2>1, ProcessTypes
      <3>3. active' \in Blinks \cup {NULL_ACTIVE_BLINK}
        BY <2>1, SwitchedType
      <3> QED BY <2>1, <3>1, <3>2, <3>3 DEF TypeOK
    <2>4. MutexInv' /\ CallInv' /\ RunnerInv'
      BY <1>0, <1>5, <2>1 DEF MutexInv, CallInv, RunnerInv, Process
    <2> QED BY <2>1, <2>2, <2>3, <2>4
  <1>8. CASE RunnerHold(t)
    <2>1. /\ proc[t].pc = "act" /\ Runs(t) /\ mutex' = Nobody /\ timer' = TRUE /\ led' \in {"on", "off"}
          /\ proc' = [proc EXCEPT ![t] = Idle] /\ UNCHANGED <<windows, steps, active>>
      BY <1>8 DEF RunnerHold, At, Return
    <2>2. TypeOK'
      BY <1>0, <2>1, ProcessTypes DEF TypeOK
    <2>3. MutexInv' /\ CallInv' /\ RunnerInv'
      BY <1>0, <1>5, <2>1, ProcessTypes DEF MutexInv, CallInv, RunnerInv
    <2> QED BY <2>1, <2>2, <2>3
  <1>9. CASE RunnerFlash(t)
    <2>1. /\ proc[t].pc = "act" /\ Runs(t) /\ mutex' = Nobody /\ led' = "on"
          /\ proc' = [proc EXCEPT ![t].pc = "loop"] /\ UNCHANGED <<windows, steps, active, timer>>
      BY <1>9 DEF RunnerFlash, At, Goto
    <2>2. TypeOK'
      BY <1>0, <2>1, ProcessTypes DEF TypeOK
    <2>3. MutexInv' /\ CallInv' /\ RunnerInv'
      BY <1>0, <1>5, <2>1 DEF MutexInv, CallInv, RunnerInv, Process
    <2> QED BY <2>1, <2>2, <2>3
  <1> QED BY <1>1, <1>2, <1>3, <1>4, <1>6, <1>7, <1>8, <1>9 DEF Runner

-----------------------------------------------------------------------------
(* Every step of the indicator keeps the invariant. *)
LEMMA NextIInv ==
  ASSUME Undisturbed, IInv, [Next]_vars
  PROVE  IInv'
  <1>1. CASE UNCHANGED vars
    <2>1. UNCHANGED <<windows, steps, active, mutex, timer, led, proc>>
      BY <1>1 DEF vars
    <2>2. TypeOK' /\ MutexInv' /\ CallInv' /\ RunnerInv'
      BY <2>1 DEF IInv, TypeOK, MutexInv, CallInv, RunnerInv
    <2>3. active' = Switched(steps')
      BY <2>1 DEF IInv
    <2> QED BY <2>2, <2>3 DEF IInv
  <1>2. CASE Next
    BY <1>2, CallerSteps, RunnerSteps, ExpireStep DEF Next
  <1> QED BY <1>1, <1>2

(* The invariant holds in every state of an undisturbed indicator. *)
THEOREM InductiveInvariant == ASSUME Undisturbed PROVE Spec => []IInv
  <1>1. IInv /\ [Next]_vars => IInv'
    BY NextIInv
  <1> QED BY InitIInv, <1>1, PTL DEF Spec

(* Whatever the lists and however many tasks start and stop them, the list  *)
(* that is shown is the unfinished one of the highest priority              *)
(* (_blink_list_switch is called in every place that needs it).             *)
THEOREM PriorityCorrect == ASSUME Undisturbed PROVE Spec => []PriorityKept
  <1>1. IInv => PriorityKept
    BY DEF IInv, PriorityKept
  <1> QED BY InductiveInvariant, <1>1, PTL

(* A list that was stopped, or has ended, stays so until                    *)
(* oblfr_indicator_start is called for it: no runner brings it back.        *)
THEOREM StopHoldsCorrect == ASSUME Undisturbed PROVE Spec => StopHolds
  <1> DEFINE Held == \A l \in Blinks :
        steps[l] = LED_BLINK_STOP /\ steps'[l] # LED_BLINK_STOP =>
          \E t \in Callers : proc[t].pc = "update" /\ proc[t].op = "start" /\ proc[t].list = l
  <1>1. IInv /\ [Next]_vars => [Held]_vars
    <2> SUFFICES ASSUME IInv, Next PROVE Held
      OBVIOUS
    <2>1. CASE UNCHANGED steps
      BY <2>1
    <2>2. ASSUME NEW t \in Callers, Update(t) PROVE Held
      <3>1. /\ steps' = [steps EXCEPT ![proc[t].list] = IF proc[t].op = "start" THEN 0 ELSE LED_BLINK_STOP]
            /\ proc[t].pc = "update" /\ t \in Tasks
        BY <2>2 DEF Update, At, Tasks
      <3>2. steps \in [Blinks -> Int] /\ proc[t].list \in Blinks
        BY <3>1 DEF IInv, TypeOK, CallInv
      <3> QED BY <2>2, <3>1, <3>2
    <2>3. ASSUME NEW t \in Tasks, Runner(t) PROVE Held
      BY <2>3, RunnerSteps
    <2> QED BY <2>1, <2>2, <2>3 DEF Next, Caller, oblfr_indicator_start, oblfr_indicator_stop, Call,
                                     TakeMutex, Check, Expire
  <1> QED BY InductiveInvariant, <1>1, PTL DEF Spec, StopHolds

-----------------------------------------------------------------------------
(* Lists are started and stopped by one task. *)
OneCaller == \A c, d \in Callers : c = d

(* One task at most sees to it that a list that is active goes on. *)
LEMMA DrivenStep ==
  ASSUME Undisturbed, OneCaller, IInv, Driven, [Next]_vars
  PROVE  Driven'
  <1> DEFINE Drives(t) == \/ proc[t].pc \in {"loop", "advance", "lock", "act"}
                          \/ proc[t].pc = "check" /\ proc[t].list = active
  <1>0. proc \in [Tasks -> Process]
    BY DEF IInv, TypeOK
  <1>1. ASSUME NEW t \in Tasks, NEW p, proc' = [proc EXCEPT ![t] = p],
               timer => timer', active' = active, ~Drives(t)
        PROVE  Driven'
    <2> SUFFICES ASSUME active # NULL_ACTIVE_BLINK, ~timer
                 PROVE  \E u \in Tasks : Drives(u)'
      BY <1>1 DEF Driven
    <2>1. PICK u \in Tasks : Drives(u)
      BY DEF Driven
    <2>2. proc'[u] = proc[u]
      BY <1>0, <1>1, <2>1
    <2> QED BY <1>1, <2>1, <2>2
  <1>2. ASSUME NEW t \in Tasks, proc'[t].pc = "loop" \/ proc'[t].pc = "advance" \/ proc'[t].pc = "lock" \/ proc'[t].pc = "act"
        PROVE  Driven'
    BY <1>2 DEF Driven
  <1>3. CASE UNCHANGED vars
    BY <1>3 DEF vars, Driven
  <1>4. ASSUME NEW t \in Callers, NEW l \in Blinks, NEW op, Call(t, op, l)
        PROVE  Driven'
    <2>1. t \in Tasks /\ proc[t].pc = "idle" /\ active' = active /\ timer' = timer
      BY <1>4 DEF Call, At, Tasks
    <2>2. \E p : proc' = [proc EXCEPT ![t] = p]
      BY <1>4 DEF Call
    <2> QED BY <1>1, <2>1, <2>2
  <1>5. ASSUME NEW t \in Callers, TakeMutex(t)
        PROVE  Driven'
    <2>1. t \in Tasks /\ proc[t].pc = "take" /\ active' = active /\ timer' = timer
      BY <1>5 DEF TakeMutex, At, Tasks
    <2>2. proc' = [proc EXCEPT ![t] = [proc[t] EXCEPT !.pc = "update"]]
      BY <1>0, <1>5, <2>1 DEF TakeMutex, Goto
    <2> QED BY <1>1, <2>1, <2>2
  <1>6. ASSUME NEW t \in Callers, Update(t)
        PROVE  Driven'
    <2> DEFINE l == proc[t].list
    <2>1. /\ t \in Tasks /\ proc[t].pc = "update" /\ active' = Switched(steps') /\ timer' = timer
          /\ steps' = [steps EXCEPT ![l] = IF proc[t].op = "start" THEN 0 ELSE LED_BLINK_STOP]
          /\ proc' = [proc EXCEPT ![t].pc = "check"]
      BY <1>6 DEF Update, At, Goto, Tasks
    <2>2. proc'[t].pc = "check" /\ proc'[t].list = l /\ \A u \in Tasks \ {t} : proc'[u] = proc[u]
      BY <1>0, <2>1 DEF Process
    <2>3. CASE active' = l
      BY <2>1, <2>2, <2>3 DEF Driven
    <2>4. CASE active' # l /\ active' # NULL_ACTIVE_BLINK
      <3>1. active' \in Blinks /\ steps'[active'] # LED_BLINK_STOP
        BY <2>1, <2>4, SwitchedType DEF Unfinished
      <3>2. steps[active'] # LED_BLINK_STOP
        BY <2>1, <2>4, <3>1 DEF IInv, TypeOK
      <3>3. active' \in Unfinished(steps)
        BY <3>1, <3>2 DEF Unfinished
      <3>4. active # NULL_ACTIVE_BLINK
        BY <3>3, SwitchedType DEF IInv
      <3>5. timer \/ \E u \in Tasks : Drives(u)
        BY <3>4 DEF Driven
      <3>6. ASSUME NEW u \in Tasks, Drives(u)
            PROVE  u # t /\ proc[u].pc # "check"
        BY <2>1, <3>6 DEF IInv, CallInv, OneCaller
      <3>7. ASSUME NEW u \in Tasks, Drives(u)
            PROVE  proc'[u].pc \in {"loop", "advance", "lock", "act"}
        BY <2>2, <3>6, <3>7
      <3> QED BY <2>1, <3>5, <3>7 DEF Driven
    <2> QED BY <2>3, <2>4 DEF Driven
  <1>7. ASSUME NEW t \in Callers, Check(t)
        PROVE  Driven'
    <2>1. t \in Tasks /\ proc[t].pc = "check" /\ active' = active /\ timer' = timer
      BY <1>7 DEF Check, At, Tasks
    <2>2. CASE active = proc[t].list
      <3>1. proc'[t].pc = "loop"
        BY <1>0, <1>7, <2>1, <2>2 DEF Check, Goto, Process
      <3> QED BY <1>2, <2>1, <3>1
    <2>3. CASE active # proc[t].list
      <3>1. proc' = [proc EXCEPT ![t] = Idle]
        BY <1>7, <2>3 DEF Check, Return
      <3> QED BY <1>1, <2>1, <2>3, <3>1
    <2> QED BY <2>2, <2>3
  <1>8. ASSUME NEW t \in Tasks, Runner(t)
        PROVE  Driven'
    <2>1. CASE RunnerRead(t) /\ active = NULL_ACTIVE_BLINK
      BY <2>1 DEF RunnerRead, Driven
    <2>2. CASE RunnerRead(t) /\ active # NULL_ACTIVE_BLINK
      <3>1. proc'[t].pc = "advance"
        BY <1>0, <2>2 DEF RunnerRead, Process
      <3> QED BY <1>2, <3>1
    <2>3. CASE RunnerTimeout(t) \/ RunnerHold(t)
      BY <2>3 DEF RunnerTimeout, RunnerHold, Driven
    <2>4. CASE RunnerAdvance(t)
      <3>1. proc'[t].pc = "lock"
        BY <1>0, <2>4 DEF RunnerAdvance, Goto, Process
      <3> QED BY <1>2, <3>1
    <2>5. CASE RunnerLock(t)
      <3>1. proc'[t].pc = "act"
        BY <1>0, <2>5 DEF RunnerLock, Goto, Process
      <3> QED BY <1>2, <3>1
    <2>6. CASE RunnerLoop(t) \/ RunnerStop(t) \/ RunnerFlash(t)
      <3>1. proc'[t].pc = "loop"
        BY <1>0, <2>6 DEF RunnerLoop, RunnerStop, RunnerFlash, Goto, Process
      <3> QED BY <1>2, <3>1
    <2> QED BY <1>8, <2>1, <2>2, <2>3, <2>4, <2>5, <2>6 DEF Runner
  <1>9. CASE Expire
    <2>1. proc'[Service].pc = "loop" /\ Service \in Tasks
      BY <1>0, <1>9 DEF Expire, Goto, Process, Tasks
    <2> QED BY <1>2, <2>1
  <1> QED BY <1>3, <1>4, <1>5, <1>6, <1>7, <1>8, <1>9
          DEF Next, Caller, oblfr_indicator_start, oblfr_indicator_stop

(* While a list is active somebody is going to show its next step, if one   *)
(* task alone starts and stops the lists: the timer runs, or a task is on   *)
(* its way into _blink_list_runner or inside it.                            *)
THEOREM DrivenCorrect == ASSUME Undisturbed, OneCaller PROVE Spec => []Driven
  <1>1. Init => Driven
    BY DEF Init, Driven
  <1>2. IInv /\ Driven /\ [Next]_vars => Driven'
    BY DrivenStep
  <1> QED BY InductiveInvariant, <1>1, <1>2, PTL DEF Spec

-----------------------------------------------------------------------------
(* What a runner has in hand.  Before it counts, the step it has read is    *)
(* the list's and lies in the list; after that the list is one step further.*)
(* A list is past its end only while its last step is being shown.          *)
InHand(t) ==
  /\ proc[t].pc = "advance" =>
       InList(proc[t].blink, proc[t].step) /\ steps[proc[t].blink] = proc[t].step
  /\ proc[t].pc \in {"lock", "act"} =>
       InList(proc[t].blink, proc[t].step) /\ steps[proc[t].blink] = proc[t].step + 1
PastEnd ==
  \A l \in Blinks : steps[l] = Len(Lists[l]) =>
    \E t \in Tasks : proc[t].pc \in {"lock", "act"} /\ proc[t].blink = l

(* With no interruption at all, one task at a time is in a guarded stretch. *)
CalmInv ==
  Calm => /\ \A t, u \in Tasks : proc[t].pc \in Guarded /\ proc[u].pc \in Guarded => t = u
          /\ \A t \in Tasks : InHand(t)
          /\ PastEnd

(* The last step of a list is a loop or a stop, so that a runner that shows *)
(* anything else has more steps of the list before it.                      *)
LEMMA NotLast ==
  ASSUME NEW l \in Blinks, NEW i \in Int, InList(l, i), Lists[l][i + 1] \notin {"loop", "stop"}
  PROVE  i + 1 < Len(Lists[l])
  <1>1. Len(Lists[l]) \in Nat /\ i + 1 <= Len(Lists[l])
    BY ListLengths DEF InList
  <1>2. i + 1 # Len(Lists[l])
    BY ListsAssumption
  <1> QED BY <1>1, <1>2

(* A calm step is one task's: the others are outside every guarded stretch  *)
(* and stay where they are, so that the invariant is a matter of that task. *)
LEMMA CalmLocal ==
  ASSUME NEW t \in Tasks, \A u \in Tasks \ {t} : proc'[u] = proc[u] /\ proc[u].pc \notin Guarded,
         InHand(t)',
         \A l \in Blinks : steps'[l] = Len(Lists[l]) => proc'[t].pc \in {"lock", "act"} /\ proc'[t].blink = l
  PROVE  CalmInv'
  <1>1. \A u \in Tasks \ {t} : proc'[u].pc \notin Guarded /\ InHand(u)'
    BY DEF InHand, Guarded
  <1>2. PastEnd'
    BY DEF PastEnd
  <1> QED BY <1>1, <1>2 DEF CalmInv

(* A task that moves on keeps what it has read. *)
LEMMA GotoKeeps ==
  ASSUME proc \in [Tasks -> Process], NEW t \in Tasks, NEW pc, Goto(t, pc)
  PROVE  \E p : /\ proc' = [proc EXCEPT ![t] = p]
                /\ p.pc = pc /\ p.blink = proc[t].blink /\ p.step = proc[t].step
  <1> DEFINE p == [proc[t] EXCEPT !.pc = pc]
  <1>1. proc' = [proc EXCEPT ![t] = p]
    BY DEF Goto
  <1>2. p.pc = pc /\ p.blink = proc[t].blink /\ p.step = proc[t].step
    BY DEF Process
  <1> QED BY <1>1, <1>2

(* With no interruption at all, every step of a list that is read is in it. *)
LEMMA CalmStep ==
  ASSUME Undisturbed, IInv, CalmInv, [Next]_vars
  PROVE  CalmInv'
  <1> SUFFICES ASSUME Calm, Next PROVE CalmInv'
    <2>1. CASE UNCHANGED vars
      BY <2>1 DEF vars, CalmInv, Calm, InHand, PastEnd
    <2>2. Next => windows' = windows
      BY DEF Next, Caller, Runner, oblfr_indicator_start, oblfr_indicator_stop, Call, TakeMutex, Update,
             Check, Expire, RunnerRead, RunnerAdvance, RunnerLock, RunnerTimeout, RunnerLoop, RunnerStop,
             RunnerHold, RunnerFlash
    <2> QED BY <2>1, <2>2 DEF CalmInv, Calm
  <1>0. /\ proc \in [Tasks -> Process] /\ steps \in [Blinks -> Int]
        /\ \A l \in Blinks : steps[l] \in LED_BLINK_STOP .. Len(Lists[l]) /\ Len(Lists[l]) \in Nat \ {0}
    BY ListLengths DEF IInv, TypeOK
  <1>1. ASSUME NEW t \in Tasks, Runs(t)
        PROVE  /\ \A u \in Tasks \ {t} : proc[u].pc \notin Guarded
               /\ \A l \in Blinks : steps[l] = Len(Lists[l]) => proc[t].pc \in {"lock", "act"} /\ proc[t].blink = l
               /\ InHand(t)
    BY <1>1 DEF Calm, Runs, CalmInv, PastEnd, Guarded
  (* A step that does not run a list neither counts nor reads steps. *)
  <1>2. ASSUME NEW t \in Tasks, Runs(t), NEW p, proc' = [proc EXCEPT ![t] = p],
               p.pc \notin {"advance", "lock", "act"}, proc[t].pc \notin {"lock", "act"},
               \A l \in Blinks : steps'[l] = Len(Lists[l]) => steps[l] = Len(Lists[l])
        PROVE  CalmInv'
    <2>1. \A u \in Tasks \ {t} : proc'[u] = proc[u] /\ proc[u].pc \notin Guarded
      BY <1>0, <1>1, <1>2
    <2>2. InHand(t)'
      BY <1>0, <1>2 DEF InHand
    <2>3. \A l \in Blinks : steps'[l] # Len(Lists[l])
      BY <1>1, <1>2
    <2> QED BY <2>1, <2>2, <2>3, CalmLocal
  <1>3. ASSUME NEW t \in Callers, NEW l \in Blinks, NEW op, Call(t, op, l)
        PROVE  CalmInv'
    <2>1. t \in Tasks /\ Runs(t) /\ proc[t].pc = "idle" /\ steps' = steps
      BY <1>3 DEF Call, At, Tasks
    <2>2. PICK p : proc' = [proc EXCEPT ![t] = p] /\ p.pc = "take"
      <3> DEFINE p == [pc |-> "take", op |-> op, list |-> l, blink |-> 0, step |-> 0]
      <3>1. proc' = [proc EXCEPT ![t] = p]
        BY <1>3 DEF Call
      <3>2. p.pc = "take"
        OBVIOUS
      <3> QED BY <3>1, <3>2
    <2> QED BY <1>2, <2>1, <2>2
  <1>4. ASSUME NEW t \in Callers, TakeMutex(t) \/ Check(t)
        PROVE  CalmInv'
    <2>1. t \in Tasks /\ Runs(t) /\ proc[t].pc \in {"take", "check"} /\ steps' = steps
      BY <1>4 DEF TakeMutex, Check, At, Tasks
    <2>2. PICK p : proc' = [proc EXCEPT ![t] = p] /\ p.pc \in {"update", "loop", "idle"}
      BY <1>0, <1>4, <2>1 DEF TakeMutex, Check, Goto, Return, Idle, Process
    <2> QED BY <1>2, <2>1, <2>2
  <1>5. ASSUME NEW t \in Callers, Update(t)
        PROVE  CalmInv'
    <2>1. t \in Tasks /\ Runs(t) /\ proc[t].pc = "update"
      BY <1>5 DEF Update, At, Tasks
    <2>2. PICK p : proc' = [proc EXCEPT ![t] = p] /\ p.pc = "check"
      BY <1>0, <1>5, <2>1, GotoKeeps DEF Update
    <2>3. \A l \in Blinks : steps'[l] = Len(Lists[l]) => steps[l] = Len(Lists[l])
      <3>1. proc[t].list \in Blinks
        BY <2>1 DEF IInv, CallInv
      <3> QED BY <1>0, <1>5, <3>1 DEF Update, LED_BLINK_STOP
    <2> QED BY <1>2, <2>1, <2>2, <2>3
  <1>6. CASE Expire
    <2>1. Service \in Tasks /\ Runs(Service) /\ proc[Service].pc = "idle" /\ steps' = steps
      BY <1>6 DEF Expire, At, Tasks
    <2>2. PICK p : proc' = [proc EXCEPT ![Service] = p] /\ p.pc = "loop"
      BY <1>0, <1>6, <2>1, GotoKeeps DEF Expire
    <2> QED BY <1>2, <2>1, <2>2
  <1>7. ASSUME NEW t \in Tasks, RunnerRead(t)
        PROVE  CalmInv'
    <2>1. Runs(t) /\ proc[t].pc = "loop" /\ steps' = steps
      BY <1>7 DEF RunnerRead, At
    <2>2. CASE active = NULL_ACTIVE_BLINK
      <3>1. proc' = [proc EXCEPT ![t] = Idle] /\ Idle.pc = "idle"
        BY <1>7, <2>2, ProcessTypes DEF RunnerRead, Return
      <3> QED BY <1>2, <2>1, <3>1
    <2>3. CASE active # NULL_ACTIVE_BLINK
      <3>1. active \in Blinks /\ steps[active] # LED_BLINK_STOP
        BY <2>3, SwitchedType DEF IInv, Unfinished
      <3>2. \A l \in Blinks : steps[l] # Len(Lists[l])
        BY <1>1, <2>1
      <3>3. InList(active, steps[active])
        BY <1>0, <3>1, <3>2 DEF InList, LED_BLINK_STOP
      <3> DEFINE p == [proc[t] EXCEPT !.pc = "advance", !.blink = active, !.step = steps[active]]
      <3>4. proc' = [proc EXCEPT ![t] = p] /\ p.pc = "advance" /\ p.blink = active /\ p.step = steps[active]
        <4>1. proc' = [proc EXCEPT ![t] = p]
          BY <1>0, <1>7, <2>3 DEF RunnerRead
        <4>2. p.pc = "advance" /\ p.blink = active /\ p.step = steps[active]
          BY <1>0 DEF Process
        <4> QED BY <4>1, <4>2
      <3> HIDE DEF p
      <3>5. proc'[t] = p /\ \A u \in Tasks \ {t} : proc'[u] = proc[u] /\ proc[u].pc \notin Guarded
        BY <1>0, <1>1, <2>1, <3>4
      <3>6. InHand(t)'
        BY <2>1, <3>3, <3>4, <3>5 DEF InHand
      <3> QED BY <2>1, <3>2, <3>5, <3>6, CalmLocal
    <2> QED BY <2>2, <2>3
  <1>8. ASSUME NEW t \in Tasks, RunnerAdvance(t)
        PROVE  CalmInv'
    <2> DEFINE l == proc[t].blink
    <2>1. /\ Runs(t) /\ proc[t].pc = "advance"
          /\ steps' = [steps EXCEPT ![l] = IF @ < Len(Lists[l]) THEN @ + 1 ELSE @]
      BY <1>8 DEF RunnerAdvance, At
    <2>2. l \in Blinks /\ InList(l, proc[t].step) /\ steps[l] = proc[t].step
      BY <1>1, <2>1 DEF InHand, IInv, RunnerInv
    <2>3. steps'[l] = proc[t].step + 1 /\ \A k \in Blinks \ {l} : steps'[k] = steps[k]
      BY <1>0, <2>1, <2>2 DEF InList
    <2>4. PICK p : proc' = [proc EXCEPT ![t] = p] /\ p.pc = "lock" /\ p.blink = l /\ p.step = proc[t].step
      BY <1>0, <1>8, <2>1, GotoKeeps DEF RunnerAdvance
    <2>5. proc'[t] = p /\ \A u \in Tasks \ {t} : proc'[u] = proc[u] /\ proc[u].pc \notin Guarded
      BY <1>0, <1>1, <2>1, <2>4
    <2>6. InHand(t)'
      BY <2>2, <2>3, <2>4, <2>5 DEF InHand
    <2>7. \A k \in Blinks : steps'[k] = Len(Lists[k]) => k = l
      BY <1>1, <2>1, <2>3
    <2> QED BY <2>4, <2>5, <2>6, <2>7, CalmLocal
  <1>9. ASSUME NEW t \in Tasks, RunnerLock(t)
        PROVE  CalmInv'
    <2>1. Runs(t) /\ proc[t].pc = "lock" /\ steps' = steps
      BY <1>9 DEF RunnerLock, At
    <2>2. PICK p : proc' = [proc EXCEPT ![t] = p] /\ p.pc = "act" /\ p.blink = proc[t].blink /\ p.step = proc[t].step
      BY <1>0, <1>9, <2>1, GotoKeeps DEF RunnerLock
    <2>3. proc'[t] = p /\ \A u \in Tasks \ {t} : proc'[u] = proc[u] /\ proc[u].pc \notin Guarded
      BY <1>0, <1>1, <2>1, <2>2
    <2>4. InHand(t)'
      BY <1>1, <2>1, <2>2, <2>3 DEF InHand
    <2>5. \A k \in Blinks : steps'[k] = Len(Lists[k]) => proc'[t].pc = "act" /\ proc'[t].blink = k
      BY <1>1, <2>1, <2>2, <2>3
    <2> QED BY <2>3, <2>4, <2>5, CalmLocal
  (* Whoever has the mutex is in a guarded stretch: nobody waits for it. *)
  <1>10. ASSUME NEW t \in Tasks, RunnerTimeout(t)
         PROVE  FALSE
    <2>1. Runs(t) /\ proc[t].pc = "lock" /\ mutex # Nobody
      BY <1>10 DEF RunnerTimeout, At
    <2>2. mutex \in Tasks /\ proc[mutex].pc \in {"update", "act"}
      BY <2>1 DEF IInv, TypeOK, MutexInv
    <2> QED BY <1>1, <2>1, <2>2 DEF Guarded
  <1>11. ASSUME NEW t \in Tasks, RunnerLoop(t) \/ RunnerStop(t) \/ RunnerHold(t) \/ RunnerFlash(t)
         PROVE  CalmInv'
    <2> DEFINE l == proc[t].blink
               i == proc[t].step
    <2>1. Runs(t) /\ proc[t].pc = "act"
      BY <1>11 DEF RunnerLoop, RunnerStop, RunnerHold, RunnerFlash, At
    <2>2. l \in Blinks /\ InList(l, i) /\ steps[l] = i + 1 /\ i \in Int
      BY <1>0, <1>1, <2>1 DEF InHand, IInv, RunnerInv, Process
    <2>3. StepKinds(l, i) = {Lists[l][i + 1]}
      BY <2>2 DEF StepKinds
    <2>4. \A k \in Blinks : steps'[k] # Len(Lists[k])
      <3>1. CASE RunnerLoop(t) \/ RunnerStop(t)
        <4>1. steps'[l] \in {0, LED_BLINK_STOP} /\ \A k \in Blinks \ {l} : steps'[k] = steps[k]
          BY <1>0, <2>2, <3>1 DEF RunnerLoop, RunnerStop
        <4> QED BY <1>0, <1>1, <2>1, <4>1 DEF LED_BLINK_STOP
      <3>2. CASE RunnerHold(t) \/ RunnerFlash(t)
        <4>1. steps' = steps /\ Lists[l][i + 1] \in {"on", "off", "flash"}
          BY <2>3, <3>2 DEF RunnerHold, RunnerFlash
        <4>2. i + 1 < Len(Lists[l])
          BY <2>2, <4>1, NotLast
        <4>3. steps'[l] # Len(Lists[l])
          BY <1>0, <2>2, <4>1, <4>2
        <4> QED BY <1>1, <2>1, <4>1, <4>3
      <3> QED BY <1>11, <3>1, <3>2
    <2>5. PICK p : proc' = [proc EXCEPT ![t] = p] /\ p.pc \in {"loop", "idle"}
      BY <1>0, <1>11, <2>1 DEF RunnerLoop, RunnerStop, RunnerHold, RunnerFlash, Goto, Return, Idle, Process
    <2>6. proc'[t] = p /\ \A u \in Tasks \ {t} : proc'[u] = proc[u] /\ proc[u].pc \notin Guarded
      BY <1>0, <1>1, <2>1, <2>5
    <2>7. InHand(t)'
      BY <2>5, <2>6 DEF InHand
    <2> QED BY <2>4, <2>6, <2>7, CalmLocal
  <1> QED BY <1>3, <1>4, <1>5, <1>6, <1>7, <1>8, <1>9, <1>10, <1>11
          DEF Next, Caller, Runner, oblfr_indicator_start, oblfr_indicator_stop

(* A runner that is never kept from the mutex reads no step beyond the end  *)
(* of a list: the counter that _blink_list_runner advances before it takes  *)
(* the mutex passes the end only while the last step is being shown.        *)
THEOREM StepsInListCorrect == ASSUME Undisturbed PROVE Spec => []StepsInList
  <1>1. Init => CalmInv
    <2> SUFFICES ASSUME Init PROVE CalmInv
      OBVIOUS
    <2>1. \A t \in Tasks : proc[t].pc = "idle"
      BY DEF Init, Idle
    <2>2. \A l \in Blinks : steps[l] # Len(Lists[l])
      BY ListLengths DEF Init, LED_BLINK_STOP
    <2> QED BY <2>1, <2>2 DEF CalmInv, InHand, PastEnd, Guarded
  <1>2. IInv /\ CalmInv /\ [Next]_vars => CalmInv'
    BY CalmStep
  <1>3. CalmInv => StepsInList
    BY DEF CalmInv, StepsInList, InHand
  <1> QED BY InductiveInvariant, <1>1, <1>2, <1>3, PTL DEF Spec

=============================================================================
