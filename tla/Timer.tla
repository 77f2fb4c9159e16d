------------------------------- MODULE Timer -------------------------------
(***************************************************************************)
(* The software timers of components/timer: one list of running timers,    *)
(* sorted by expiry, served by a task that the hardware timer wakes up.    *)
(*                                                                         *)
(* Every timer has an owner, a task that calls the API for it; the owners, *)
(* the timer task, the interrupt and oblfr_timer_deinit interleave.  The   *)
(* list is the BSD list the code uses, with its next and previous links,   *)
(* so that a link left behind in a removed timer can do its damage.  What  *)
(* is done under the list lock without giving it up is one step.           *)
(*                                                                         *)
(* Time is relative: when[t] is the time left, negative once t is overdue. *)
(***************************************************************************)
EXTENDS Integers, FiniteSets

CONSTANTS Timers,       \* the timers, each with its owner
          Periodic,     \* those started with oblfr_timer_start_periodic
          Stoppable,    \* those their owner may stop or restart
          Calls,        \* the calls the owners make
          Careful,      \* do owners start, stop and delete only as documented?
          CallbackStops,\* may a callback stop its timer?
          Below,        \* those whose owner has a lower priority than the timer task
          Timeouts,     \* timeouts and periods, in ms
          MaxDelay,     \* the 1000 ms cap of oblfr_recalc_next_fire
          MaxLate       \* bound: the task serves a timer before it is that late

Head == "oblfr_timer_list"
NULL == "NULL"

ASSUME TimersAssumption ==
  /\ IsFiniteSet(Timers) /\ Head \notin Timers /\ NULL \notin Timers
  /\ Periodic \subseteq Timers /\ Stoppable \subseteq Timers
ASSUME TimesAssumption ==
  /\ Timeouts \subseteq Nat \ {0} /\ MaxDelay \in Nat /\ MaxLate \in Nat \ {0}
ASSUME CallsAssumption ==
  /\ Calls \subseteq {"create", "start", "restart", "stop", "delete", "is_active", "deinit"}
  /\ Careful \in BOOLEAN /\ CallbackStops \in BOOLEAN /\ Below \subseteq Timers

VARIABLES next,     \* le_next of every timer, and the list head's lh_first
          prev,     \* le_prev: whose next field points here
          when,     \* timer->when, relative to the current time
          period,   \* timer->period
          repeat,   \* timer->repeat
          alive,    \* the timers created and not yet freed
          armed,    \* history: started, and since then neither stopped nor expired
          lock,     \* who holds oblfr_timer_list_lock over several steps
          comp,     \* the compare value of the hardware timer, in ms
          irq,      \* is its interrupt enabled?
          notified, \* the notification of the timer task
          task,     \* the timer task: control point, t and next
          own,      \* the owners: control point, call and argument
          deinit    \* oblfr_timer_deinit: control point, t and next

links == <<next, prev>>
fields == <<when, period, repeat>>
memory == <<links, fields, alive, armed>>
vars == <<memory, lock, comp, irq, notified, task, own, deinit>>

(* timer->when = 0, and the expiry of timers that expired long ago. *)
Past == -MaxLate

-----------------------------------------------------------------------------
(* The list macros *)

(* The list in order: Nth[0] is the head, behind the last timer comes NULL. *)
Nth ==
  LET nth[k \in 0 .. Cardinality(Timers) + 1] ==
        IF k = 0 THEN Head ELSE IF nth[k - 1] = NULL THEN NULL ELSE next[nth[k - 1]]
  IN  nth
Positions == 1 .. Cardinality(Timers) + 1
Listed == {Nth[k] : k \in Positions} \ {NULL}

(* LIST_INSERT_HEAD and LIST_INSERT_AFTER *)
InsertAfter(p, t) ==
  /\ next' = [next EXCEPT ![p] = t, ![t] = next[p]]
  /\ prev' = [x \in Timers |-> IF x = t THEN p ELSE IF x = next[p] THEN t ELSE prev[x]]
(* Mutant: the timer behind the removed one keeps pointing back to it. *)
LIST_REMOVE_oneway(t) ==
  /\ next' = [next EXCEPT ![prev[t]] = next[t]]
  /\ UNCHANGED prev

(* The links of the removed timer stay as they are. *)
LIST_REMOVE(t) ==
  /\ next' = [next EXCEPT ![prev[t]] = next[t]]
  /\ prev' = [x \in Timers |-> IF x = next[t] THEN prev[t] ELSE prev[x]]

(* Mutant: a timer goes in front of those that expire with or before it. *)
Position_unsorted(t, k) == k = 1

(* Where oblfr_timer_insert puts t: before the first timer that expires     *)
(* later, or after the last one.                                            *)
Position(t, k) ==
  /\ Nth[k] # NULL => when[Nth[k]] > when[t]
  /\ \A j \in 1 .. k - 1 : Nth[j] # NULL /\ when[Nth[j]] <= when[t]

-----------------------------------------------------------------------------
(* The critical sections *)
Unlocked == lock = "none"

(* The walk through a list that has become circular does not end. *)
oblfr_timer_insert(t) ==
  /\ Unlocked
  /\ \E k \in Positions : Position(t, k) /\ InsertAfter(Nth[k - 1], t)

oblfr_timer_remove(t) ==
  /\ Unlocked
  /\ LIST_REMOVE(t)
  /\ when' = [when EXCEPT ![t] = Past]
  /\ armed' = armed \ {t}

(* The expiry of the first timer is subtracted as an unsigned number: an    *)
(* overdue timer seems to be far away.                                      *)
Delay(left) == IF left < 0 \/ left > MaxDelay THEN MaxDelay ELSE left
oblfr_recalc_next_fire ==
  /\ Unlocked
  /\ comp' = IF next[Head] = NULL THEN comp ELSE Delay(when[next[Head]]) + 1

-----------------------------------------------------------------------------
Idle == [pc |-> "idle", op |-> "none", arg |-> 0]

Init ==
  /\ next = [t \in Timers \cup {Head} |-> NULL]
  /\ prev = [t \in Timers |-> NULL]
  /\ when = [t \in Timers |-> Past]
  /\ period = [t \in Timers |-> 0]
  /\ repeat = [t \in Timers |-> FALSE]
  /\ alive = {} /\ armed = {}
  /\ lock = "none" /\ comp = MaxDelay /\ irq = TRUE /\ notified = FALSE
  /\ task = [pc |-> "wait", t |-> NULL, next |-> NULL]
  /\ own = [t \in Timers |-> Idle]
  /\ deinit = [pc |-> "none", t |-> NULL, next |-> NULL]

(* The owner of t moves on to pc, or returns from the call; results are not *)
(* kept.                                                                    *)
At(t, pc) == own[t].pc = pc
Goto(t, pc) == own' = [own EXCEPT ![t].pc = pc]
Return(t) == own' = [own EXCEPT ![t] = Idle]
Call(t, op, arg, pc) ==
  /\ op \in Calls /\ At(t, "idle") /\ t \in alive /\ deinit.pc = "none"
  /\ own' = [own EXCEPT ![t] = [pc |-> pc, op |-> op, arg |-> arg]]
  /\ UNCHANGED <<memory, lock, comp, irq, notified, task, deinit>>

oblfr_timer_create(t) ==
  /\ "create" \in Calls /\ At(t, "idle") /\ t \notin alive
  /\ alive' = alive \cup {t}
  /\ next' = [next EXCEPT ![t] = NULL]
  /\ prev' = [prev EXCEPT ![t] = NULL]   \* what malloc left there
  /\ UNCHANGED <<fields, armed, lock, comp, irq, notified, task, own, deinit>>

oblfr_timer_start_once(t) ==
  /\ t \notin Periodic /\ (Careful => t \notin armed)
  /\ \E timeout_ms \in Timeouts : Call(t, "start", timeout_ms, "is_active")
oblfr_timer_start_periodic(t) ==
  /\ t \in Periodic /\ (Careful => t \notin armed)
  /\ \E period_ms \in Timeouts : Call(t, "start", period_ms, "is_active")
oblfr_timer_restart(t) ==
  /\ t \in Stoppable
  /\ Careful => t \in armed
  /\ \E timeout_ms \in Timeouts : Call(t, "restart", timeout_ms, "restart")
(* A timer that was never in the list has no links to remove it by. *)
oblfr_timer_stop(t) ==
  /\ t \in Stoppable /\ prev[t] # NULL
  /\ Careful => t \in armed
  /\ Call(t, "stop", 0, "remove")
oblfr_timer_delete(t) ==
  /\ Careful => t \notin armed
  /\ Call(t, "delete", 0, "is_active")

Active(t) == next[t] # NULL

(* Mutant: a call refused because the timer is active waits instead. *)
oblfr_timer_is_active_waiting(t) ==
  /\ Unlocked
  /\ LET active == Active(t)
     IN  \/ At(t, "restart") /\ IF active THEN Goto(t, "remove") ELSE Return(t)
         \/ /\ At(t, "is_active")
            /\ IF own[t].op = "is_active" THEN Return(t)
               ELSE IF active THEN UNCHANGED own
               ELSE Goto(t, IF own[t].op = "delete" THEN "free" ELSE "start")
  /\ UNCHANGED <<memory, lock, comp, irq, notified, task, deinit>>

(* The owner asks whether its timer is active, on its own account or in one *)
(* of the calls that depend on it.                                          *)
oblfr_timer_is_active(t) ==
  /\ Unlocked
  /\ LET active == Active(t)
     IN  \/ At(t, "restart") /\ IF active THEN Goto(t, "remove") ELSE Return(t)
         \/ /\ At(t, "is_active")
            /\ IF own[t].op = "is_active" \/ active THEN Return(t)
               ELSE Goto(t, IF own[t].op = "delete" THEN "free" ELSE "start")
  /\ UNCHANGED <<memory, lock, comp, irq, notified, task, deinit>>

Query(t) == Call(t, "is_active", 0, "is_active")

StartAt(t) ==
  /\ At(t, "start")
  /\ when' = [when EXCEPT ![t] = own[t].arg]
  /\ period' = [period EXCEPT ![t] = IF t \in Periodic THEN own[t].arg ELSE 0]
  /\ repeat' = [repeat EXCEPT ![t] = t \in Periodic]
  /\ Goto(t, "insert")
  /\ UNCHANGED <<links, alive, armed, lock, comp, irq, notified, task, deinit>>

StartInsert(t) ==
  /\ At(t, "insert")
  /\ oblfr_timer_insert(t)
  /\ armed' = armed \cup {t}
  /\ Goto(t, "recalc")
  /\ UNCHANGED <<fields, alive, lock, comp, irq, notified, task, deinit>>

StopRemove(t) ==
  /\ At(t, "remove")
  /\ oblfr_timer_remove(t)
  /\ Goto(t, IF own[t].op = "stop" THEN "recalc" ELSE "is_active")
  /\ UNCHANGED <<period, repeat, alive, lock, comp, irq, notified, task, deinit>>

Recalc(t) ==
  /\ At(t, "recalc")
  /\ oblfr_recalc_next_fire
  /\ Return(t)
  /\ UNCHANGED <<memory, lock, irq, notified, task, deinit>>

Free(t) ==
  /\ At(t, "free")
  /\ alive' = alive \ {t}
  /\ Return(t)
  /\ UNCHANGED <<links, fields, armed, lock, comp, irq, notified, task, deinit>>

-----------------------------------------------------------------------------
(* The hardware timer runs on and reloads at every match, so its interrupt  *)
(* keeps coming; when exactly is left open.                                 *)
timer_isr ==
  /\ irq /\ ~notified
  /\ notified' = TRUE
  /\ UNCHANGED <<memory, lock, comp, irq, task, own, deinit>>

(* The time left of a running timer, or of one about to be inserted, is     *)
(* exact; the others stay in the past.                                      *)
Tick ==
  /\ deinit.pc = "none" =>
       \A t \in Timers : t \in armed \/ At(t, "insert") => when[t] > Past
  /\ when' = [t \in Timers |-> IF when[t] > Past THEN when[t] - 1 ELSE Past]
  /\ UNCHANGED <<links, period, repeat, alive, armed, lock, comp, irq, notified, task, own, deinit>>

oblfr_timer_task ==
  /\ task.pc = "wait" /\ notified
  /\ notified' = FALSE
  /\ task' = [task EXCEPT !.pc = "lock"]
  /\ UNCHANGED <<memory, lock, comp, irq, own, deinit>>

(* oblfr_timer_process *)
ProcessLock ==
  /\ task.pc = "lock" /\ Unlocked
  /\ lock' = "task"
  /\ task' = [task EXCEPT !.pc = "loop", !.t = next[Head]]
  /\ UNCHANGED <<memory, comp, irq, notified, own, deinit>>

ProcessDone ==
  /\ task.pc = "loop"
  /\ task.t # NULL => when[task.t] > 0
  /\ lock' = "none"
  /\ task' = [pc |-> "recalc", t |-> NULL, next |-> NULL]
  /\ UNCHANGED <<memory, comp, irq, notified, own, deinit>>

(* Mutant: the expired timer stays in the list. *)
ProcessExpired_listed ==
  /\ task.pc = "loop"
  /\ task.t # NULL /\ when[task.t] <= 0
  /\ task' = [task EXCEPT !.pc = "callback", !.next = next[task.t]]
  /\ UNCHANGED <<memory, lock, comp, irq, notified, own, deinit>>

ProcessExpired ==
  /\ task.pc = "loop"
  /\ task.t # NULL /\ when[task.t] <= 0
  /\ task' = [task EXCEPT !.pc = "callback", !.next = next[task.t]]
  /\ LIST_REMOVE(task.t)
  /\ UNCHANGED <<fields, alive, armed, lock, comp, irq, notified, own, deinit>>

(* A timer started with oblfr_timer_start_once is over. *)
Expire(t) == armed' = IF repeat[t] THEN armed ELSE armed \ {t}

(* Mutant: a periodic timer is not put back into the list. *)
ProcessCallback_dropped ==
  /\ task.pc = "callback"
  /\ Expire(task.t)
  /\ task' = [task EXCEPT !.pc = "loop", !.t = task.next]
  /\ UNCHANGED <<links, fields, alive, lock, comp, irq, notified, own, deinit>>

(* The callback runs with the list locked. *)
ProcessCallback ==
  /\ task.pc = "callback"
  /\ Expire(task.t)
  /\ IF repeat[task.t]
       THEN /\ when' = [when EXCEPT ![task.t] = @ + period[task.t]]
            /\ lock' = "none"
            /\ task' = [task EXCEPT !.pc = "insert"]
       ELSE /\ task' = [task EXCEPT !.pc = "loop", !.t = task.next]
            /\ UNCHANGED <<when, lock>>
  /\ UNCHANGED <<links, period, repeat, alive, comp, irq, notified, own, deinit>>

(* A callback that calls oblfr_timer_stop makes the task wait for the lock  *)
(* it holds itself; no step leads on from there.                            *)
CallbackStop ==
  /\ CallbackStops /\ task.pc = "callback"
  /\ task' = [task EXCEPT !.pc = "stop"]
  /\ UNCHANGED <<memory, lock, comp, irq, notified, own, deinit>>

ProcessInsert ==
  /\ task.pc = "insert"
  /\ oblfr_timer_insert(task.t)
  /\ task' = [task EXCEPT !.pc = "relock"]
  /\ UNCHANGED <<fields, alive, armed, lock, comp, irq, notified, own, deinit>>

ProcessRelock ==
  /\ task.pc = "relock" /\ Unlocked
  /\ lock' = "task"
  /\ task' = [task EXCEPT !.pc = "loop", !.t = task.next]
  /\ UNCHANGED <<memory, comp, irq, notified, own, deinit>>

ProcessRecalc ==
  /\ task.pc = "recalc"
  /\ oblfr_recalc_next_fire
  /\ task' = [task EXCEPT !.pc = "wait"]
  /\ UNCHANGED <<memory, lock, irq, notified, own, deinit>>

-----------------------------------------------------------------------------
(* oblfr_timer_deinit, called when no owner is in a call *)
DeinitLock ==
  /\ "deinit" \in Calls /\ deinit.pc = "none" /\ Unlocked
  /\ \A t \in Timers : At(t, "idle")
  /\ lock' = "deinit" /\ irq' = FALSE
  /\ deinit' = [pc |-> "loop", t |-> next[Head], next |-> NULL]
  /\ UNCHANGED <<memory, comp, notified, task, own>>

DeinitNext ==
  /\ deinit.pc = "loop" /\ deinit.t # NULL
  /\ lock' = "none"
  /\ deinit' = [deinit EXCEPT !.pc = "remove", !.next = next[deinit.t]]
  /\ UNCHANGED <<memory, comp, irq, notified, task, own>>

DeinitStop ==
  /\ \/ /\ deinit.pc = "remove"
        /\ oblfr_timer_remove(deinit.t)
        /\ deinit' = [deinit EXCEPT !.pc = "recalc"]
        /\ UNCHANGED comp
     \/ /\ deinit.pc = "recalc"
        /\ oblfr_recalc_next_fire
        /\ deinit' = [deinit EXCEPT !.pc = "relock"]
        /\ UNCHANGED <<links, when, armed>>
  /\ UNCHANGED <<period, repeat, alive, lock, irq, notified, task, own>>

(* Mutant: the task is deleted without taking the list lock again. *)
DeinitRelock_unlocked ==
  /\ deinit.pc = "relock"
  /\ deinit' = [deinit EXCEPT !.pc = "loop", !.t = deinit.next]
  /\ UNCHANGED <<memory, lock, comp, irq, notified, task, own>>

DeinitRelock ==
  /\ deinit.pc = "relock" /\ Unlocked
  /\ lock' = "deinit"
  /\ deinit' = [deinit EXCEPT !.pc = "loop", !.t = deinit.next]
  /\ UNCHANGED <<memory, comp, irq, notified, task, own>>

DeinitDeleteTask ==
  /\ deinit.pc = "loop" /\ deinit.t = NULL
  /\ task' = [pc |-> "deleted", t |-> NULL, next |-> NULL]
  /\ lock' = IF lock = "deinit" THEN "none" ELSE lock
  /\ deinit' = [deinit EXCEPT !.pc = "done"]
  /\ UNCHANGED <<memory, comp, irq, notified, own>>

-----------------------------------------------------------------------------
Owner(t) ==
  \/ oblfr_timer_create(t) \/ oblfr_timer_start_once(t) \/ oblfr_timer_start_periodic(t)
  \/ oblfr_timer_restart(t) \/ oblfr_timer_stop(t) \/ oblfr_timer_delete(t) \/ Query(t)
OwnerStep(t) ==
  \/ oblfr_timer_is_active(t) \/ StartAt(t) \/ StartInsert(t) \/ StopRemove(t) \/ Recalc(t)
  \/ Free(t)
Process ==
  \/ ProcessLock \/ ProcessDone \/ ProcessExpired \/ ProcessCallback \/ CallbackStop
  \/ ProcessInsert \/ ProcessRelock \/ ProcessRecalc
Deinit == DeinitNext \/ DeinitStop \/ DeinitRelock \/ DeinitDeleteTask

(* An owner below the timer task runs while that one rests.  app_main has   *)
(* CONFIG_COMPONENT_SYSTEM_MAIN_TASK_PRIORITY, 5 by default, the timer task *)
(* has 2.                                                                   *)
Rests == task.pc = "wait" /\ ~notified
OwnerRuns(t) == t \in Below => Rests

Next ==
  \/ \E t \in Timers : OwnerRuns(t) /\ (Owner(t) \/ OwnerStep(t))
  \/ DeinitLock \/ Deinit
  \/ timer_isr \/ Tick \/ oblfr_timer_task \/ Process

Spec == Init /\ [][Next]_vars

(* Time passes, the interrupt recurs, and the scheduler runs every task     *)
(* that is ready: a task that waits for the lock gets it in the end.  The   *)
(* interrupt comes at most once in a millisecond, and the timer task is     *)
(* done with the list before the next one.                                  *)
FairSpec ==
  /\ Spec
  /\ WF_vars(Tick) /\ WF_vars(timer_isr) /\ WF_vars(oblfr_timer_task)
  /\ SF_vars(Process) /\ []<>Rests
  /\ \A t \in Timers : SF_vars(OwnerRuns(t) /\ OwnerStep(t))
-----------------------------------------------------------------------------
TypeOK ==
  /\ next \in [Timers \cup {Head} -> Timers \cup {NULL}]
  /\ prev \in [Timers -> Timers \cup {Head, NULL}]
  /\ when \in [Timers -> Int] /\ period \in [Timers -> Nat] /\ repeat \in [Timers -> BOOLEAN]
  /\ alive \subseteq Timers /\ armed \subseteq Timers
  /\ lock \in {"none", "task", "deinit"} /\ comp \in 0 .. MaxDelay + 1
  /\ irq \in BOOLEAN /\ notified \in BOOLEAN
  /\ task \in [pc : {"wait", "lock", "loop", "callback", "stop", "insert", "relock", "recalc",
                     "deleted"},
               t : Timers \cup {NULL}, next : Timers \cup {NULL}]
  /\ own \in [Timers -> [pc : {"idle", "restart", "is_active", "start", "insert", "remove", "recalc",
                                "free"},
                         op : Calls \cup {"none"}, arg : Nat]]
  /\ deinit \in [pc : {"none", "loop", "remove", "recalc", "relock", "done"},
                 t : Timers \cup {NULL}, next : Timers \cup {NULL}]

(* The timer the task has taken out of the list and not yet put back. *)
InFlight == IF task.pc \in {"callback", "stop", "insert"} THEN {task.t} ELSE {}

(* The list holds exactly the timers that are due to fire, each of them     *)
(* once and none of them freed, linked both ways and sorted by expiry       *)
(* (oblfr_timer_insert, oblfr_timer_remove and the unlocking in the middle  *)
(* of oblfr_timer_process); the compare value stays within its cap and all  *)
(* variables in their types.                                                *)
ListIntact ==
  /\ TypeOK
  /\ deinit.pc = "none" =>
       /\ Listed = armed \ InFlight
       /\ armed \subseteq alive
       /\ Nth[Cardinality(Listed) + 1] = NULL
       /\ \A t \in Listed : /\ next[prev[t]] = t
                            /\ next[t] # NULL => prev[next[t]] = t /\ when[t] <= when[next[t]]

(* A callback runs only for a timer that is armed: never after its timer    *)
(* was stopped, and once for a timer started with oblfr_timer_start_once.   *)
FiresOnlyArmed == task.pc = "callback" => task.t \in armed

(* The timer task is never deleted while it holds the list lock: whoever    *)
(* calls the timers after oblfr_timer_deinit does not wait for ever.        *)
NoLostLock == task.pc = "deleted" => lock # "task"

(* Every timer that is started fires or is stopped (the sorted list, the    *)
(* early end of the loop of oblfr_timer_process at the first timer that has *)
(* not expired, and the recurring interrupt).                               *)
Firing(t) == task.pc = "callback" /\ task.t = t
Fires == \A t \in Timers : [](t \in armed => <>(t \notin armed \/ Firing(t)))

(* Every call an owner makes returns (it waits for the list lock with       *)
(* portMAX_DELAY).                                                          *)
CallsReturn == \A t \in Timers : []<>At(t, "idle")
=============================================================================
