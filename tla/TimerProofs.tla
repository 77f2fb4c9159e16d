---------------------------- MODULE TimerProofs ----------------------------
(***************************************************************************)
(* Proofs about Timer, for any number of timers.                           *)
(***************************************************************************)
EXTENDS Timer, FiniteSetTheorems, Least

Links == Timers \cup {Head, NULL}
N == Cardinality(Timers)

(* The walk from the head, as far as it goes. *)
Follows(g, m) == \A k \in 1 .. m : g[k] = IF g[k - 1] = NULL THEN NULL ELSE next[g[k - 1]]
Walk(g, m) == g \in [0 .. m -> Links] /\ g[0] = Head /\ Follows(g, m)

(* The number of timers is a number. *)
LEMMA TimersFinite == N \in Nat
  BY TimersAssumption, FS_CardinalityType DEF N

(* The head of the list and NULL are no timers. *)
LEMMA Names == Head \notin Timers /\ NULL \notin Timers /\ Head # NULL
  BY TimersAssumption DEF Head, NULL

(* A walk can go on for any number of steps. *)
LEMMA WalkExists ==
  ASSUME next \in [Timers \cup {Head} -> Timers \cup {NULL}], NEW m \in Nat
  PROVE  \E g \in [0 .. m -> Links] : Walk(g, m)
  <1> DEFINE S == {n \in Nat : ~\E g \in [0 .. n -> Links] : Walk(g, n)}
  <1> SUFFICES ASSUME S # {} PROVE FALSE
    OBVIOUS
  <1>1. PICK n \in S : \A k \in S : n <= k
    BY LeastExists
  <1>2. CASE n = 0
    <2>1. Walk([k \in 0 .. 0 |-> Head], 0)
      BY DEF Walk, Follows, Links
    <2>2. [k \in 0 .. 0 |-> Head] \in [0 .. 0 -> Links]
      BY DEF Links
    <2> QED BY <1>1, <1>2, <2>1, <2>2
  <1>3. CASE n # 0
    <2>1. n - 1 \in Nat /\ n - 1 \notin S /\ n \in Nat
      BY <1>1, <1>3
    <2>2. PICK g \in [0 .. n - 1 -> Links] : Walk(g, n - 1)
      BY <2>1
    <2> DEFINE last == IF g[n - 1] = NULL THEN NULL ELSE next[g[n - 1]]
               h == [k \in 0 .. n |-> IF k = n THEN last ELSE g[k]]
    <2>3. last \in Links
      BY <2>1, <2>2 DEF Links
    <2>4. h \in [0 .. n -> Links]
      BY <2>1, <2>2, <2>3
    <2>5. \A k \in 0 .. n - 1 : h[k] = g[k]
      BY <2>1
    <2>6. h[n] = last
      BY <2>1
    <2> HIDE DEF h
    <2>7. Walk(h, n)
      <3>1. h[0] = Head
        BY <2>1, <2>2, <2>5 DEF Walk, Follows
      <3>2. ASSUME NEW k \in 1 .. n
            PROVE  h[k] = IF h[k - 1] = NULL THEN NULL ELSE next[h[k - 1]]
        <4>1. CASE k = n
          BY <2>1, <2>5, <2>6, <4>1
        <4>2. CASE k # n
          BY <2>1, <2>2, <2>5, <3>2, <4>2 DEF Walk, Follows
        <4> QED BY <4>1, <4>2
      <3> QED BY <2>4, <3>1, <3>2 DEF Walk, Follows
    <2> QED BY <1>1, <2>4, <2>7
  <1> QED BY <1>2, <1>3

(* There is one walk only. *)
LEMMA WalkUnique ==
  ASSUME NEW m \in Nat, NEW g, NEW f, f[0] = g[0], Follows(g, m), Follows(f, m)
  PROVE  \A k \in 0 .. m : f[k] = g[k]
  <1> DEFINE S == {k \in 0 .. m : f[k] # g[k]}
  <1> SUFFICES ASSUME S # {} PROVE FALSE
    OBVIOUS
  <1>0. S \in SUBSET Nat
    OBVIOUS
  <1>1. PICK k \in S : \A j \in S : k <= j
    <2> HIDE DEF S
    <2> QED BY <1>0, LeastExists
  <1>2. k # 0 /\ k - 1 \in 0 .. m /\ k \in 1 .. m
    BY <1>1
  <1>3. f[k - 1] = g[k - 1]
    BY <1>1, <1>2
  <1>4. f[k] = g[k]
    BY <1>2, <1>3 DEF Follows
  <1> QED BY <1>1, <1>4

(* Nth is such a walk. *)
LEMMA NthWalks ==
  ASSUME next \in [Timers \cup {Head} -> Timers \cup {NULL}]
  PROVE  Walk(Nth, N + 1)
  <1> DEFINE D == 0 .. Cardinality(Timers) + 1
             Eq(f) == f = [k \in D |-> IF k = 0 THEN Head ELSE IF f[k - 1] = NULL THEN NULL ELSE next[f[k - 1]]]
  <1>1. PICK g \in [D -> Links] : Walk(g, N + 1)
    BY TimersFinite, WalkExists DEF N
  <1>2. Eq(g)
    BY <1>1, TimersFinite DEF Walk, Follows, N
  <1>3. Nth = CHOOSE f : Eq(f)
    BY DEF Nth
  <1>4. Eq(Nth)
    BY <1>2, <1>3
  <1>5. /\ Nth[0] = g[0]
        /\ \A k \in 1 .. N + 1 : Nth[k] = IF Nth[k - 1] = NULL THEN NULL ELSE next[Nth[k - 1]]
    <2> HIDE DEF Eq
    <2>1. Nth = [k \in D |-> IF k = 0 THEN Head ELSE IF Nth[k - 1] = NULL THEN NULL ELSE next[Nth[k - 1]]]
      BY <1>4 DEF Eq
    <2>2. 0 \in D /\ \A k \in 1 .. N + 1 : k \in D /\ k # 0
      BY TimersFinite DEF N
    <2> QED BY <1>1, <2>1, <2>2 DEF Walk, Follows
  <1>6. \A k \in 0 .. N + 1 : Nth[k] = g[k]
    <2>1. Follows(g, N + 1) /\ Follows(Nth, N + 1)
      BY <1>1, <1>5 DEF Walk, Follows
    <2>2. N + 1 \in Nat
      BY TimersFinite
    <2> HIDE DEF D, Eq
    <2> QED BY <1>5, <2>1, <2>2, WalkUnique
  <1>7. DOMAIN Nth = D
    BY <1>4
  <1>8. Nth = g
    BY <1>1, <1>4, <1>6 DEF N
  <1> QED BY <1>1, <1>8

-----------------------------------------------------------------------------
TaskRec ==
  [pc : {"wait", "lock", "loop", "callback", "stop", "insert", "relock", "recalc", "deleted"},
   t : Timers \cup {NULL}, next : Timers \cup {NULL}]
OwnRec ==
  [pc : {"idle", "restart", "is_active", "start", "insert", "remove", "recalc", "free"},
   op : Calls \cup {"none"}, arg : Nat]
DeinitRec ==
  [pc : {"none", "loop", "remove", "recalc", "relock", "done"},
   t : Timers \cup {NULL}, next : Timers \cup {NULL}]

(* The list lock is held over several steps by the timer task, while it     *)
(* walks the list, and by oblfr_timer_deinit; both know their timer.        *)
LockInv ==
  /\ lock = "task" <=> task.pc \in {"loop", "callback", "stop"}
  /\ lock = "deinit" <=> deinit.pc = "loop"
  /\ task.pc \in {"callback", "stop", "insert"} => task.t # NULL
  /\ deinit.pc = "remove" => deinit.t # NULL

(* The inductive invariant of the types. *)
TInv == TypeOK /\ LockInv

(* Inserting a timer keeps the types of the links, whatever the list has    *)
(* become.                                                                  *)
LEMMA InsertType ==
  ASSUME TypeOK, NEW t \in Timers, oblfr_timer_insert(t)
  PROVE  /\ next' \in [Timers \cup {Head} -> Timers \cup {NULL}]
         /\ prev' \in [Timers -> Timers \cup {Head, NULL}]
  <1>1. PICK k \in Positions : Position(t, k) /\ InsertAfter(Nth[k - 1], t)
    BY DEF oblfr_timer_insert
  <1>2. Walk(Nth, N + 1)
    BY NthWalks DEF TypeOK
  <1>3. Nth[k - 1] \in Timers \cup {Head}
    <2>1. k \in Nat /\ 1 <= k /\ k <= N + 1
      BY TimersFinite DEF Positions, N
    <2>2. CASE k = 1
      BY <1>2, <2>2 DEF Walk
    <2>3. CASE k # 1
      <3>1. k - 1 \in 1 .. k - 1 /\ k - 1 \in 0 .. N + 1
        BY <2>1, <2>3, TimersFinite
      <3>2. Nth[k - 1] # NULL
        BY <1>1, <3>1 DEF Position
      <3> QED BY <1>2, <3>1, <3>2 DEF Walk, Links
    <2> QED BY <2>2, <2>3
  <1> DEFINE p == Nth[k - 1]
  <1>4. /\ next' = [next EXCEPT ![p] = t, ![t] = next[p]]
        /\ prev' = [x \in Timers |-> IF x = t THEN p ELSE IF x = next[p] THEN t ELSE prev[x]]
    BY <1>1 DEF InsertAfter
  <1> HIDE DEF p
  <1>5. p \in Timers \cup {Head}
    BY <1>3 DEF p
  <1> QED BY <1>4, <1>5 DEF TypeOK

(* Removing one keeps them too. *)
LEMMA RemoveType ==
  ASSUME TypeOK, NEW t \in Timers, LIST_REMOVE(t)
  PROVE  /\ next' \in [Timers \cup {Head} -> Timers \cup {NULL}]
         /\ prev' \in [Timers -> Timers \cup {Head, NULL}]
  BY DEF LIST_REMOVE, TypeOK

(* oblfr_recalc_next_fire sets a compare value within its cap. *)
LEMMA RecalcType ==
  ASSUME TypeOK, oblfr_recalc_next_fire
  PROVE  comp' \in 0 .. MaxDelay + 1
  <1>1. CASE next[Head] = NULL
    BY <1>1 DEF oblfr_recalc_next_fire, TypeOK
  <1>2. CASE next[Head] # NULL
    <2>1. when[next[Head]] \in Int
      BY <1>2 DEF TypeOK
    <2>2. comp' = Delay(when[next[Head]]) + 1
      BY <1>2 DEF oblfr_recalc_next_fire
    <2> QED BY <2>1, <2>2, TimesAssumption DEF Delay
  <1> QED BY <1>1, <1>2

(* Records keep their types. *)
LEMMA RecordTypes ==
  /\ Idle \in OwnRec /\ Idle.pc = "idle" /\ Idle.op = "none"
  /\ \A o \in OwnRec, pc \in {"idle", "restart", "is_active", "start", "insert", "remove", "recalc", "free"} :
       LET q == [o EXCEPT !.pc = pc] IN q \in OwnRec /\ q.pc = pc /\ q.op = o.op /\ q.arg = o.arg
  BY DEF OwnRec, Idle

(* Everything starts in its type. *)
LEMMA InitType == Init => TInv
  <1> SUFFICES ASSUME Init PROVE TInv
    OBVIOUS
  <1>1. LockInv
    BY DEF Init, LockInv
  <1>2. task \in TaskRec /\ deinit \in DeinitRec
    BY DEF Init, TaskRec, DeinitRec
  <1>3. own \in [Timers -> OwnRec]
    BY RecordTypes DEF Init
  <1>4. when \in [Timers -> Int] /\ period \in [Timers -> Nat] /\ comp \in 0 .. MaxDelay + 1
    BY TimesAssumption DEF Init, Past
  <1>5. repeat \in [Timers -> BOOLEAN] /\ irq \in BOOLEAN /\ notified \in BOOLEAN
    BY Zenon DEF Init
  <1>6. next \in [Timers \cup {Head} -> Timers \cup {NULL}] /\ prev \in [Timers -> Timers \cup {Head, NULL}]
        /\ alive \subseteq Timers /\ armed \subseteq Timers /\ lock \in {"none", "task", "deinit"}
    BY DEF Init
  <1> QED BY <1>1, <1>2, <1>3, <1>4, <1>5, <1>6 DEF TInv, TypeOK, TaskRec, DeinitRec, OwnRec

(* The calls of the owners. *)
LEMMA OwnerType ==
  ASSUME TInv, NEW t \in Timers, Owner(t) \/ OwnerStep(t)
  PROVE  TInv'
  <1> USE DEF TInv
  <1>0. own \in [Timers -> OwnRec] /\ own[t] \in OwnRec
    BY DEF TypeOK, OwnRec
  <1>1. ASSUME UNCHANGED <<lock, irq, notified, task, deinit>>,
               next' \in [Timers \cup {Head} -> Timers \cup {NULL}], prev' \in [Timers -> Timers \cup {Head, NULL}],
               when' \in [Timers -> Int], period' \in [Timers -> Nat], repeat' \in [Timers -> BOOLEAN],
               alive' \subseteq Timers, armed' \subseteq Timers, comp' \in 0 .. MaxDelay + 1,
               own' \in [Timers -> OwnRec]
        PROVE  TInv'
    BY <1>1 DEF TypeOK, LockInv, OwnRec
  <1>2. ASSUME NEW pc, Goto(t, pc), pc \in {"idle", "restart", "is_active", "start", "insert", "remove", "recalc", "free"}
        PROVE  own' \in [Timers -> OwnRec]
    BY <1>0, <1>2, RecordTypes DEF Goto
  <1>3. Return(t) => own' \in [Timers -> OwnRec]
    BY <1>0, RecordTypes DEF Return
  <1>4. ASSUME NEW op, NEW arg \in Nat, NEW pc \in {"restart", "is_active", "remove"}, Call(t, op, arg, pc)
        PROVE  TInv'
    <2>1. [pc |-> pc, op |-> op, arg |-> arg] \in OwnRec
      BY <1>4 DEF Call, OwnRec
    <2>2. own' \in [Timers -> OwnRec]
      BY <1>0, <1>4, <2>1 DEF Call
    <2> QED BY <1>1, <1>4, <2>2 DEF Call, memory, links, fields, TypeOK
  <1>5. CASE oblfr_timer_create(t)
    <2>1. next' \in [Timers \cup {Head} -> Timers \cup {NULL}] /\ prev' \in [Timers -> Timers \cup {Head, NULL}]
          /\ alive' \subseteq Timers
      BY <1>5 DEF oblfr_timer_create, TypeOK
    <2> QED BY <1>0, <1>1, <1>5, <2>1 DEF oblfr_timer_create, fields, TypeOK
  <1>6. CASE oblfr_timer_start_once(t) \/ oblfr_timer_start_periodic(t) \/ oblfr_timer_restart(t)
             \/ oblfr_timer_stop(t) \/ oblfr_timer_delete(t) \/ Query(t)
    <2>1. \A arg \in Timeouts \cup {0} : arg \in Nat
      BY TimesAssumption
    <2>2. CASE oblfr_timer_start_once(t) \/ oblfr_timer_start_periodic(t)
      BY <1>4, <2>1, <2>2 DEF oblfr_timer_start_once, oblfr_timer_start_periodic
    <2>3. CASE oblfr_timer_restart(t)
      BY <1>4, <2>1, <2>3 DEF oblfr_timer_restart
    <2>4. CASE oblfr_timer_stop(t) \/ oblfr_timer_delete(t) \/ Query(t)
      BY <1>4, <2>1, <2>4 DEF oblfr_timer_stop, oblfr_timer_delete, Query
    <2> QED BY <1>6, <2>2, <2>3, <2>4
  <1>7. CASE oblfr_timer_is_active(t)
    <2>1. Return(t) \/ Goto(t, "remove") \/ Goto(t, "free") \/ Goto(t, "start")
      BY <1>7 DEF oblfr_timer_is_active
    <2>2. own' \in [Timers -> OwnRec]
      BY <1>2, <1>3, <2>1
    <2> QED BY <1>1, <1>7, <2>2 DEF oblfr_timer_is_active, memory, links, fields, TypeOK
  <1>8. CASE StartAt(t)
    <2>0. own[t].arg \in Nat
      BY <1>0 DEF OwnRec
    <2>1. when' = [when EXCEPT ![t] = own[t].arg] /\ period' = [period EXCEPT ![t] = IF t \in Periodic THEN own[t].arg ELSE 0]
          /\ repeat' = [repeat EXCEPT ![t] = t \in Periodic]
      BY <1>8 DEF StartAt
    <2>2. when' \in [Timers -> Int] /\ period' \in [Timers -> Nat]
      BY <2>0, <2>1 DEF TypeOK
    <2>3. repeat' \in [Timers -> BOOLEAN]
      <3>1. CASE t \in Periodic
        <4>1. (t \in Periodic) = TRUE
          BY Zenon, <3>1
        <4>2. repeat' = [repeat EXCEPT ![t] = TRUE]
          BY Zenon, <2>1, <4>1
        <4> QED BY <4>2 DEF TypeOK
      <3>2. CASE t \notin Periodic
        <4>1. (t \in Periodic) = FALSE
          BY <3>2
        <4>2. repeat' = [repeat EXCEPT ![t] = FALSE]
          BY Zenon, <2>1, <4>1
        <4> QED BY <4>2 DEF TypeOK
      <3> QED BY <3>1, <3>2
    <2>4. own' \in [Timers -> OwnRec]
      BY <1>2, <1>8 DEF StartAt
    <2> QED BY <1>1, <1>8, <2>2, <2>3, <2>4 DEF StartAt, links, TypeOK
  <1>9. CASE StartInsert(t)
    <2>1. own' \in [Timers -> OwnRec] /\ armed' \subseteq Timers
      BY <1>2, <1>9 DEF StartInsert, TypeOK
    <2> QED BY <1>1, <1>9, <2>1, InsertType DEF StartInsert, fields, TypeOK
  <1>10. CASE StopRemove(t)
    <2>1. own' \in [Timers -> OwnRec]
      BY <1>2, <1>10 DEF StopRemove
    <2>2. when' \in [Timers -> Int] /\ armed' \subseteq Timers
      BY <1>10, TimesAssumption DEF StopRemove, oblfr_timer_remove, Past, TypeOK
    <2> QED BY <1>1, <1>10, <2>1, <2>2, RemoveType DEF StopRemove, oblfr_timer_remove, TypeOK
  <1>11. CASE Recalc(t)
    BY <1>1, <1>3, <1>11, RecalcType DEF Recalc, memory, links, fields, TypeOK
  <1>12. CASE Free(t)
    <2>1. alive' \subseteq Timers
      BY <1>12 DEF Free, TypeOK
    <2> QED BY <1>1, <1>3, <1>12, <2>1 DEF Free, links, fields, TypeOK
  <1> QED BY <1>5, <1>6, <1>7, <1>8, <1>9, <1>10, <1>11, <1>12 DEF Owner, OwnerStep

(* The timer task, the interrupt and time. *)
LEMMA TaskType ==
  ASSUME TInv, timer_isr \/ Tick \/ oblfr_timer_task \/ Process
  PROVE  TInv'
  <1> USE DEF TInv
  <1>0. task \in TaskRec
    BY DEF TypeOK, TaskRec
  <1>1. CASE timer_isr
    <2>1. notified' \in BOOLEAN
      BY Zenon, <1>1 DEF timer_isr
    <2>2. UNCHANGED <<next, prev, when, period, repeat, alive, armed, lock, comp, irq, task, own, deinit>>
      BY <1>1 DEF timer_isr, memory, links, fields
    <2> QED BY <2>1, <2>2 DEF TypeOK, LockInv
  <1>2. CASE Tick
    <2>1. when' \in [Timers -> Int]
      <3>1. Past \in Int /\ when \in [Timers -> Int]
        BY TimesAssumption DEF Past, TypeOK
      <3>2. \A t \in Timers : (IF when[t] > Past THEN when[t] - 1 ELSE Past) \in Int
        BY <3>1
      <3> QED BY <1>2, <3>2 DEF Tick
    <2>2. UNCHANGED <<next, prev, period, repeat, alive, armed, lock, comp, irq, notified, task, own, deinit>>
      BY <1>2 DEF Tick, links
    <2> QED BY <2>1, <2>2 DEF TypeOK, LockInv
  <1>3. ASSUME UNCHANGED <<irq, own, deinit, alive, period, repeat>>,
               next' \in [Timers \cup {Head} -> Timers \cup {NULL}], prev' \in [Timers -> Timers \cup {Head, NULL}],
               when' \in [Timers -> Int], armed' \subseteq Timers, comp' \in 0 .. MaxDelay + 1, notified' \in BOOLEAN,
               task' \in TaskRec, lock' \in {"none", "task", "deinit"},
               lock' = "task" <=> task'.pc \in {"loop", "callback", "stop"},
               lock' = "deinit" <=> lock = "deinit",
               task'.pc \in {"callback", "stop", "insert"} => task'.t # NULL
        PROVE  TInv'
    <2>1. TypeOK'
      BY <1>3 DEF TypeOK, TaskRec
    <2>2. LockInv'
      BY <1>3 DEF LockInv
    <2> QED BY <2>1, <2>2
  (* The steps that change nothing but the task and the lock. *)
  <1>4. ASSUME UNCHANGED <<memory, irq, own, deinit>>, comp' \in 0 .. MaxDelay + 1, notified' \in BOOLEAN,
               task' \in TaskRec, lock' \in {"none", "task", "deinit"},
               lock' = "task" <=> task'.pc \in {"loop", "callback", "stop"},
               lock' = "deinit" <=> lock = "deinit",
               task'.pc \in {"callback", "stop", "insert"} => task'.t # NULL
        PROVE  TInv'
    BY <1>3, <1>4 DEF memory, links, fields, TypeOK
  <1>5. CASE oblfr_timer_task
    <2>1. task' = [task EXCEPT !.pc = "lock"] /\ task.pc = "wait" /\ UNCHANGED <<memory, irq, own, deinit, lock, comp>>
      BY <1>5 DEF oblfr_timer_task
    <2>2. task' \in TaskRec /\ task'.pc = "lock"
      BY <1>0, <2>1 DEF TaskRec
    <2>3. notified' \in BOOLEAN
      BY Zenon, <1>5 DEF oblfr_timer_task
    <2> QED BY <1>4, <2>1, <2>2, <2>3 DEF TypeOK, LockInv
  <1>6. CASE ProcessLock
    <2>1. /\ task' = [task EXCEPT !.pc = "loop", !.t = next[Head]] /\ lock = "none" /\ lock' = "task"
          /\ UNCHANGED <<memory, irq, own, deinit, comp, notified>>
      BY <1>6 DEF ProcessLock, Unlocked
    <2>2. task' \in TaskRec /\ task'.pc = "loop"
      BY <1>0, <2>1 DEF TaskRec, TypeOK
    <2> QED BY <1>4, <2>1, <2>2 DEF TypeOK, LockInv
  <1>7. CASE ProcessDone
    <2>1. /\ task' = [pc |-> "recalc", t |-> NULL, next |-> NULL] /\ task.pc = "loop" /\ lock' = "none"
          /\ UNCHANGED <<memory, irq, own, deinit, comp, notified>>
      BY <1>7 DEF ProcessDone
    <2>2. task' \in TaskRec /\ task'.pc = "recalc"
      BY <2>1 DEF TaskRec
    <2> QED BY <1>4, <2>1, <2>2 DEF TypeOK, LockInv
  <1>8. CASE ProcessExpired
    <2>1. /\ task' = [task EXCEPT !.pc = "callback", !.next = next[task.t]] /\ task.pc = "loop" /\ task.t # NULL
          /\ LIST_REMOVE(task.t) /\ UNCHANGED <<when, period, repeat, alive, armed, irq, own, deinit, comp, notified, lock>>
      BY <1>8 DEF ProcessExpired, fields
    <2>2. task.t \in Timers
      BY <1>0, <2>1 DEF TaskRec
    <2>3. task' \in TaskRec /\ task'.pc = "callback" /\ task'.t = task.t
      BY <1>0, <2>1, <2>2 DEF TaskRec, TypeOK
    <2> QED BY <1>3, <2>1, <2>2, <2>3, RemoveType DEF TypeOK, LockInv
  <1>9. CASE ProcessCallback
    <2>1. /\ task.pc = "callback" /\ UNCHANGED <<next, prev, period, repeat, alive, comp, irq, notified, own, deinit>>
          /\ armed' \subseteq armed /\ lock = "task" /\ task.t \in Timers
      BY <1>0, <1>9 DEF ProcessCallback, Expire, links, LockInv, TaskRec
    <2>2. CASE repeat[task.t]
      <3>1. /\ when' = [when EXCEPT ![task.t] = @ + period[task.t]] /\ lock' = "none"
            /\ task' = [task EXCEPT !.pc = "insert"]
        BY <1>9, <2>2 DEF ProcessCallback
      <3>2. task' \in TaskRec /\ task'.pc = "insert" /\ task'.t = task.t
        BY <1>0, <3>1 DEF TaskRec
      <3>3. when' \in [Timers -> Int]
        BY <2>1, <3>1 DEF TypeOK
      <3> QED BY <1>3, <2>1, <3>1, <3>2, <3>3, Names DEF TypeOK
    <2>3. CASE ~repeat[task.t]
      <3>1. task' = [task EXCEPT !.pc = "loop", !.t = task.next] /\ UNCHANGED <<when, lock>>
        BY <1>9, <2>3 DEF ProcessCallback
      <3>2. task' \in TaskRec /\ task'.pc = "loop"
        BY <1>0, <3>1 DEF TaskRec
      <3> QED BY <1>3, <2>1, <3>1, <3>2 DEF TypeOK
    <2> QED BY <2>2, <2>3
  <1>10. CASE CallbackStop
    <2>1. task' = [task EXCEPT !.pc = "stop"] /\ task.pc = "callback" /\ UNCHANGED <<memory, irq, own, deinit, comp, notified, lock>>
      BY <1>10 DEF CallbackStop
    <2>2. task' \in TaskRec /\ task'.pc = "stop" /\ task'.t = task.t
      BY <1>0, <2>1 DEF TaskRec
    <2> QED BY <1>4, <2>1, <2>2 DEF TypeOK, LockInv
  <1>11. CASE ProcessInsert
    <2>1. /\ task' = [task EXCEPT !.pc = "relock"] /\ task.pc = "insert" /\ oblfr_timer_insert(task.t)
          /\ UNCHANGED <<when, period, repeat, alive, armed, irq, own, deinit, comp, notified, lock>>
      BY <1>11 DEF ProcessInsert, fields
    <2>2. task.t \in Timers
      BY <1>0, <2>1 DEF TaskRec, LockInv
    <2>3. task' \in TaskRec /\ task'.pc = "relock"
      BY <1>0, <2>1 DEF TaskRec
    <2> QED BY <1>3, <2>1, <2>2, <2>3, InsertType DEF TypeOK, LockInv
  <1>12. CASE ProcessRelock
    <2>1. /\ task' = [task EXCEPT !.pc = "loop", !.t = task.next] /\ lock = "none" /\ lock' = "task"
          /\ UNCHANGED <<memory, irq, own, deinit, comp, notified>>
      BY <1>12 DEF ProcessRelock, Unlocked
    <2>2. task' \in TaskRec /\ task'.pc = "loop"
      BY <1>0, <2>1 DEF TaskRec
    <2> QED BY <1>4, <2>1, <2>2 DEF TypeOK, LockInv
  <1>13. CASE ProcessRecalc
    <2>1. /\ task' = [task EXCEPT !.pc = "wait"] /\ task.pc = "recalc" /\ oblfr_recalc_next_fire
          /\ UNCHANGED <<memory, irq, own, deinit, notified, lock>>
      BY <1>13 DEF ProcessRecalc
    <2>2. task' \in TaskRec /\ task'.pc = "wait"
      BY <1>0, <2>1 DEF TaskRec
    <2> QED BY <1>4, <2>1, <2>2, RecalcType DEF TypeOK, LockInv
  <1> QED BY <1>1, <1>2, <1>5, <1>6, <1>7, <1>8, <1>9, <1>10, <1>11, <1>12, <1>13 DEF Process

(* oblfr_timer_deinit *)
LEMMA DeinitType ==
  ASSUME TInv, DeinitLock \/ Deinit
  PROVE  TInv'
  <1> USE DEF TInv
  <1>0. deinit \in DeinitRec
    BY DEF TypeOK, DeinitRec
  <1>1. ASSUME UNCHANGED <<own, alive, period, repeat, notified>>, irq' \in BOOLEAN,
               next' \in [Timers \cup {Head} -> Timers \cup {NULL}], prev' \in [Timers -> Timers \cup {Head, NULL}],
               when' \in [Timers -> Int], armed' \subseteq Timers, comp' \in 0 .. MaxDelay + 1,
               deinit' \in DeinitRec, lock' \in {"none", "task", "deinit"},
               UNCHANGED task \/ (task' = [pc |-> "deleted", t |-> NULL, next |-> NULL] /\ lock # "task"),
               lock' = "task" <=> lock = "task",
               lock' = "deinit" <=> deinit'.pc = "loop",
               deinit'.pc = "remove" => deinit'.t # NULL
        PROVE  TInv'
    <2>1. task' \in TaskRec
      BY <1>1 DEF TypeOK, TaskRec
    <2>2. TypeOK'
      BY <1>1, <2>1 DEF TypeOK, TaskRec, DeinitRec
    <2>3. LockInv'
      BY <1>1 DEF LockInv
    <2> QED BY <2>2, <2>3
  <1>2. CASE DeinitLock
    <2>1. /\ deinit' = [pc |-> "loop", t |-> next[Head], next |-> NULL] /\ lock = "none" /\ lock' = "deinit"
          /\ UNCHANGED <<next, prev, when, period, repeat, alive, armed, comp, notified, task, own>>
      BY <1>2 DEF DeinitLock, Unlocked, memory, links, fields
    <2>2. irq' \in BOOLEAN
      BY Zenon, <1>2 DEF DeinitLock
    <2>3. deinit' \in DeinitRec /\ deinit'.pc = "loop"
      BY <2>1 DEF DeinitRec, TypeOK
    <2> QED BY <1>1, <2>1, <2>2, <2>3 DEF TypeOK
  <1>3. CASE DeinitNext
    <2>1. /\ deinit' = [deinit EXCEPT !.pc = "remove", !.next = next[deinit.t]] /\ lock' = "none"
          /\ deinit.pc = "loop" /\ deinit.t # NULL
          /\ UNCHANGED <<next, prev, when, period, repeat, alive, armed, comp, irq, notified, task, own>>
      BY <1>3 DEF DeinitNext, memory, links, fields
    <2>2. deinit.t \in Timers
      BY <1>0, <2>1 DEF DeinitRec
    <2>3. deinit' \in DeinitRec /\ deinit'.pc = "remove" /\ deinit'.t = deinit.t
      BY <1>0, <2>1, <2>2 DEF DeinitRec, TypeOK
    <2> QED BY <1>1, <2>1, <2>3 DEF TypeOK, LockInv
  <1>4. CASE DeinitStop
    <2>1. UNCHANGED <<period, repeat, alive, lock, irq, notified, task, own>>
      BY <1>4 DEF DeinitStop
    <2>2. CASE deinit.pc = "remove"
      <3>1. /\ oblfr_timer_remove(deinit.t) /\ deinit' = [deinit EXCEPT !.pc = "recalc"] /\ UNCHANGED comp
        BY <1>4, <2>2 DEF DeinitStop
      <3>2. deinit.t \in Timers
        BY <1>0, <2>2 DEF DeinitRec, LockInv
      <3>3. deinit' \in DeinitRec /\ deinit'.pc = "recalc"
        BY <1>0, <3>1 DEF DeinitRec
      <3>4. when' \in [Timers -> Int] /\ armed' \subseteq Timers
        <4>1. when' = [when EXCEPT ![deinit.t] = Past] /\ armed' \subseteq armed /\ Past \in Int
          BY <3>1, TimesAssumption DEF oblfr_timer_remove, Past
        <4> QED BY <4>1 DEF TypeOK
      <3> QED BY <1>1, <2>1, <2>2, <3>1, <3>2, <3>3, <3>4, RemoveType DEF TypeOK, LockInv, oblfr_timer_remove
    <2>3. CASE deinit.pc # "remove"
      <3>1. /\ oblfr_recalc_next_fire /\ deinit' = [deinit EXCEPT !.pc = "relock"] /\ UNCHANGED <<next, prev, when, armed>>
            /\ deinit.pc = "recalc"
        BY <1>4, <2>3 DEF DeinitStop, links
      <3>2. deinit' \in DeinitRec /\ deinit'.pc = "relock"
        BY <1>0, <3>1 DEF DeinitRec
      <3> QED BY <1>1, <2>1, <3>1, <3>2, RecalcType DEF TypeOK, LockInv
    <2> QED BY <2>2, <2>3
  <1>5. CASE DeinitRelock
    <2>1. /\ deinit' = [deinit EXCEPT !.pc = "loop", !.t = deinit.next] /\ lock = "none" /\ lock' = "deinit"
          /\ UNCHANGED <<next, prev, when, period, repeat, alive, armed, comp, irq, notified, task, own>>
      BY <1>5 DEF DeinitRelock, Unlocked, memory, links, fields
    <2>2. deinit' \in DeinitRec /\ deinit'.pc = "loop"
      BY <1>0, <2>1 DEF DeinitRec
    <2> QED BY <1>1, <2>1, <2>2 DEF TypeOK
  <1>6. CASE DeinitDeleteTask
    <2>1. /\ deinit.pc = "loop" /\ lock = "deinit" /\ lock' = "none"
          /\ task' = [pc |-> "deleted", t |-> NULL, next |-> NULL] /\ deinit' = [deinit EXCEPT !.pc = "done"]
          /\ UNCHANGED <<next, prev, when, period, repeat, alive, armed, comp, irq, notified, own>>
      BY <1>6 DEF DeinitDeleteTask, LockInv, memory, links, fields
    <2>2. deinit' \in DeinitRec /\ deinit'.pc = "done"
      BY <1>0, <2>1 DEF DeinitRec
    <2> QED BY <1>1, <2>1, <2>2 DEF TypeOK
  <1> QED BY <1>2, <1>3, <1>4, <1>5, <1>6 DEF Deinit

(* Every step keeps the types and the lock. *)
LEMMA NextType == TInv /\ [Next]_vars => TInv'
  <1> SUFFICES ASSUME TInv, [Next]_vars PROVE TInv'
    OBVIOUS
  <1>1. CASE UNCHANGED vars
    BY <1>1 DEF vars, memory, links, fields, TInv, TypeOK, LockInv
  <1>2. CASE Next
    BY <1>2, OwnerType, TaskType, DeinitType DEF Next
  <1> QED BY <1>1, <1>2

(* Types hold whatever the owners do, also when they call the timers in     *)
(* ways that damage the list.                                               *)
THEOREM TypeCorrect == Spec => []TInv
  <1> QED BY InitType, NextType, PTL DEF Spec

(* oblfr_timer_deinit never deletes the timer task while that one holds the *)
(* list lock, however the two interleave.                                   *)
THEOREM NoLostLockCorrect == Spec => []NoLostLock
  <1>1. TInv => NoLostLock
    BY DEF TInv, LockInv, NoLostLock
  <1> QED BY TypeCorrect, <1>1, PTL

-----------------------------------------------------------------------------
(* The list as a sequence: n timers f[1], ..., f[n] between the head and    *)
(* NULL, linked both ways, none of them twice.                              *)
IsChain(nx, pv, n, f) ==
  /\ n \in Nat /\ f \in [0 .. n + 1 -> Links]
  /\ f[0] = Head /\ f[n + 1] = NULL
  /\ \A k \in 1 .. n : f[k] \in Timers /\ pv[f[k]] = f[k - 1]
  /\ \A k \in 0 .. n : nx[f[k]] = f[k + 1]
  /\ \A j, k \in 1 .. n : f[j] = f[k] => j = k
Members(n, f) == {f[k] : k \in 1 .. n}
Sorted(w, n, f) == \A k \in 1 .. n - 1 : w[f[k]] <= w[f[k + 1]]

(* The sequence with t in place k, and without place k. *)
With(n, f, t, k) == [j \in 0 .. n + 2 |-> IF j < k THEN f[j] ELSE IF j = k THEN t ELSE f[j - 1]]
Less(n, f, k) == [j \in 0 .. n |-> IF j < k THEN f[j] ELSE f[j + 1]]

(* The types of the links. *)
LinkTypes(nx, pv) ==
  nx \in [Timers \cup {Head} -> Timers \cup {NULL}] /\ pv \in [Timers -> Links]

(* The links after LIST_INSERT_AFTER and after LIST_REMOVE. *)
NextIn(nx, p, t) == [nx EXCEPT ![p] = t, ![t] = nx[p]]
PrevIn(nx, pv, p, t) == [x \in Timers |-> IF x = t THEN p ELSE IF x = nx[p] THEN t ELSE pv[x]]
NextOut(nx, pv, t) == [nx EXCEPT ![pv[t]] = nx[t]]
PrevOut(nx, pv, t) == [x \in Timers |-> IF x = nx[t] THEN pv[t] ELSE pv[x]]

(* The head differs from all other places. *)
LEMMA ChainPlaces ==
  ASSUME NEW nx, NEW pv, NEW n, NEW f, IsChain(nx, pv, n, f)
  PROVE  /\ \A k \in 0 .. n : f[k] \in Timers \cup {Head}
         /\ \A j, k \in 0 .. n : f[j] = f[k] => j = k
         /\ \A k \in 1 .. n + 1 : f[k] \in Timers \cup {NULL}
  <1>1. n \in Nat /\ f[0] = Head /\ \A k \in 1 .. n : f[k] \in Timers /\ f[k] # Head
    BY Names DEF IsChain
  <1>2. \A k \in 0 .. n : k # 0 => k \in 1 .. n
    BY <1>1
  <1>3. \A j, k \in 0 .. n : f[j] = f[k] => j = k
    BY <1>1, <1>2 DEF IsChain
  <1>4. \A k \in 1 .. n + 1 : k # n + 1 => k \in 1 .. n
    BY <1>1
  <1> QED BY <1>1, <1>2, <1>3, <1>4 DEF IsChain

(* LIST_INSERT_AFTER puts the timer into the sequence. *)
LEMMA ChainInsert ==
  ASSUME NEW nx, NEW pv, LinkTypes(nx, pv), NEW n, NEW f, IsChain(nx, pv, n, f), NEW t \in Timers, t \notin Members(n, f),
         NEW k \in 1 .. n + 1
  PROVE  /\ IsChain(NextIn(nx, f[k - 1], t), PrevIn(nx, pv, f[k - 1], t), n + 1, With(n, f, t, k))
         /\ Members(n + 1, With(n, f, t, k)) = Members(n, f) \cup {t}
  <1> DEFINE h == With(n, f, t, k)
             p == f[k - 1]
             nx2 == NextIn(nx, f[k - 1], t)
             pv2 == PrevIn(nx, pv, f[k - 1], t)
  <1>0. n \in Nat /\ k \in Nat /\ 1 <= k /\ k <= n + 1 /\ k - 1 \in 0 .. n
    BY DEF IsChain
  <1>1. p \in Timers \cup {Head} /\ nx[p] = f[k] /\ p # t
    <2>1. p \in Timers \cup {Head}
      BY <1>0, ChainPlaces
    <2>2. nx[p] = f[k]
      BY <1>0 DEF IsChain
    <2>3. p # t
      BY <1>0, Names DEF IsChain, Members
    <2> QED BY <2>1, <2>2, <2>3
  <1>2. /\ \A j \in 0 .. n + 2 : j < k => h[j] = f[j]
        /\ h[k] = t
        /\ \A j \in 0 .. n + 2 : j > k => h[j] = f[j - 1]
    BY <1>0 DEF With
  <1>3. h \in [0 .. n + 2 -> Links]
    <2>1. \A j \in 0 .. n + 2 : (IF j < k THEN f[j] ELSE IF j = k THEN t ELSE f[j - 1]) \in Links
      <3>1. \A j \in 0 .. n + 1 : f[j] \in Links
        BY DEF IsChain
      <3>2. \A j \in 0 .. n + 2 : (j < k => j \in 0 .. n + 1) /\ (j > k => j - 1 \in 0 .. n + 1)
        BY <1>0
      <3>3. t \in Links
        BY DEF Links
      <3> QED BY <1>0, <3>1, <3>2, <3>3
    <2> QED BY <2>1 DEF With
  <1> HIDE DEF h, p, nx2, pv2
  <1>4. /\ nx2[p] = t /\ nx2[t] = f[k]
        /\ \A x \in Timers \cup {Head} : x # p /\ x # t => nx2[x] = nx[x]
    BY <1>1 DEF p, nx2, NextIn, LinkTypes
  <1>5. /\ pv2[t] = p
        /\ f[k] \in Timers => pv2[f[k]] = t
        /\ \A x \in Timers : x # t /\ x # f[k] => pv2[x] = pv[x]
    <2>1. f[k] # t
      BY <1>0, Names DEF IsChain, Members
    <2> QED BY <1>1, <2>1 DEF p, pv2, PrevIn, LinkTypes
  <1>6. h[0] = Head /\ h[n + 2] = NULL
    BY <1>0, <1>2 DEF IsChain
  <1>7. ASSUME NEW j \in 1 .. n + 1
        PROVE  h[j] \in Timers /\ pv2[h[j]] = h[j - 1]
    <2>1. CASE j < k
      <3>1. j \in 1 .. n /\ h[j] = f[j] /\ h[j - 1] = f[j - 1]
        BY <1>0, <1>2, <2>1
      <3>2. f[j] # t /\ f[j] \in Timers /\ pv[f[j]] = f[j - 1]
        BY <3>1 DEF IsChain, Members
      <3>3. f[j] # f[k]
        <4>1. CASE k = n + 1
          BY <3>2, <4>1, Names DEF IsChain
        <4>2. CASE k # n + 1
          BY <1>0, <2>1, <3>1, <4>2 DEF IsChain
        <4> QED BY <4>1, <4>2
      <3> QED BY <1>5, <3>1, <3>2, <3>3
    <2>2. CASE j = k
      <3>1. h[j] = t /\ h[j - 1] = p
        BY <1>0, <1>2, <2>2 DEF p
      <3> QED BY <1>5, <3>1
    <2>3. CASE j = k + 1
      <3>1. h[j] = f[k] /\ h[j - 1] = t /\ f[k] \in Timers
        BY <1>0, <1>2, <2>3 DEF IsChain
      <3> QED BY <1>5, <3>1
    <2>4. CASE j > k + 1
      <3>1. j - 1 \in 1 .. n /\ k \in 1 .. n /\ j - 1 # k /\ h[j] = f[j - 1] /\ h[j - 1] = f[j - 2] /\ (j - 1) - 1 = j - 2
        BY <1>0, <1>2, <2>4
      <3>2. f[j - 1] # f[k]
        BY <3>1 DEF IsChain
      <3>3. f[j - 1] # t /\ f[j - 1] \in Timers /\ pv[f[j - 1]] = f[j - 2]
        BY <3>1 DEF IsChain, Members
      <3> QED BY <1>5, <3>1, <3>2, <3>3
    <2> QED BY <1>0, <2>1, <2>2, <2>3, <2>4
  <1>8. ASSUME NEW j \in 0 .. n + 1
        PROVE  nx2[h[j]] = h[j + 1]
    <2>1. CASE j < k - 1
      <3>1. j \in 0 .. n /\ h[j] = f[j] /\ h[j + 1] = f[j + 1] /\ nx[f[j]] = f[j + 1]
        BY <1>0, <1>2, <2>1 DEF IsChain
      <3>2. f[j] # p /\ f[j] \in Timers \cup {Head}
        BY <1>0, <2>1, <3>1, ChainPlaces DEF p
      <3>3. f[j] # t
        BY <3>1, Names DEF IsChain, Members
      <3> QED BY <1>4, <3>1, <3>2, <3>3
    <2>2. CASE j = k - 1
      BY <1>0, <1>2, <1>4, <2>2 DEF p
    <2>3. CASE j = k
      BY <1>0, <1>2, <1>4, <2>3
    <2>4. CASE j > k
      <3>1. j - 1 \in 1 .. n /\ h[j] = f[j - 1] /\ h[j + 1] = f[j] /\ nx[f[j - 1]] = f[j]
        BY <1>0, <1>2, <2>4 DEF IsChain
      <3>2. f[j - 1] # p /\ f[j - 1] \in Timers
        <4>1. j - 1 \in 0 .. n /\ k - 1 \in 0 .. n /\ j - 1 # k - 1
          BY <1>0, <2>4, <3>1
        <4>2. f[j - 1] # f[k - 1]
          BY <4>1, ChainPlaces
        <4>3. f[j - 1] \in Timers
          BY <3>1 DEF IsChain
        <4> QED BY <4>2, <4>3 DEF p
      <3>3. f[j - 1] # t
        BY <3>1 DEF Members
      <3> QED BY <1>4, <3>1, <3>2, <3>3
    <2> QED BY <1>0, <2>1, <2>2, <2>3, <2>4
  <1>9. ASSUME NEW i \in 1 .. n + 1, NEW j \in 1 .. n + 1, h[i] = h[j], i < j
        PROVE  FALSE
    <2>1. \A m \in 1 .. n + 1 : /\ m < k => m \in 1 .. n /\ h[m] = f[m]
                                /\ m > k => m - 1 \in 1 .. n /\ h[m] = f[m - 1]
      BY <1>0, <1>2
    <2>2. \A m \in 1 .. n + 1 : m # k => h[m] # t
      BY <1>0, <2>1 DEF Members
    <2>3. i # k /\ j # k
      BY <1>2, <1>9, <2>2
    <2> QED BY <1>0, <1>9, <2>1, <2>3 DEF IsChain
  <1>10. \A i, j \in 1 .. n + 1 : h[i] = h[j] => i = j
    BY <1>0, <1>9
  <1>11. IsChain(nx2, pv2, n + 1, h)
    BY <1>0, <1>3, <1>6, <1>7, <1>8, <1>10 DEF IsChain
  <1>12. Members(n + 1, h) = Members(n, f) \cup {t}
    <2>1. ASSUME NEW j \in 1 .. n + 1
          PROVE  h[j] \in Members(n, f) \cup {t}
      <3>1. CASE j < k
        BY <1>0, <1>2, <3>1 DEF Members
      <3>2. CASE j > k
        <4>1. j - 1 \in 1 .. n /\ h[j] = f[j - 1]
          BY <1>0, <1>2, <3>2
        <4> QED BY <4>1 DEF Members
      <3> QED BY <1>0, <1>2, <3>1, <3>2
    <2>2. ASSUME NEW j \in 1 .. n
          PROVE  \E i \in 1 .. n + 1 : h[i] = f[j]
      <3>1. CASE j < k
        BY <1>0, <1>2, <3>1
      <3>2. CASE j >= k
        <4>1. j + 1 \in 1 .. n + 1 /\ h[j + 1] = f[j]
          BY <1>0, <1>2, <3>2
        <4> QED BY <4>1
      <3> QED BY <1>0, <3>1, <3>2
    <2>3. t \in Members(n + 1, h)
      BY <1>0, <1>2 DEF Members
    <2> QED BY <2>1, <2>2, <2>3 DEF Members
  <1> QED BY <1>11, <1>12 DEF h, nx2, pv2

(* LIST_REMOVE takes it out again. *)
LEMMA ChainRemove ==
  ASSUME NEW nx, NEW pv, LinkTypes(nx, pv), NEW n, NEW f, IsChain(nx, pv, n, f), NEW k \in 1 .. n
  PROVE  /\ IsChain(NextOut(nx, pv, f[k]), PrevOut(nx, pv, f[k]), n - 1, Less(n, f, k))
         /\ Members(n - 1, Less(n, f, k)) = Members(n, f) \ {f[k]}
  <1> DEFINE h == Less(n, f, k)
             p == f[k - 1]
             q == f[k + 1]
             nx2 == NextOut(nx, pv, f[k])
             pv2 == PrevOut(nx, pv, f[k])
  <1>0. n \in Nat /\ k \in Nat /\ 1 <= k /\ k <= n /\ k - 1 \in 0 .. n /\ n - 1 \in Nat /\ k \in 0 .. n /\ k + 1 \in 1 .. n + 1
    BY DEF IsChain
  <1>1. pv[f[k]] = p /\ nx[f[k]] = q /\ p \in Timers \cup {Head} /\ f[k] \in Timers
    <2>1. pv[f[k]] = p /\ nx[f[k]] = q /\ f[k] \in Timers
      BY <1>0 DEF IsChain
    <2> QED BY <1>0, <2>1, ChainPlaces
  <1>2. /\ \A j \in 0 .. n : j < k => h[j] = f[j]
        /\ \A j \in 0 .. n : j >= k => h[j] = f[j + 1]
    BY <1>0 DEF Less
  <1>3. h \in [0 .. n -> Links]
    <2>1. \A j \in 0 .. n : (IF j < k THEN f[j] ELSE f[j + 1]) \in Links
      <3>1. \A j \in 0 .. n + 1 : f[j] \in Links
        BY DEF IsChain
      <3>2. \A j \in 0 .. n : j \in 0 .. n + 1 /\ j + 1 \in 0 .. n + 1
        BY <1>0
      <3> QED BY <3>1, <3>2
    <2> QED BY <2>1 DEF Less
  <1> HIDE DEF h, p, q, nx2, pv2
  <1>4. nx2[p] = q /\ \A x \in Timers \cup {Head} : x # p => nx2[x] = nx[x]
    BY <1>1 DEF nx2, NextOut, LinkTypes
  <1>5. (q \in Timers => pv2[q] = p) /\ \A x \in Timers : x # q => pv2[x] = pv[x]
    BY <1>1 DEF pv2, PrevOut, LinkTypes
  <1>6. h[0] = Head /\ h[n] = NULL
    BY <1>0, <1>2 DEF IsChain
  <1>7. \A i, j \in 0 .. n : f[i] = f[j] => i = j
    BY ChainPlaces
  <1>8. \A i \in 1 .. n : f[i] \in Timers /\ pv[f[i]] = f[i - 1]
    BY DEF IsChain
  <1>9. \A i \in 0 .. n : nx[f[i]] = f[i + 1] /\ f[i] \in Timers \cup {Head}
    BY ChainPlaces DEF IsChain
  <1>10. ASSUME NEW j \in 1 .. n - 1
         PROVE  h[j] \in Timers /\ pv2[h[j]] = h[j - 1]
    <2>1. CASE j < k
      <3>1. j \in 1 .. n /\ h[j] = f[j] /\ h[j - 1] = f[j - 1]
        BY <1>0, <1>2, <2>1
      <3>2. f[j] # q
        <4>1. CASE k = n
          BY <1>8, <3>1, <4>1, Names DEF q, IsChain
        <4>2. CASE k # n
          <5>1. k + 1 \in 0 .. n /\ j \in 0 .. n /\ j # k + 1
            BY <1>0, <2>1, <4>2
          <5> QED BY <1>7, <5>1 DEF q
        <4> QED BY <4>1, <4>2
      <3> QED BY <1>5, <1>8, <3>1, <3>2
    <2>2. CASE j = k
      <3>1. j + 1 \in 1 .. n /\ h[j] = q /\ h[j - 1] = p
        BY <1>0, <1>2, <2>2 DEF p, q
      <3>2. q \in Timers
        BY <1>8, <2>2, <3>1 DEF q
      <3> QED BY <1>5, <3>1, <3>2
    <2>3. CASE j > k
      <3>1. /\ j + 1 \in 1 .. n /\ (j + 1) - 1 = j /\ h[j] = f[j + 1] /\ h[j - 1] = f[j]
            /\ j + 1 \in 0 .. n /\ k + 1 \in 0 .. n /\ j + 1 # k + 1
        BY <1>0, <1>2, <2>3
      <3>2. f[j + 1] # q
        BY <1>7, <3>1 DEF q
      <3>3. f[j + 1] \in Timers /\ pv[f[j + 1]] = f[j]
        BY <1>8, <3>1
      <3> QED BY <1>5, <3>1, <3>2, <3>3
    <2> QED BY <1>0, <2>1, <2>2, <2>3
  <1>11. ASSUME NEW j \in 0 .. n - 1
         PROVE  nx2[h[j]] = h[j + 1]
    <2>1. CASE j < k - 1
      <3>1. j \in 0 .. n /\ k - 1 \in 0 .. n /\ j # k - 1 /\ h[j] = f[j] /\ h[j + 1] = f[j + 1]
        BY <1>0, <1>2, <2>1
      <3>2. f[j] # p
        BY <1>7, <3>1 DEF p
      <3> QED BY <1>4, <1>9, <3>1, <3>2
    <2>2. CASE j = k - 1
      <3>1. h[j] = p /\ h[j + 1] = q
        BY <1>0, <1>2, <2>2 DEF p, q
      <3> QED BY <1>4, <3>1
    <2>3. CASE j > k - 1
      <3>1. /\ j + 1 \in 0 .. n /\ k - 1 \in 0 .. n /\ j + 1 # k - 1
            /\ h[j] = f[j + 1] /\ h[j + 1] = f[(j + 1) + 1]
        BY <1>0, <1>2, <2>3
      <3>2. f[j + 1] # p
        BY <1>7, <3>1 DEF p
      <3>3. nx[f[j + 1]] = f[(j + 1) + 1] /\ f[j + 1] \in Timers \cup {Head}
        BY <1>9, <3>1
      <3> QED BY <1>4, <3>1, <3>2, <3>3
    <2> QED BY <1>0, <2>1, <2>2, <2>3
  <1>12. \A i, j \in 1 .. n - 1 : h[i] = h[j] => i = j
    <2>1. \A i \in 1 .. n - 1 : /\ i < k => i \in 0 .. n /\ h[i] = f[i]
                                /\ i >= k => i + 1 \in 0 .. n /\ h[i] = f[i + 1]
      BY <1>0, <1>2
    <2>2. ASSUME NEW i \in 1 .. n - 1, NEW j \in 1 .. n - 1, h[i] = h[j]
          PROVE  i = j
      <3>1. CASE i < k /\ j < k
        BY <1>7, <2>1, <2>2, <3>1
      <3>2. CASE i < k /\ j >= k
        <4>1. f[i] = f[j + 1] /\ i \in 0 .. n /\ j + 1 \in 0 .. n
          BY <2>1, <2>2, <3>2
        <4>2. i = j + 1
          BY <1>7, <4>1
        <4> QED BY <1>0, <3>2, <4>2
      <3>3. CASE i >= k /\ j < k
        <4>1. f[j] = f[i + 1] /\ j \in 0 .. n /\ i + 1 \in 0 .. n
          BY <2>1, <2>2, <3>3
        <4>2. j = i + 1
          BY <1>7, <4>1
        <4> QED BY <1>0, <3>3, <4>2
      <3>4. CASE i >= k /\ j >= k
        <4>1. f[i + 1] = f[j + 1] /\ i + 1 \in 0 .. n /\ j + 1 \in 0 .. n
          BY <2>1, <2>2, <3>4
        <4>2. i + 1 = j + 1
          BY <1>7, <4>1
        <4> QED BY <4>2
      <3> QED BY <1>0, <3>1, <3>2, <3>3, <3>4
    <2> QED BY <2>2
  <1>13. IsChain(nx2, pv2, n - 1, h)
    BY <1>0, <1>3, <1>6, <1>10, <1>11, <1>12 DEF IsChain
  <1>14. Members(n - 1, h) = Members(n, f) \ {f[k]}
    <2>1. ASSUME NEW j \in 1 .. n - 1
          PROVE  \E i \in 1 .. n : i # k /\ h[j] = f[i]
      <3>1. CASE j < k
        BY <1>0, <1>2, <3>1
      <3>2. CASE j >= k
        <4>1. j + 1 \in 1 .. n /\ j + 1 # k /\ h[j] = f[j + 1]
          BY <1>0, <1>2, <3>2
        <4> QED BY <4>1
      <3> QED BY <1>0, <3>1, <3>2
    <2>2. ASSUME NEW j \in 1 .. n, j # k
          PROVE  \E i \in 1 .. n - 1 : h[i] = f[j]
      <3>1. CASE j < k
        BY <1>0, <1>2, <3>1
      <3>2. CASE j > k
        <4>1. j - 1 \in 1 .. n - 1 /\ h[j - 1] = f[(j - 1) + 1] /\ (j - 1) + 1 = j
          BY <1>0, <1>2, <3>2
        <4> QED BY <4>1
      <3> QED BY <1>0, <2>2, <3>1, <3>2
    <2>3. \A i \in 1 .. n : i # k => f[i] # f[k]
      BY DEF IsChain
    <2> QED BY <2>1, <2>2, <2>3 DEF Members
  <1> QED BY <1>13, <1>14 DEF h, nx2, pv2

(* The order survives an insertion: a timer goes in behind those that       *)
(* expire before or with it.                                                *)
LEMMA SortedInsert ==
  ASSUME NEW n \in Nat, NEW f, NEW w, NEW w2, NEW t, NEW k \in 1 .. n + 1,
         \A j \in 1 .. n : w[f[j]] \in Int /\ w2[f[j]] = w[f[j]], w2[t] \in Int,
         Sorted(w, n, f), \A j \in 1 .. k - 1 : w[f[j]] <= w2[t], k \in 1 .. n => w[f[k]] > w2[t]
  PROVE  Sorted(w2, n + 1, With(n, f, t, k))
  <1> DEFINE h == With(n, f, t, k)
  <1>1. /\ \A j \in 0 .. n + 2 : j < k => h[j] = f[j]
        /\ h[k] = t
        /\ \A j \in 0 .. n + 2 : j > k => h[j] = f[j - 1]
    BY DEF With
  <1> HIDE DEF h
  <1> SUFFICES ASSUME NEW j \in 1 .. n PROVE w2[h[j]] <= w2[h[j + 1]]
    BY DEF Sorted, h
  <1>2. CASE j < k - 1
    <2>1. h[j] = f[j] /\ h[j + 1] = f[j + 1] /\ j \in 1 .. n - 1 /\ j + 1 \in 1 .. n
      BY <1>1, <1>2
    <2> QED BY <2>1 DEF Sorted
  <1>3. CASE j = k - 1
    <2>1. h[j] = f[j] /\ h[j + 1] = t /\ j \in 1 .. k - 1
      BY <1>1, <1>3
    <2> QED BY <2>1
  <1>4. CASE j = k
    <2>1. h[j] = t /\ h[j + 1] = f[k] /\ k \in 1 .. n
      BY <1>1, <1>4
    <2> QED BY <2>1
  <1>5. CASE j > k
    <2>1. h[j] = f[j - 1] /\ h[j + 1] = f[j] /\ j - 1 \in 1 .. n - 1 /\ (j - 1) + 1 = j /\ j - 1 \in 1 .. n
      BY <1>1, <1>5
    <2>2. w[f[j - 1]] <= w[f[j]]
      BY <2>1 DEF Sorted
    <2> QED BY <2>1, <2>2
  <1> QED BY <1>2, <1>3, <1>4, <1>5

(* The order survives a removal. *)
LEMMA SortedRemove ==
  ASSUME NEW n \in Nat, NEW f, NEW w, NEW w2, NEW k \in 1 .. n,
         \A j \in 1 .. n : w[f[j]] \in Int /\ (j # k => w2[f[j]] = w[f[j]]), Sorted(w, n, f)
  PROVE  Sorted(w2, n - 1, Less(n, f, k))
  <1> DEFINE h == Less(n, f, k)
  <1>1. /\ \A j \in 0 .. n : j < k => h[j] = f[j]
        /\ \A j \in 0 .. n : j >= k => h[j] = f[j + 1]
    BY DEF Less
  <1> HIDE DEF h
  <1> SUFFICES ASSUME NEW j \in 1 .. (n - 1) - 1 PROVE w2[h[j]] <= w2[h[j + 1]]
    BY DEF Sorted, h
  <1>2. CASE j < k - 1
    <2>1. h[j] = f[j] /\ h[j + 1] = f[j + 1] /\ j \in 1 .. n - 1 /\ j + 1 \in 1 .. n /\ j \in 1 .. n /\ j # k /\ j + 1 # k
      BY <1>1, <1>2
    <2> QED BY <2>1 DEF Sorted
  <1>3. CASE j = k - 1
    <2>1. h[j] = f[j] /\ h[j + 1] = f[k + 1] /\ j \in 1 .. n - 1 /\ k \in 1 .. n - 1 /\ j + 1 = k
          /\ j \in 1 .. n /\ k + 1 \in 1 .. n /\ j # k /\ k + 1 # k
      BY <1>1, <1>3
    <2>2. w[f[j]] <= w[f[k]] /\ w[f[k]] <= w[f[k + 1]]
      BY <2>1 DEF Sorted
    <2>3. w[f[j]] <= w[f[k + 1]]
      BY <2>1, <2>2
    <2> QED BY <2>1, <2>3
  <1>4. CASE j > k - 1
    <2>1. h[j] = f[j + 1] /\ h[j + 1] = f[(j + 1) + 1] /\ j + 1 \in 1 .. n - 1
          /\ j + 1 \in 1 .. n /\ (j + 1) + 1 \in 1 .. n /\ j + 1 # k /\ (j + 1) + 1 # k
      BY <1>1, <1>4
    <2>2. w[f[j + 1]] <= w[f[(j + 1) + 1]]
      BY <2>1 DEF Sorted
    <2> QED BY <2>1, <2>2
  <1> QED BY <1>2, <1>3, <1>4

-----------------------------------------------------------------------------
(* Nth runs through the sequence and stays at its end; there are no more    *)
(* timers in it than timers.                                                *)
LEMMA NthChain ==
  ASSUME TypeOK, NEW n, NEW f, IsChain(next, prev, n, f)
  PROVE  /\ n \in Nat /\ n <= N
         /\ \A k \in 0 .. n + 1 : Nth[k] = f[k]
         /\ \A k \in n + 1 .. N + 1 : Nth[k] = NULL
         /\ Listed = Members(n, f) /\ Cardinality(Listed) = n
  <1>0. n \in Nat /\ N \in Nat
    BY TimersFinite DEF IsChain
  <1>1. Cardinality(Members(n, f)) = n /\ n <= N
    <2>1. Members(n, f) \subseteq Timers
      BY DEF Members, IsChain
    <2> DEFINE b == [k \in 1 .. n |-> f[k]]
    <2>2. b \in Bijection(1 .. n, Members(n, f))
      <3>1. b \in [1 .. n -> Members(n, f)]
        BY DEF Members
      <3>2. \A j, k \in 1 .. n : b[j] = b[k] => j = k
        BY DEF IsChain
      <3>3. \A x \in Members(n, f) : \E k \in 1 .. n : b[k] = x
        BY DEF Members
      <3> HIDE DEF b
      <3> QED BY <3>1, <3>2, <3>3 DEF Bijection, Injection, Surjection, IsInjective
    <2>3. ExistsBijection(1 .. n, Members(n, f))
      BY <2>2 DEF ExistsBijection
    <2>4. Cardinality(Members(n, f)) = n
      BY <1>0, <2>3, FS_CountingElements
    <2>5. Cardinality(Members(n, f)) <= Cardinality(Timers)
      BY <2>1, FS_Subset, TimersAssumption
    <2> QED BY <2>4, <2>5 DEF N
  <1>2. Walk(Nth, N + 1)
    BY NthWalks DEF TypeOK
  <1>3. \A k \in 0 .. n + 1 : Nth[k] = f[k]
    <2>1. Follows(f, n + 1) /\ f[0] = Head
      <3>1. ASSUME NEW k \in 1 .. n + 1
            PROVE  f[k] = IF f[k - 1] = NULL THEN NULL ELSE next[f[k - 1]]
        <4>1. k - 1 \in 0 .. n /\ (k - 1) + 1 = k
          BY <1>0
        <4>2. f[k - 1] # NULL
          BY <4>1, ChainPlaces, Names
        <4> QED BY <4>1, <4>2 DEF IsChain
      <3> QED BY <3>1 DEF Follows, IsChain
    <2>2. Follows(Nth, n + 1) /\ Nth[0] = f[0]
      <3>1. \A k \in 1 .. n + 1 : k \in 1 .. N + 1
        BY <1>0, <1>1
      <3> QED BY <1>2, <2>1, <3>1 DEF Walk, Follows
    <2>3. n + 1 \in Nat
      BY <1>0
    <2> QED BY <2>1, <2>2, <2>3, WalkUnique
  <1>4. \A k \in n + 1 .. N + 1 : Nth[k] = NULL
    <2> DEFINE S == {k \in n + 1 .. N + 1 : Nth[k] # NULL}
    <2> SUFFICES ASSUME S # {} PROVE FALSE
      OBVIOUS
    <2>1. S \in SUBSET Nat
      BY <1>0
    <2>2. PICK k \in S : \A j \in S : k <= j
      <3> HIDE DEF S
      <3> QED BY <2>1, LeastExists
    <2>3. k # n + 1
      BY <1>0, <1>3, <2>2 DEF IsChain
    <2>4. k - 1 \in n + 1 .. N + 1 /\ k \in 1 .. N + 1 /\ k - 1 < k
      BY <1>0, <2>2, <2>3
    <2>5. Nth[k - 1] = NULL
      BY <1>0, <2>2, <2>4
    <2>6. Nth[k] = NULL
      BY <1>2, <2>4, <2>5 DEF Walk, Follows
    <2> QED BY <2>2, <2>6
  <1>5. Listed = Members(n, f)
    <2>1. ASSUME NEW k \in Positions, Nth[k] # NULL
          PROVE  Nth[k] \in Members(n, f)
      <3>1. k \in 1 .. N + 1
        BY DEF Positions, N
      <3>2. k \in 1 .. n
        BY <1>0, <1>4, <2>1, <3>1
      <3>3. Nth[k] = f[k]
        BY <1>0, <1>3, <3>2
      <3> QED BY <3>2, <3>3 DEF Members
    <2>2. ASSUME NEW k \in 1 .. n
          PROVE  k \in Positions /\ Nth[k] = f[k] /\ f[k] # NULL
      <3>1. k \in 0 .. n + 1 /\ k \in Positions
        BY <1>0, <1>1 DEF Positions, N
      <3> QED BY <1>3, <2>2, <3>1, Names DEF IsChain
    <2> QED BY <2>1, <2>2 DEF Listed, Members
  <1> QED BY <1>0, <1>1, <1>3, <1>4, <1>5

-----------------------------------------------------------------------------
(* Timers are used as documented: started when they do not run, stopped and *)
(* restarted when they do, and the last only by tasks that do not interrupt *)
(* the timer task and for timers that do not end by themselves.             *)
Disciplined == Careful = TRUE /\ Stoppable \subseteq Below \cap Periodic

(* The timers that belong into the list. *)
Due == armed \ InFlight

(* The list is a sequence of them, sorted by expiry. *)
ChainInv ==
  \E n \in Nat : \E f \in [0 .. n + 1 -> Links] :
    IsChain(next, prev, n, f) /\ Members(n, f) = Due /\ Sorted(when, n, f)

(* What the owner of a timer knows at each point of its calls. *)
OwnerAt(t) ==
  /\ own[t].pc \in {"start", "insert", "free"} => t \notin armed
  /\ own[t].pc = "is_active" /\ own[t].op # "is_active" => t \notin armed
  /\ own[t].pc \in {"restart", "remove"} => t \in armed /\ t \in Stoppable
  /\ own[t].pc # "idle" => t \in alive
  /\ own[t].pc = "insert" \/ t \in armed => (repeat[t] <=> t \in Periodic)
OwnerInv == armed \subseteq alive /\ \A t \in Timers : OwnerAt(t)

(* What the timer task has in hand: the timer it is at is in the list, or   *)
(* taken out and armed; the one it goes on with stays in the list while the *)
(* lock is given up for the insertion.                                      *)
TaskInv ==
  /\ task.pc \in {"callback", "stop", "insert"} => task.t \in armed
  /\ task.pc = "loop" => task.t \in Due \cup {NULL}
  /\ task.pc \in {"callback", "stop", "insert", "relock"} => task.next \in Due \cup {NULL}

(* The inductive invariant of the list, which lasts until                   *)
(* oblfr_timer_deinit takes the list apart.                                 *)
ListInv == ChainInv /\ OwnerInv /\ TaskInv
LInv == TInv /\ (deinit.pc = "none" => ListInv)

(* The list stays as it is, and time passes for all of its timers alike. *)
LEMMA ChainKept ==
  ASSUME ChainInv, Due' = Due,
         next'[Head] = next[Head], \A x \in Due : next'[x] = next[x] /\ prev'[x] = prev[x],
         \A x, y \in Due : when[x] <= when[y] => when'[x] <= when'[y]
  PROVE  ChainInv'
  <1>0. PICK n \in Nat : \E f \in [0 .. n + 1 -> Links] :
          IsChain(next, prev, n, f) /\ Members(n, f) = Due /\ Sorted(when, n, f)
    BY DEF ChainInv
  <1>1. PICK f \in [0 .. n + 1 -> Links] :
          IsChain(next, prev, n, f) /\ Members(n, f) = Due /\ Sorted(when, n, f)
    BY <1>0
  <1>2. \A k \in 1 .. n : f[k] \in Due
    BY <1>1 DEF Members
  <1>3. \A k \in 1 .. n - 1 : k \in 1 .. n /\ k + 1 \in 1 .. n
    BY <1>1
  <1>4. Sorted(when', n, f)
    BY <1>1, <1>2, <1>3 DEF Sorted
  <1>5. IsChain(next', prev', n, f)
    <2>1. \A k \in 0 .. n : next'[f[k]] = next[f[k]]
      <3>1. \A k \in 0 .. n : k = 0 \/ k \in 1 .. n
        OBVIOUS
      <3> QED BY <1>1, <1>2, <3>1 DEF IsChain
    <2>2. \A k \in 1 .. n : prev'[f[k]] = prev[f[k]]
      BY <1>2
    <2> QED BY <1>1, <2>1, <2>2 DEF IsChain
  <1> QED BY <1>1, <1>4, <1>5 DEF ChainInv

(* oblfr_timer_insert *)
LEMMA ChainAdd ==
  ASSUME TypeOK, ChainInv, NEW t \in Timers, t \notin Due, oblfr_timer_insert(t), when' = when,
         Due' = Due \cup {t}
  PROVE  ChainInv'
  <1>0. PICK n \in Nat : \E f \in [0 .. n + 1 -> Links] :
          IsChain(next, prev, n, f) /\ Members(n, f) = Due /\ Sorted(when, n, f)
    BY DEF ChainInv
  <1>1. PICK f \in [0 .. n + 1 -> Links] :
          IsChain(next, prev, n, f) /\ Members(n, f) = Due /\ Sorted(when, n, f)
    BY <1>0
  <1>2. PICK k \in Positions : Position(t, k) /\ InsertAfter(Nth[k - 1], t)
    BY DEF oblfr_timer_insert
  <1>3. /\ n <= N /\ N \in Nat /\ \A j \in 0 .. n + 1 : Nth[j] = f[j]
        /\ \A j \in n + 1 .. N + 1 : Nth[j] = NULL
    BY <1>1, NthChain, TimersFinite
  <1>4. k \in 1 .. n + 1
    <2>1. k \in 1 .. N + 1
      BY DEF Positions, N
    <2>2. ASSUME k > n + 1 PROVE FALSE
      <3>1. n + 1 \in 1 .. k - 1 /\ n + 1 \in n + 1 .. N + 1
        BY <1>1, <1>3, <2>1, <2>2
      <3> QED BY <1>2, <1>3, <3>1 DEF Position
    <2> QED BY <1>1, <2>1, <2>2
  <1>5. Nth[k - 1] = f[k - 1] /\ Nth[k] = f[k] /\ \A j \in 1 .. k - 1 : j \in 1 .. n /\ Nth[j] = f[j]
    BY <1>1, <1>3, <1>4
  <1>6. next' = NextIn(next, f[k - 1], t) /\ prev' = PrevIn(next, prev, f[k - 1], t)
    BY <1>2, <1>5 DEF InsertAfter, NextIn, PrevIn
  <1> DEFINE h == With(n, f, t, k)
  <1>7. IsChain(next', prev', n + 1, h) /\ Members(n + 1, h) = Due'
    <2>1. LinkTypes(next, prev)
      BY DEF TypeOK, Links, LinkTypes
    <2>2. t \notin Members(n, f)
      BY <1>1
    <2>3. IsChain(next', prev', n + 1, h) /\ Members(n + 1, h) = Members(n, f) \cup {t}
      BY <1>1, <1>4, <1>6, <2>1, <2>2, ChainInsert
    <2> QED BY <1>1, <2>3
  <1>8. Sorted(when', n + 1, h)
    <2>1. \A j \in 1 .. n : when[f[j]] \in Int /\ when'[f[j]] = when[f[j]]
      BY <1>1 DEF TypeOK, IsChain
    <2>2. when'[t] \in Int /\ when'[t] = when[t]
      BY DEF TypeOK
    <2>3. \A j \in 1 .. k - 1 : when[f[j]] <= when'[t]
      BY <1>2, <1>5, <2>2 DEF Position
    <2>4. k \in 1 .. n => when[f[k]] > when'[t]
      <3>1. k \in 1 .. n => f[k] # NULL
        BY <1>1, Names DEF IsChain
      <3> QED BY <1>2, <1>5, <2>2, <3>1 DEF Position
    <2> QED BY <1>1, <1>4, <2>1, <2>2, <2>3, <2>4, SortedInsert
  <1>9. n + 1 \in Nat /\ h \in [0 .. (n + 1) + 1 -> Links]
    BY <1>7 DEF IsChain
  <1> QED BY <1>7, <1>8, <1>9 DEF ChainInv

(* LIST_REMOVE.  The timer behind the removed one stays in the list. *)
LEMMA ChainTake ==
  ASSUME TypeOK, ChainInv, NEW t \in Due, LIST_REMOVE(t), Due' = Due \ {t},
         \A x \in Due \ {t} : when'[x] = when[x]
  PROVE  ChainInv' /\ next[t] \in (Due \ {t}) \cup {NULL}
  <1>0. PICK n \in Nat : \E f \in [0 .. n + 1 -> Links] :
          IsChain(next, prev, n, f) /\ Members(n, f) = Due /\ Sorted(when, n, f)
    BY DEF ChainInv
  <1>1. PICK f \in [0 .. n + 1 -> Links] :
          IsChain(next, prev, n, f) /\ Members(n, f) = Due /\ Sorted(when, n, f)
    BY <1>0
  <1>2. PICK k \in 1 .. n : f[k] = t
    BY <1>1 DEF Members
  <1> DEFINE h == Less(n, f, k)
  <1>3. IsChain(next', prev', n - 1, h) /\ Members(n - 1, h) = Due'
    <2>1. LinkTypes(next, prev)
      BY DEF TypeOK, Links, LinkTypes
    <2>2. next' = NextOut(next, prev, f[k]) /\ prev' = PrevOut(next, prev, f[k])
      BY <1>2 DEF LIST_REMOVE, NextOut, PrevOut
    <2>3. IsChain(next', prev', n - 1, h) /\ Members(n - 1, h) = Members(n, f) \ {f[k]}
      BY <1>1, <2>1, <2>2, ChainRemove
    <2> QED BY <1>1, <1>2, <2>3
  <1>4. Sorted(when', n - 1, h)
    <2>1. \A j \in 1 .. n : when[f[j]] \in Int
      BY <1>1 DEF TypeOK, IsChain
    <2>2. \A j \in 1 .. n : j # k => when'[f[j]] = when[f[j]]
      BY <1>1, <1>2 DEF IsChain, Members
    <2> QED BY <1>1, <2>1, <2>2, SortedRemove
  <1>5. n - 1 \in Nat /\ h \in [0 .. (n - 1) + 1 -> Links]
    BY <1>3 DEF IsChain
  <1>6. next[t] \in (Due \ {t}) \cup {NULL}
    <2>1. k \in 0 .. n /\ next[t] = f[k + 1]
      BY <1>1, <1>2 DEF IsChain
    <2>2. CASE k = n
      BY <1>1, <2>1, <2>2 DEF IsChain
    <2>3. CASE k # n
      <3>1. k + 1 \in 1 .. n /\ k + 1 # k
        BY <1>1, <2>3
      <3>2. f[k + 1] # t
        BY <1>1, <1>2, <3>1 DEF IsChain
      <3> QED BY <1>1, <2>1, <3>1, <3>2 DEF Members
    <2> QED BY <2>2, <2>3
  <1> QED BY <1>3, <1>4, <1>5, <1>6 DEF ChainInv

(* The first timer of the list is due. *)
LEMMA ChainFirst ==
  ASSUME ChainInv
  PROVE  next[Head] \in Due \cup {NULL}
  <1>0. PICK n \in Nat : \E f \in [0 .. n + 1 -> Links] :
          IsChain(next, prev, n, f) /\ Members(n, f) = Due
    BY DEF ChainInv
  <1>1. PICK f \in [0 .. n + 1 -> Links] :
          IsChain(next, prev, n, f) /\ Members(n, f) = Due
    BY <1>0
  <1>2. next[Head] = f[1]
    BY <1>1 DEF IsChain
  <1>3. CASE n = 0
    BY <1>1, <1>2, <1>3 DEF IsChain
  <1>4. CASE n # 0
    BY <1>1, <1>2, <1>4 DEF Members
  <1> QED BY <1>3, <1>4

-----------------------------------------------------------------------------
(* How the record of an owner changes. *)
LEMMA OwnSteps ==
  ASSUME TypeOK, NEW t \in Timers
  PROVE  /\ own[t].pc \in {"idle", "restart", "is_active", "start", "insert", "remove", "recalc", "free"}
         /\ \A pc : Goto(t, pc) => /\ own'[t].pc = pc /\ own'[t].op = own[t].op
                                   /\ \A x \in Timers : x # t => own'[x] = own[x]
         /\ Return(t) => /\ own'[t].pc = "idle"
                         /\ \A x \in Timers : x # t => own'[x] = own[x]
         /\ \A op, arg, pc : Call(t, op, arg, pc) =>
              /\ own[t].pc = "idle" /\ t \in alive
              /\ own'[t].pc = pc /\ own'[t].op = op
              /\ \A x \in Timers : x # t => own'[x] = own[x]
  <1>1. own \in [Timers -> OwnRec]
    BY DEF TypeOK, OwnRec
  <1>2. own[t] \in OwnRec
    BY <1>1
  <1>3. own[t].pc \in {"idle", "restart", "is_active", "start", "insert", "remove", "recalc", "free"}
    BY <1>2 DEF OwnRec
  <1>4. ASSUME NEW pc, Goto(t, pc)
        PROVE  /\ own'[t].pc = pc /\ own'[t].op = own[t].op
               /\ \A x \in Timers : x # t => own'[x] = own[x]
    BY <1>1, <1>2, <1>4 DEF Goto, OwnRec
  <1>5. Return(t) => /\ own'[t].pc = "idle"
                     /\ \A x \in Timers : x # t => own'[x] = own[x]
    BY <1>1 DEF Return, Idle
  <1>6. ASSUME NEW op, NEW arg, NEW pc, Call(t, op, arg, pc)
        PROVE  /\ own[t].pc = "idle" /\ t \in alive
               /\ own'[t].pc = pc /\ own'[t].op = op
               /\ \A x \in Timers : x # t => own'[x] = own[x]
    BY <1>1, <1>6 DEF Call, At
  <1> QED BY <1>3, <1>4, <1>5, <1>6

(* What an owner knows, the others do not change. *)
LEMMA OwnerKept ==
  ASSUME NEW x \in Timers, OwnerAt(x), own'[x] = own[x], x \in armed' <=> x \in armed,
         x \in alive => x \in alive', repeat'[x] = repeat[x]
  PROVE  OwnerAt(x)'
  BY DEF OwnerAt

(* A step that leaves list and timers alone. *)
LEMMA MemoryKept ==
  ASSUME ChainInv, UNCHANGED memory, InFlight' = InFlight
  PROVE  ChainInv' /\ Due' = Due
  <1>1. Due' = Due
    BY DEF memory, Due
  <1>2. next' = next /\ prev' = prev /\ when' = when
    BY DEF memory, links, fields
  <1> QED BY <1>1, <1>2, ChainKept

(* What the timer task has in hand, as long as it takes no step itself. *)
LEMMA TaskKept ==
  ASSUME TaskInv, task' = task, armed \subseteq armed', Due \subseteq Due'
  PROVE  TaskInv'
  BY DEF TaskInv

(* The entries of the calls *)
LEMMA CallList ==
  ASSUME Disciplined, TypeOK, ListInv, NEW t \in Timers, NEW op, NEW arg, NEW pc, Call(t, op, arg, pc),
         pc \in {"is_active", "restart", "remove"},
         pc = "is_active" => op = "is_active" \/ t \notin armed,
         pc \in {"restart", "remove"} => t \in armed /\ t \in Stoppable
  PROVE  ListInv'
  <1>1. UNCHANGED memory /\ task' = task
    BY DEF Call
  <1>2. UNCHANGED <<alive, armed, repeat>>
    BY <1>1 DEF memory, fields
  <1>3. ChainInv' /\ Due' = Due
    BY <1>1, MemoryKept DEF ListInv, InFlight
  <1>4. TaskInv'
    BY <1>1, <1>2, <1>3, TaskKept DEF ListInv
  <1>5. t \in alive /\ own'[t].pc = pc /\ own'[t].op = op /\ \A x \in Timers : x # t => own'[x] = own[x]
    BY OwnSteps
  <1>6. OwnerAt(t)'
    BY <1>2, <1>5 DEF OwnerAt, ListInv, OwnerInv
  <1>7. OwnerInv'
    BY <1>2, <1>5, <1>6, OwnerKept DEF ListInv, OwnerInv
  <1> QED BY <1>3, <1>4, <1>7 DEF ListInv


(* The steps of the owners *)
LEMMA OwnerList ==
  ASSUME Disciplined, TypeOK, ListInv, NEW t \in Timers, OwnerRuns(t), Owner(t) \/ OwnerStep(t)
  PROVE  ListInv'
  <1> USE DEF ListInv
  <1>0. /\ OwnerAt(t) /\ armed \subseteq alive /\ Careful /\ Due \subseteq armed
        /\ \A x \in Timers : OwnerAt(x)
    BY DEF OwnerInv, Disciplined, Due
  <1>1. CASE oblfr_timer_create(t)
    <2>1. t \notin armed /\ UNCHANGED <<armed, repeat, when, own, task>> /\ alive' = alive \cup {t}
      BY <1>0, <1>1 DEF oblfr_timer_create, fields
    <2>2. Due' = Due
      BY <2>1 DEF Due, InFlight
    <2>3. next'[Head] = next[Head] /\ \A x \in Due : next'[x] = next[x] /\ prev'[x] = prev[x]
      BY <1>0, <1>1, <2>1, Names DEF oblfr_timer_create, TypeOK
    <2>4. ChainInv'
      BY <2>1, <2>2, <2>3, ChainKept
    <2>5. TaskInv'
      BY <2>1, <2>2, TaskKept
    <2>6. OwnerInv'
      BY <1>0, <2>1, OwnerKept DEF OwnerInv
    <2> QED BY <2>4, <2>5, <2>6
  <1>2. CASE oblfr_timer_start_once(t)
    BY <1>0, <1>2, CallList DEF oblfr_timer_start_once
  <1>3. CASE oblfr_timer_start_periodic(t)
    BY <1>0, <1>3, CallList DEF oblfr_timer_start_periodic
  <1>4. CASE oblfr_timer_restart(t)
    BY <1>0, <1>4, CallList DEF oblfr_timer_restart
  <1>5. CASE oblfr_timer_stop(t)
    BY <1>0, <1>5, CallList DEF oblfr_timer_stop
  <1>6. CASE oblfr_timer_delete(t)
    BY <1>0, <1>6, CallList DEF oblfr_timer_delete
  <1>7. CASE Query(t)
    BY <1>0, <1>7, CallList DEF Query
  <1>8. CASE oblfr_timer_is_active(t)
    <2>1. UNCHANGED memory /\ task' = task
      BY <1>8 DEF oblfr_timer_is_active
    <2>2. UNCHANGED <<alive, armed, repeat>>
      BY <2>1 DEF memory, fields
    <2>3. ChainInv' /\ Due' = Due
      BY <2>1, MemoryKept DEF InFlight
    <2>4. TaskInv'
      BY <2>1, <2>2, <2>3, TaskKept
    <2>5. \/ At(t, "restart") /\ Goto(t, "remove")
          \/ At(t, "is_active") /\ own[t].op # "is_active" /\ (Goto(t, "free") \/ Goto(t, "start"))
          \/ Return(t)
      BY <1>8 DEF oblfr_timer_is_active
    <2>6. \A x \in Timers : x # t => own'[x] = own[x]
      BY <2>5, OwnSteps
    <2>7. OwnerAt(t)'
      <3>1. CASE At(t, "restart") /\ Goto(t, "remove")
        <4>1. own'[t].pc = "remove"
          BY <3>1, OwnSteps
        <4> QED BY <1>0, <2>2, <3>1, <4>1 DEF OwnerAt, At
      <3>2. CASE At(t, "is_active") /\ own[t].op # "is_active" /\ (Goto(t, "free") \/ Goto(t, "start"))
        <4>1. own'[t].pc \in {"free", "start"}
          BY <3>2, OwnSteps
        <4> QED BY <1>0, <2>2, <3>2, <4>1 DEF OwnerAt, At
      <3>3. CASE Return(t)
        <4>1. own'[t].pc = "idle"
          BY <3>3, OwnSteps
        <4> QED BY <1>0, <2>2, <4>1 DEF OwnerAt
      <3> QED BY <2>5, <3>1, <3>2, <3>3
    <2>8. OwnerInv'
      BY <1>0, <2>2, <2>6, <2>7, OwnerKept DEF OwnerInv
    <2> QED BY <2>3, <2>4, <2>8
  <1>9. CASE StartAt(t)
    <2>1. /\ t \notin armed /\ t \in alive /\ UNCHANGED <<links, alive, armed, task>>
          /\ Goto(t, "insert")
      BY <1>0, <1>9 DEF StartAt, At, OwnerAt
    <2>2. own'[t].pc = "insert" /\ \A x \in Timers : x # t => own'[x] = own[x]
      BY <2>1, OwnSteps
    <2>3. /\ \A x \in Timers : x # t => when'[x] = when[x] /\ repeat'[x] = repeat[x]
          /\ repeat'[t] = (t \in Periodic)
      BY <1>9 DEF StartAt, TypeOK
    <2>4. Due' = Due /\ next' = next /\ prev' = prev
      BY <2>1 DEF Due, InFlight, links
    <2>5. ChainInv'
      <3>1. \A x \in Due : x \in Timers /\ x # t
        BY <1>0, <2>1 DEF TypeOK
      <3>2. \A x \in Due : when'[x] = when[x]
        BY <2>3, <3>1
      <3> QED BY <2>4, <3>2, ChainKept
    <2>6. TaskInv'
      BY <2>1, <2>4, TaskKept
    <2>7. OwnerAt(t)'
      BY <2>1, <2>2, <2>3 DEF OwnerAt
    <2>8. OwnerInv'
      BY <1>0, <2>1, <2>2, <2>3, <2>7, OwnerKept DEF OwnerInv
    <2> QED BY <2>5, <2>6, <2>8
  <1>10. CASE StartInsert(t)
    <2>1. /\ t \notin armed /\ t \in alive /\ armed' = armed \cup {t} /\ UNCHANGED <<fields, alive, task>>
          /\ Goto(t, "recalc") /\ oblfr_timer_insert(t) /\ (repeat[t] <=> t \in Periodic)
      BY <1>0, <1>10 DEF StartInsert, At, OwnerAt
    <2>2. own'[t].pc = "recalc" /\ \A x \in Timers : x # t => own'[x] = own[x]
      BY <2>1, OwnSteps
    <2>3. when' = when /\ repeat' = repeat
      BY <2>1 DEF fields
    <2>4. Due' = Due \cup {t}
      <3>1. t \notin InFlight
        BY <2>1 DEF InFlight, TaskInv
      <3> QED BY <2>1, <3>1 DEF Due, InFlight
    <2>5. ChainInv'
      BY <1>0, <2>1, <2>3, <2>4, ChainAdd
    <2>6. TaskInv'
      BY <2>1, <2>4, TaskKept
    <2>7. OwnerAt(t)'
      BY <2>1, <2>2, <2>3 DEF OwnerAt
    <2>8. OwnerInv'
      BY <1>0, <2>1, <2>2, <2>3, <2>7, OwnerKept DEF OwnerInv
    <2> QED BY <2>5, <2>6, <2>8
  <1>11. CASE StopRemove(t)
    <2>1. /\ t \in armed /\ t \in Stoppable /\ oblfr_timer_remove(t)
          /\ UNCHANGED <<repeat, alive, task>>
          /\ Goto(t, IF own[t].op = "stop" THEN "recalc" ELSE "is_active")
      BY <1>0, <1>11 DEF StopRemove, At, OwnerAt
    <2>2. own'[t].pc \in {"recalc", "is_active"} /\ \A x \in Timers : x # t => own'[x] = own[x]
      BY <2>1, OwnSteps
    <2>3. task.pc = "wait"
      BY <2>1 DEF OwnerRuns, Rests, Disciplined
    <2>4. LIST_REMOVE(t) /\ armed' = armed \ {t} /\ \A x \in Timers : x # t => when'[x] = when[x]
      BY <2>1 DEF oblfr_timer_remove, TypeOK
    <2>5. Due = armed /\ Due' = Due \ {t}
      BY <2>1, <2>3, <2>4 DEF Due, InFlight
    <2>6. ChainInv'
      <3>1. \A x \in Due \ {t} : when'[x] = when[x]
        BY <2>4, <2>5 DEF TypeOK
      <3> QED BY <2>1, <2>4, <2>5, <3>1, ChainTake
    <2>7. TaskInv'
      BY <2>1, <2>3 DEF TaskInv
    <2>8. OwnerAt(t)'
      BY <1>0, <2>1, <2>2, <2>4 DEF OwnerAt
    <2>9. OwnerInv'
      BY <1>0, <2>1, <2>2, <2>4, <2>8, OwnerKept DEF OwnerInv
    <2> QED BY <2>6, <2>7, <2>9
  <1>12. CASE Recalc(t)
    <2>1. UNCHANGED memory /\ task' = task /\ Return(t)
      BY <1>12 DEF Recalc
    <2>2. UNCHANGED <<alive, armed, repeat>>
      BY <2>1 DEF memory, fields
    <2>3. ChainInv' /\ Due' = Due
      BY <2>1, MemoryKept DEF InFlight
    <2>4. TaskInv'
      BY <2>1, <2>2, <2>3, TaskKept
    <2>5. own'[t].pc = "idle" /\ \A x \in Timers : x # t => own'[x] = own[x]
      BY <2>1, OwnSteps
    <2>6. OwnerAt(t)'
      BY <1>0, <2>2, <2>5 DEF OwnerAt
    <2>7. OwnerInv'
      BY <1>0, <2>2, <2>5, <2>6, OwnerKept DEF OwnerInv
    <2> QED BY <2>3, <2>4, <2>7
  <1>13. CASE Free(t)
    <2>1. /\ t \notin armed /\ alive' = alive \ {t} /\ UNCHANGED <<links, fields, armed, task>>
          /\ Return(t)
      BY <1>0, <1>13 DEF Free, At, OwnerAt
    <2>2. next' = next /\ prev' = prev /\ when' = when /\ repeat' = repeat
      BY <2>1 DEF links, fields
    <2>3. Due' = Due
      BY <2>1 DEF Due, InFlight
    <2>4. ChainInv'
      BY <2>2, <2>3, ChainKept
    <2>5. TaskInv'
      BY <2>1, <2>3, TaskKept
    <2>6. own'[t].pc = "idle" /\ \A x \in Timers : x # t => own'[x] = own[x]
      BY <2>1, OwnSteps
    <2>7. OwnerAt(t)'
      BY <2>1, <2>6 DEF OwnerAt
    <2>8. OwnerInv'
      BY <1>0, <2>1, <2>2, <2>6, <2>7, OwnerKept DEF OwnerInv
    <2> QED BY <2>4, <2>5, <2>8
  <1> QED
    BY <1>1, <1>2, <1>3, <1>4, <1>5, <1>6, <1>7, <1>8, <1>9, <1>10, <1>11, <1>12, <1>13
    DEF Owner, OwnerStep


(* The steps of the interrupt, of time and of the timer task *)
LEMMA TaskList ==
  ASSUME Disciplined, TypeOK, ListInv, timer_isr \/ Tick \/ oblfr_timer_task \/ Process
  PROVE  ListInv'
  <1> USE DEF ListInv
  <1>0. /\ armed \subseteq alive /\ Due \subseteq armed /\ armed \subseteq Timers
        /\ task \in TaskRec /\ \A x \in Timers : OwnerAt(x)
    BY DEF OwnerInv, Due, TypeOK, TaskRec
  <1>1. ASSUME UNCHANGED memory, own' = own
        PROVE  OwnerInv'
    <2>1. alive' = alive /\ armed' = armed /\ repeat' = repeat
      BY <1>1 DEF memory, fields
    <2> QED BY <1>0, <1>1, <2>1, OwnerKept DEF OwnerInv
  <1>2. CASE timer_isr
    <2>1. UNCHANGED memory /\ own' = own /\ task' = task /\ armed' = armed
      BY <1>2 DEF timer_isr, memory
    <2>2. ChainInv' /\ Due' = Due
      BY <2>1, MemoryKept DEF InFlight
    <2> QED BY <1>1, <2>1, <2>2, TaskKept
  <1>3. CASE Tick
    <2>1. UNCHANGED <<links, repeat, alive, armed, task, own>>
      BY <1>3 DEF Tick
    <2>2. Due' = Due /\ next' = next /\ prev' = prev
      BY <2>1 DEF Due, InFlight, links
    <2>3. \A x, y \in Due : when[x] <= when[y] => when'[x] <= when'[y]
      <3>1. SUFFICES ASSUME NEW x \in Timers, NEW y \in Timers, when[x] <= when[y]
                     PROVE  when'[x] <= when'[y]
        BY <1>0
      <3>2. when[x] \in Int /\ when[y] \in Int /\ Past \in Int
        BY TimesAssumption DEF TypeOK, Past
      <3>3. /\ when'[x] = IF when[x] > Past THEN when[x] - 1 ELSE Past
            /\ when'[y] = IF when[y] > Past THEN when[y] - 1 ELSE Past
        BY <1>3 DEF Tick
      <3> HIDE DEF Past
      <3> QED BY <3>1, <3>2, <3>3
    <2>4. ChainInv'
      BY <2>2, <2>3, ChainKept
    <2>5. OwnerInv'
      BY <1>0, <2>1, OwnerKept DEF OwnerInv
    <2> QED BY <2>1, <2>2, <2>4, <2>5, TaskKept
  <1>4. CASE oblfr_timer_task
    <2>1. UNCHANGED memory /\ own' = own /\ task.pc = "wait" /\ task'.pc = "lock"
      BY <1>0, <1>4 DEF oblfr_timer_task, TaskRec
    <2>2. InFlight' = InFlight
      BY <2>1 DEF InFlight
    <2>3. TaskInv'
      BY <2>1 DEF TaskInv
    <2> QED BY <1>1, <2>1, <2>2, <2>3, MemoryKept
  <1>5. CASE ProcessLock
    <2>1. UNCHANGED memory /\ own' = own /\ task.pc = "lock" /\ task'.pc = "loop" /\ task'.t = next[Head]
      BY <1>0, <1>5 DEF ProcessLock, TaskRec
    <2>2. InFlight' = InFlight
      BY <2>1 DEF InFlight
    <2>3. ChainInv' /\ Due' = Due
      BY <2>1, <2>2, MemoryKept
    <2>4. TaskInv'
      BY <2>1, <2>3, ChainFirst DEF TaskInv
    <2> QED BY <1>1, <2>1, <2>3, <2>4
  <1>6. CASE ProcessDone
    <2>1. UNCHANGED memory /\ own' = own /\ task.pc = "loop" /\ task'.pc = "recalc"
      BY <1>6 DEF ProcessDone
    <2>2. InFlight' = InFlight
      BY <2>1 DEF InFlight
    <2>3. TaskInv'
      BY <2>1 DEF TaskInv
    <2> QED BY <1>1, <2>1, <2>2, <2>3, MemoryKept
  <1>7. CASE ProcessExpired
    <2>1. /\ task.pc = "loop" /\ task.t # NULL /\ LIST_REMOVE(task.t)
          /\ UNCHANGED <<fields, alive, armed, own>>
          /\ task'.pc = "callback" /\ task'.t = task.t /\ task'.next = next[task.t]
      BY <1>0, <1>7 DEF ProcessExpired, TaskRec
    <2>2. task.t \in Due /\ when' = when /\ repeat' = repeat
      BY <2>1 DEF TaskInv, fields
    <2>3. Due' = Due \ {task.t}
      BY <2>1 DEF Due, InFlight
    <2>4. ChainInv' /\ next[task.t] \in (Due \ {task.t}) \cup {NULL}
      BY <2>1, <2>2, <2>3, ChainTake
    <2>5. TaskInv'
      BY <1>0, <2>1, <2>2, <2>3, <2>4 DEF TaskInv
    <2>6. OwnerInv'
      BY <1>0, <2>1, <2>2, OwnerKept DEF OwnerInv
    <2> QED BY <2>4, <2>5, <2>6
  <1>8. CASE ProcessCallback
    <2>1. /\ task.pc = "callback" /\ Expire(task.t) /\ task.t \in armed /\ task.next \in Due \cup {NULL}
          /\ UNCHANGED <<links, repeat, alive, own>>
      BY <1>8 DEF ProcessCallback, TaskInv
    <2>2. next' = next /\ prev' = prev /\ task.t \in Timers /\ task.t \notin Due
      BY <1>0, <2>1 DEF links, Due, InFlight
    <2>3. CASE repeat[task.t]
      <3>1. /\ armed' = armed /\ task'.pc = "insert" /\ task'.t = task.t /\ task'.next = task.next
            /\ \A x \in Timers : x # task.t => when'[x] = when[x]
        BY <1>0, <1>8, <2>3 DEF ProcessCallback, Expire, TaskRec, TypeOK
      <3>2. Due' = Due
        BY <2>1, <3>1 DEF Due, InFlight
      <3>3. \A x \in Due : when'[x] = when[x]
        BY <1>0, <2>2, <3>1
      <3>4. ChainInv'
        BY <2>2, <3>2, <3>3, ChainKept
      <3>5. TaskInv'
        BY <2>1, <3>1, <3>2 DEF TaskInv
      <3>6. OwnerInv'
        BY <1>0, <2>1, <3>1, OwnerKept DEF OwnerInv
      <3> QED BY <3>4, <3>5, <3>6
    <2>4. CASE ~repeat[task.t]
      <3>1. /\ armed' = armed \ {task.t} /\ task'.pc = "loop" /\ task'.t = task.next /\ when' = when
        BY <1>0, <1>8, <2>4 DEF ProcessCallback, Expire, TaskRec
      <3>2. Due' = Due
        BY <2>1, <3>1 DEF Due, InFlight
      <3>3. ChainInv'
        BY <2>2, <3>1, <3>2, ChainKept
      <3>4. TaskInv'
        BY <2>1, <3>1, <3>2 DEF TaskInv
      <3>5. PICK t \in Timers : t = task.t
        BY <2>2
      <3>6. OwnerAt(t)'
        <4>1. OwnerAt(t) /\ t \in armed /\ ~repeat[t] /\ armed' = armed \ {t}
          BY <1>0, <2>1, <2>4, <3>1, <3>5
        <4>2. t \notin Stoppable
          BY <4>1 DEF OwnerAt, Disciplined
        <4> QED BY <2>1, <4>1, <4>2 DEF OwnerAt
      <3>7. \A x \in Timers : x # t => OwnerAt(x)'
        BY <1>0, <2>1, <3>1, <3>5, OwnerKept
      <3>8. OwnerInv'
        BY <1>0, <2>1, <3>1, <3>6, <3>7 DEF OwnerInv
      <3> QED BY <3>3, <3>4, <3>8
    <2> QED BY <2>3, <2>4
  <1>9. CASE CallbackStop
    <2>1. /\ UNCHANGED memory /\ own' = own /\ armed' = armed
          /\ task.pc = "callback" /\ task'.pc = "stop" /\ task'.t = task.t /\ task'.next = task.next
      BY <1>0, <1>9 DEF CallbackStop, TaskRec, memory
    <2>2. InFlight' = InFlight
      BY <2>1 DEF InFlight
    <2>3. ChainInv' /\ Due' = Due
      BY <2>1, <2>2, MemoryKept
    <2>4. TaskInv'
      BY <2>1, <2>3 DEF TaskInv
    <2> QED BY <1>1, <2>1, <2>3, <2>4
  <1>10. CASE ProcessInsert
    <2>1. /\ task.pc = "insert" /\ oblfr_timer_insert(task.t) /\ task.t \in armed
          /\ task.next \in Due \cup {NULL} /\ UNCHANGED <<fields, alive, armed, own>>
          /\ task'.pc = "relock" /\ task'.next = task.next
      BY <1>0, <1>10 DEF ProcessInsert, TaskInv, TaskRec
    <2>2. task.t \in Timers /\ task.t \notin Due /\ when' = when /\ repeat' = repeat
      BY <1>0, <2>1 DEF Due, InFlight, fields
    <2>3. Due' = Due \cup {task.t}
      BY <2>1 DEF Due, InFlight
    <2>4. ChainInv'
      BY <2>1, <2>2, <2>3, ChainAdd
    <2>5. TaskInv'
      BY <2>1, <2>3 DEF TaskInv
    <2>6. OwnerInv'
      BY <1>0, <2>1, <2>2, OwnerKept DEF OwnerInv
    <2> QED BY <2>4, <2>5, <2>6
  <1>11. CASE ProcessRelock
    <2>1. /\ UNCHANGED memory /\ own' = own
          /\ task.pc = "relock" /\ task'.pc = "loop" /\ task'.t = task.next
      BY <1>0, <1>11 DEF ProcessRelock, TaskRec
    <2>2. InFlight' = InFlight
      BY <2>1 DEF InFlight
    <2>3. ChainInv' /\ Due' = Due
      BY <2>1, <2>2, MemoryKept
    <2>4. TaskInv'
      BY <2>1, <2>3 DEF TaskInv
    <2> QED BY <1>1, <2>1, <2>3, <2>4
  <1>12. CASE ProcessRecalc
    <2>1. UNCHANGED memory /\ own' = own /\ task.pc = "recalc" /\ task'.pc = "wait"
      BY <1>0, <1>12 DEF ProcessRecalc, TaskRec
    <2>2. InFlight' = InFlight
      BY <2>1 DEF InFlight
    <2>3. TaskInv'
      BY <2>1 DEF TaskInv
    <2> QED BY <1>1, <2>1, <2>2, <2>3, MemoryKept
  <1> QED
    BY <1>2, <1>3, <1>4, <1>5, <1>6, <1>7, <1>8, <1>9, <1>10, <1>11, <1>12 DEF Process

-----------------------------------------------------------------------------
(* The list invariant holds at the start. *)
LEMMA InitList == Init => ListInv
  <1> SUFFICES ASSUME Init PROVE ListInv
    OBVIOUS
  <1>1. armed = {} /\ alive = {} /\ task.pc = "wait" /\ \A t \in Timers : own[t].pc = "idle"
    BY DEF Init, Idle
  <1>2. next[Head] = NULL
    BY DEF Init
  <1> DEFINE f == [k \in 0 .. 1 |-> IF k = 0 THEN Head ELSE NULL]
  <1>3. f \in [0 .. 0 + 1 -> Links] /\ f[0] = Head /\ f[0 + 1] = NULL
    BY DEF Links
  <1> HIDE DEF f
  <1>4. IsChain(next, prev, 0, f)
    BY <1>2, <1>3 DEF IsChain
  <1>5. Members(0, f) = Due /\ Sorted(when, 0, f)
    BY <1>1 DEF Members, Due, Sorted
  <1>6. ChainInv
    BY <1>3, <1>4, <1>5 DEF ChainInv
  <1>7. OwnerInv /\ TaskInv
    BY <1>1 DEF OwnerInv, OwnerAt, TaskInv
  <1> QED BY <1>6, <1>7 DEF ListInv

(* Every step of disciplined owners keeps the list invariant. *)
LEMMA NextList ==
  ASSUME Disciplined, LInv, [Next]_vars
  PROVE  LInv'
  <1>1. TInv'
    BY NextType DEF LInv
  <1>2. ASSUME deinit'.pc = "none" PROVE ListInv'
    <2>0. TypeOK
      BY DEF LInv, TInv
    <2>1. CASE UNCHANGED vars
      <3>1. UNCHANGED memory /\ task' = task /\ own' = own /\ deinit' = deinit /\ armed' = armed
            /\ alive' = alive /\ repeat' = repeat
        BY <2>1 DEF vars, memory, fields
      <3>2. ListInv
        BY <1>2, <3>1 DEF LInv
      <3>3. ChainInv' /\ Due' = Due
        BY <3>1, <3>2, MemoryKept DEF InFlight, ListInv
      <3>4. TaskInv'
        BY <3>1, <3>2, <3>3, TaskKept DEF ListInv
      <3>5. OwnerInv'
        BY <3>1, <3>2, OwnerKept DEF ListInv, OwnerInv
      <3> QED BY <3>3, <3>4, <3>5 DEF ListInv
    <2>2. CASE DeinitLock \/ Deinit
      <3>1. deinit \in DeinitRec
        BY <2>0 DEF TypeOK, DeinitRec
      <3>2. deinit'.pc # "none"
        <4>1. CASE DeinitLock
          BY <4>1 DEF DeinitLock
        <4>2. CASE DeinitNext
          BY <3>1, <4>2 DEF DeinitNext, DeinitRec
        <4>3. CASE DeinitStop
          BY <3>1, <4>3 DEF DeinitStop, DeinitRec
        <4>4. CASE DeinitRelock
          BY <3>1, <4>4 DEF DeinitRelock, DeinitRec
        <4>5. CASE DeinitDeleteTask
          BY <3>1, <4>5 DEF DeinitDeleteTask, DeinitRec
        <4> QED BY <2>2, <4>1, <4>2, <4>3, <4>4, <4>5 DEF Deinit
      <3> QED BY <1>2, <3>2
    <2>3. CASE \E t \in Timers : OwnerRuns(t) /\ (Owner(t) \/ OwnerStep(t))
      <3>1. PICK t \in Timers : OwnerRuns(t) /\ (Owner(t) \/ OwnerStep(t))
        BY <2>3
      <3>2. deinit' = deinit
        BY <3>1 DEF Owner, OwnerStep, oblfr_timer_create, oblfr_timer_start_once,
             oblfr_timer_start_periodic, oblfr_timer_restart, oblfr_timer_stop, oblfr_timer_delete,
             Query, Call, oblfr_timer_is_active, StartAt, StartInsert, StopRemove, Recalc, Free
      <3> QED BY <1>2, <2>0, <3>1, <3>2, OwnerList DEF LInv
    <2>4. CASE timer_isr \/ Tick \/ oblfr_timer_task \/ Process
      <3>1. deinit' = deinit
        BY <2>4 DEF timer_isr, Tick, oblfr_timer_task, Process, ProcessLock, ProcessDone, ProcessExpired,
             ProcessCallback, CallbackStop, ProcessInsert, ProcessRelock, ProcessRecalc
      <3> QED BY <1>2, <2>0, <2>4, <3>1, TaskList DEF LInv
    <2> QED BY <2>1, <2>2, <2>3, <2>4 DEF Next
  <1> QED BY <1>1, <1>2 DEF LInv

(* The list of disciplined owners stays a list until oblfr_timer_deinit. *)
THEOREM ListCorrect ==
  ASSUME Disciplined
  PROVE  Spec => []LInv
  <1>1. Init => LInv
    BY InitType, InitList DEF LInv
  <1>2. LInv /\ [Next]_vars => LInv'
    BY NextList
  <1> QED BY <1>1, <1>2, PTL DEF Spec

(* ListIntact: whatever the owners, the task, the interrupt and time do in  *)
(* whatever order, the list holds exactly the timers due to fire, sorted    *)
(* and linked both ways (oblfr_timer_insert, oblfr_timer_remove and the     *)
(* unlocking in the middle of oblfr_timer_process), for every number of     *)
(* timers and all timeouts.                                                 *)
THEOREM ListIntactCorrect ==
  ASSUME Disciplined
  PROVE  Spec => []ListIntact
  <1>1. LInv => ListIntact
    <2> SUFFICES ASSUME LInv PROVE ListIntact
      OBVIOUS
    <2>1. TypeOK
      BY DEF LInv, TInv
    <2>2. SUFFICES ASSUME ListInv
                   PROVE  /\ Listed = armed \ InFlight
                          /\ armed \subseteq alive
                          /\ Nth[Cardinality(Listed) + 1] = NULL
                          /\ \A t \in Listed :
                               /\ next[prev[t]] = t
                               /\ next[t] # NULL => prev[next[t]] = t /\ when[t] <= when[next[t]]
      BY <2>1 DEF LInv, ListIntact
    <2>3. PICK n \in Nat : \E f \in [0 .. n + 1 -> Links] :
            IsChain(next, prev, n, f) /\ Members(n, f) = Due /\ Sorted(when, n, f)
      BY <2>2 DEF ListInv, ChainInv
    <2>4. PICK f \in [0 .. n + 1 -> Links] :
            IsChain(next, prev, n, f) /\ Members(n, f) = Due /\ Sorted(when, n, f)
      BY <2>3
    <2>5. /\ \A k \in 0 .. n + 1 : Nth[k] = f[k]
          /\ Listed = Members(n, f) /\ Cardinality(Listed) = n
      BY <2>1, <2>4, NthChain
    <2>6. Listed = armed \ InFlight
      BY <2>4, <2>5 DEF Due
    <2>7. armed \subseteq alive
      BY <2>2 DEF ListInv, OwnerInv
    <2>8. Nth[Cardinality(Listed) + 1] = NULL
      BY <2>4, <2>5 DEF IsChain
    <2>9. ASSUME NEW t \in Listed
          PROVE  /\ next[prev[t]] = t
                 /\ next[t] # NULL => prev[next[t]] = t /\ when[t] <= when[next[t]]
      <3>1. PICK k \in 1 .. n : f[k] = t
        BY <2>5, <2>9 DEF Members
      <3>2. k - 1 \in 0 .. n /\ (k - 1) + 1 = k /\ k \in 0 .. n
        BY <2>3, <3>1
      <3>3. prev[t] = f[k - 1] /\ next[f[k - 1]] = f[k] /\ next[t] = f[k + 1]
        BY <2>4, <3>1, <3>2 DEF IsChain
      <3>4. CASE k = n
        BY <2>4, <3>1, <3>3, <3>4 DEF IsChain
      <3>5. CASE k # n
        <4>1. k \in 1 .. n - 1 /\ k + 1 \in 1 .. n /\ (k + 1) - 1 = k
          BY <2>3, <3>1, <3>5
        <4>2. prev[f[k + 1]] = f[k] /\ when[f[k]] <= when[f[k + 1]]
          BY <2>4, <4>1 DEF IsChain, Sorted
        <4> QED BY <3>1, <3>3, <4>2
      <3> QED BY <3>4, <3>5
    <2> QED BY <2>6, <2>7, <2>8, <2>9
  <1> QED BY <1>1, ListCorrect, PTL

(* FiresOnlyArmed: while the timers are not shut down, oblfr_timer_process  *)
(* calls the callback of no timer that was stopped or has expired.          *)
THEOREM FiresOnlyArmedCorrect ==
  ASSUME Disciplined, "deinit" \notin Calls
  PROVE  Spec => []FiresOnlyArmed
  <1>1. Init => deinit.pc = "none"
    BY DEF Init
  <1>2. deinit.pc = "none" /\ [Next]_vars => (deinit.pc = "none")'
    <2> SUFFICES ASSUME deinit.pc = "none", [Next]_vars PROVE deinit' = deinit
      OBVIOUS
    <2>1. CASE UNCHANGED vars
      BY <2>1 DEF vars
    <2>2. CASE DeinitLock \/ Deinit
      BY <2>2 DEF DeinitLock, Deinit, DeinitNext, DeinitStop, DeinitRelock, DeinitDeleteTask
    <2>3. CASE \E t \in Timers : OwnerRuns(t) /\ (Owner(t) \/ OwnerStep(t))
      BY <2>3 DEF Owner, OwnerStep, oblfr_timer_create, oblfr_timer_start_once,
           oblfr_timer_start_periodic, oblfr_timer_restart, oblfr_timer_stop, oblfr_timer_delete,
           Query, Call, oblfr_timer_is_active, StartAt, StartInsert, StopRemove, Recalc, Free
    <2>4. CASE timer_isr \/ Tick \/ oblfr_timer_task \/ Process
      BY <2>4 DEF timer_isr, Tick, oblfr_timer_task, Process, ProcessLock, ProcessDone, ProcessExpired,
           ProcessCallback, CallbackStop, ProcessInsert, ProcessRelock, ProcessRecalc
    <2> QED BY <2>1, <2>2, <2>3, <2>4 DEF Next
  <1>3. Spec => [](deinit.pc = "none")
    BY <1>1, <1>2, PTL DEF Spec
  <1>4. LInv /\ deinit.pc = "none" => FiresOnlyArmed
    BY DEF LInv, ListInv, TaskInv, FiresOnlyArmed
  <1> QED BY <1>3, <1>4, ListCorrect, PTL

=============================================================================
