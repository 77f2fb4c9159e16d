-------------------------- MODULE RpmsgLiteProofs --------------------------
(***************************************************************************)
(* Proofs about RpmsgLite: the types of all variables, the semaphore, the  *)
(* place of every buffer of the two rings, and that the rings implement    *)
(* MessageLink.                                                            *)
(***************************************************************************)
EXTENDS RpmsgLite, FiniteSetTheorems, SequenceTheorems, Least

RingRec == [ring : [Bufs -> Bufs], idx : Indices]
Cell == [ept : Endpoints \cup {NoEndpoint}, msg : Msgs]
RxRec == [pc : {"idle", "take", "got"}, head : Indices, freed : BOOLEAN]
SenderRec ==
  [pc : {"idle", "alloc", "alloced", "fill", "publish", "sent"},
   left : Timeouts \cup Nat, msg : Msgs, buf : Bufs \cup {None}]
TaskRec ==
  [pc : {"select", "poll", "callback", "release", "publish", "released"}, buf : Bufs \cup {None}]
HostRec == [read : [Rings -> Indices], free : SUBSET Bufs, look : SUBSET Rings]
WorldRec ==
  [stray : BOOLEAN, serves : BOOLEAN, windows : SUBSET {"free", "poll"}, sends : [Senders -> Int],
   posts : Int]

(* in_isr_counter counts the interrupt and the poll, and the rpmsg task     *)
(* polls exactly while its rpmsg_lite_rx_callback is at work.               *)
Busy(c) == IF rx[c].pc = "idle" THEN 0 ELSE 1
CountInv ==
  /\ in_isr_counter = Busy("isr") + Busy("poll")
  /\ Polling <=> task.pc = "poll"

(* A buffer that is about to be handed back is one. *)
BufferInv ==
  /\ \A s \in Senders : sender[s].pc = "fill" => sender[s].buf \in Bufs
  /\ task.pc \in {"callback", "release"} => task.buf \in Bufs

(* The inductive invariant of the types. *)
TInv == TypeOK /\ CountInv /\ BufferInv

(* Indices and slots stay in their ranges. *)
LEMMA Wraps ==
  /\ 0 \in Indices /\ N \in Indices /\ 0 \in Bufs /\ None \notin Bufs
  /\ \A i \in Indices : Inc(i) \in Indices /\ Slot(i) \in Bufs
  <1>1. /\ N \in Nat \ {0} /\ IdxMod \in Nat /\ IdxMod > N
    BY RingAssumption
  <1>2. \A i \in Indices : (i + 1) % IdxMod \in 0 .. IdxMod - 1 /\ i % N \in 0 .. N - 1
    BY <1>1 DEF Indices
  <1> QED BY <1>1, <1>2 DEF Indices, Bufs, None, Inc, Slot

(* Tx and Rx differ from each other and from None. *)
LEMMA RingNames == Tx \in Rings /\ Rx \in Rings /\ Tx # Rx /\ None \notin Rings
  BY DEF Tx, Rx, Rings, None

(* The initial values of the records have their types. *)
LEMMA Blanks ==
  /\ Idle \in SenderRec /\ Idle.pc = "idle" /\ Idle.buf = None
  /\ [Idle EXCEPT !.pc = "sent"] \in SenderRec /\ [Idle EXCEPT !.pc = "sent"].pc = "sent"
  /\ [Idle EXCEPT !.pc = "sent"].buf = None
  /\ Blank \in Cell /\ NoRx \in RxRec /\ NoRx.pc = "idle"
  <1>1. (CHOOSE m \in Msgs : TRUE) \in Msgs
    BY UsersAssumption
  <1>2. Idle \in SenderRec /\ Idle.pc = "idle" /\ Idle.buf = None /\ Idle.msg \in Msgs
    BY <1>1 DEF Idle, SenderRec
  <1>3. NoRx \in RxRec /\ NoRx.pc = "idle"
    BY Wraps DEF NoRx, RxRec
  <1>4. Blank \in Cell
    BY <1>2 DEF Blank, Cell
  <1>5. /\ [Idle EXCEPT !.pc = "sent"] \in SenderRec /\ [Idle EXCEPT !.pc = "sent"].pc = "sent"
        /\ [Idle EXCEPT !.pc = "sent"].buf = None
    BY <1>1 DEF Idle, SenderRec
  <1> QED BY <1>2, <1>3, <1>4, <1>5

(* vq_ring_update_used *)
LEMMA UsedType ==
  ASSUME used \in [Rings -> RingRec], NEW q \in Rings, NEW b \in Bufs
  PROVE  /\ PutUsed(q, b) \in [Rings -> RingRec]
         /\ PublishUsed(q) \in [Rings -> RingRec]
         /\ [PutUsed(q, b) EXCEPT ![q].idx = Inc(@)] \in [Rings -> RingRec]
  <1> DEFINE u == used[q]
  <1>1. u \in RingRec /\ u.ring \in [Bufs -> Bufs] /\ u.idx \in Indices
    BY DEF RingRec
  <1>2. Slot(u.idx) \in Bufs /\ Inc(u.idx) \in Indices
    BY <1>1, Wraps
  <1> DEFINE v == [u EXCEPT !.ring[Slot(u.idx)] = b]
  <1>3. v \in RingRec /\ v.idx = u.idx
    BY <1>1, <1>2 DEF RingRec
  <1>4. PutUsed(q, b) = [used EXCEPT ![q] = v]
    BY <1>1 DEF PutUsed
  <1>5. [u EXCEPT !.idx = Inc(@)] \in RingRec
    BY <1>1, <1>2 DEF RingRec
  <1>6. PublishUsed(q) = [used EXCEPT ![q] = [u EXCEPT !.idx = Inc(@)]]
    BY DEF PublishUsed
  <1>7. [v EXCEPT !.idx = Inc(@)] \in RingRec
    <2> HIDE DEF v, u
    <2> QED BY <1>1, <1>2, <1>3 DEF RingRec
  <1> HIDE DEF v, u
  <1>8. PutUsed(q, b) \in [Rings -> RingRec] /\ PublishUsed(q) \in [Rings -> RingRec]
    BY <1>3, <1>4, <1>5, <1>6
  <1>9. [PutUsed(q, b) EXCEPT ![q].idx = Inc(@)] = [PutUsed(q, b) EXCEPT ![q] = [v EXCEPT !.idx = Inc(@)]]
    <2>1. PutUsed(q, b)[q] = v
      BY <1>4
    <2> QED BY <2>1
  <1> QED BY <1>7, <1>8, <1>9


(* The record forms of TypeOK. *)
Types ==
  /\ world \in WorldRec /\ avail \in [Rings -> RingRec] /\ used \in [Rings -> RingRec]
  /\ mem \in [Rings -> [Bufs -> Cell]] /\ vq_available_idx \in [Rings -> Indices]
  /\ lock \in 0 .. MaxCount /\ in_isr_counter \in Nat
  /\ rx \in [Contexts -> RxRec] /\ queued \in Seq(Bufs)
  /\ sender \in [Senders -> SenderRec] /\ task \in TaskRec
  /\ kick \in BOOLEAN /\ sig \in Rings \cup {None} /\ overwritten \subseteq Rings
  /\ host \in HostRec

(* They say the same as TypeOK. *)
LEMMA TypeForms == (TypeOK <=> Types) /\ (TypeOK' <=> Types')
  BY DEF TypeOK, Types, WorldRec, RingRec, Cell, RxRec, SenderRec, TaskRec, HostRec

(* What a sender does after an attempt to get a buffer *)
LEMMA TriedType ==
  ASSUME NEW e \in SenderRec
  PROVE  Tried(e) \in SenderRec /\ (Tried(e).pc = "fill" => Tried(e).buf \in Bufs)
  <1>1. CASE e.buf # None
    BY <1>1 DEF SenderRec, Tried
  <1>2. CASE e.buf = None /\ e.left = 0
    <2>1. Tried(e) = Idle
      BY <1>2 DEF Tried
    <2> QED BY <2>1, Blanks
  <1>3. CASE e.buf = None /\ e.left # 0
    <2> DEFINE left == IF e.left = RL_BLOCK THEN e.left ELSE e.left - 1
    <2>1. left \in Timeouts \cup Nat
      <3>1. e.left \in Timeouts \cup Nat
        BY DEF SenderRec
      <3>2. Timeouts \subseteq Nat \cup {RL_BLOCK}
        BY UsersAssumption
      <3>3. e.left # RL_BLOCK => e.left \in Nat
        BY <3>1, <3>2
      <3> QED BY <1>3, <3>1, <3>3
    <2>2. Tried(e) = [e EXCEPT !.pc = "alloc", !.left = left]
      BY <1>3 DEF Tried
    <2> HIDE DEF left
    <2> QED BY <2>1, <2>2 DEF SenderRec
  <1> QED BY <1>1, <1>2, <1>3

(* The types hold at the start. *)
LEMMA InitType == Init => TInv
  <1> SUFFICES ASSUME Init PROVE TInv
    OBVIOUS
  <1> USE DEF Init
  <1>1. world \in WorldRec
    <2>1. world \in [stray : BOOLEAN, serves : BOOLEAN, windows : SUBSET {"free", "poll"},
                     sends : [Senders -> Nat \cup {Unlimited}], posts : Nat \cup {Unlimited}]
      BY WorldsAssumption
    <2> QED BY <2>1 DEF WorldRec, Unlimited
  <1>2. avail \in [Rings -> RingRec] /\ used \in [Rings -> RingRec]
    <2>1. \A q \in Rings : [ring |-> [b \in Bufs |-> b], idx |-> IF q = Tx THEN N ELSE 0] \in RingRec
      BY Wraps DEF RingRec
    <2>2. [ring |-> [b \in Bufs |-> 0], idx |-> 0] \in RingRec
      BY Wraps DEF RingRec
    <2> QED BY <2>1, <2>2
  <1>3. mem \in [Rings -> [Bufs -> Cell]] /\ vq_available_idx \in [Rings -> Indices]
    BY Blanks, Wraps
  <1>4. lock \in 0 .. MaxCount /\ in_isr_counter \in Nat
    BY RingAssumption
  <1>5. rx \in [Contexts -> RxRec] /\ queued \in Seq(Bufs) /\ sender \in [Senders -> SenderRec]
    BY Blanks
  <1>6. task \in TaskRec /\ kick \in BOOLEAN /\ sig \in Rings \cup {None} /\ overwritten \subseteq Rings
    BY DEF TaskRec
  <1>7. host \in HostRec
    BY Wraps DEF HostRec
  <1>8. TypeOK
    BY <1>1, <1>2, <1>3, <1>4, <1>5, <1>6, <1>7, TypeForms DEF Types
  <1>9. CountInv
    BY Blanks DEF CountInv, Busy, Polling, Contexts
  <1>10. BufferInv
    BY Blanks DEF BufferInv
  <1> QED BY <1>8, <1>9, <1>10 DEF TInv

(* The semaphore stays within its bounds. *)
LEMMA LockType ==
  ASSUME lock \in 0 .. MaxCount, env_lock_mutex \/ env_unlock_mutex
  PROVE  lock' \in 0 .. MaxCount
  BY RingAssumption DEF env_lock_mutex, env_unlock_mutex

(* A kick names a ring. *)
LEMMA KickType ==
  ASSUME NEW q \in Rings, Kick(q), kick \in BOOLEAN, sig \in Rings \cup {None}, overwritten \subseteq Rings
  PROVE  kick' \in BOOLEAN /\ sig' \in Rings \cup {None} /\ overwritten' \subseteq Rings
  BY DEF Kick

(* What the counts depend on *)
LEMMA CountKept ==
  ASSUME CountInv, UNCHANGED <<in_isr_counter, rx>>, (task'.pc = "poll") <=> (task.pc = "poll")
  PROVE  CountInv'
  BY DEF CountInv, Busy, Polling

(* The senders *)
LEMMA SenderType ==
  ASSUME TInv, NEW s \in Senders, rpmsg_lite_send(s) \/ Sender(s)
  PROVE  TInv'
  <1> USE DEF rings, locking, signals
  <1>0. /\ TypeOK /\ CountInv /\ BufferInv /\ sender[s] \in SenderRec
        /\ Tx \in Rings /\ sender \in [Senders -> SenderRec]
    BY TypeForms, RingNames DEF TInv, Types
  <1>1. CASE rpmsg_lite_send(s)
    <2>1. PICK m \in Msgs, timeout \in Timeouts :
            sender' = [sender EXCEPT ![s] = [pc |-> "alloc", left |-> timeout, msg |-> m, buf |-> None]]
      BY <1>1 DEF rpmsg_lite_send
    <2>2. sender' \in [Senders -> SenderRec] /\ \A x \in Senders : sender'[x].pc = "fill" => sender'[x] = sender[x]
      BY <1>0, <2>1 DEF SenderRec
    <2>3. world' \in WorldRec
      <3>1. world \in WorldRec /\ world' = [world EXCEPT !.sends[s] = Spend(@)]
        BY <1>0, <1>1, TypeForms DEF Types, rpmsg_lite_send
      <3>2. Spend(world.sends[s]) \in Int
        BY <3>1 DEF WorldRec, Spend
      <3> QED BY <3>1, <3>2 DEF WorldRec
    <2>4. UNCHANGED <<rings, locking, rx, queued, task, signals, host>>
      BY <1>1 DEF rpmsg_lite_send
    <2>5. TypeOK'
      BY <1>0, <2>2, <2>3, <2>4, TypeForms DEF Types
    <2>6. CountInv' /\ BufferInv'
      BY <1>0, <2>2, <2>4, CountKept DEF BufferInv
    <2> QED BY <2>5, <2>6 DEF TInv
  <1>2. CASE Alloc(s)
    <2>1. /\ lock' \in 0 .. MaxCount
          /\ UNCHANGED <<world, avail, used, mem, in_isr_counter, rx, queued, task, signals, host>>
      BY <1>0, <1>2, LockType, TypeForms DEF Types, Alloc
    <2>2. vq_available_idx' \in [Rings -> Indices]
      BY <1>0, <1>2, Wraps, TypeForms DEF Types, Alloc
    <2>3. avail[Tx].ring[Slot(vq_available_idx[Tx])] \in Bufs
      <3>1. avail[Tx] \in RingRec /\ Slot(vq_available_idx[Tx]) \in Bufs
        BY <1>0, Wraps, TypeForms DEF Types
      <3> QED BY <3>1 DEF RingRec
    <2>4. sender' \in [Senders -> SenderRec] /\ sender'[s].pc = "alloced" /\ \A x \in Senders : x # s => sender'[x] = sender[x]
      <3> DEFINE b == avail[Tx].ring[Slot(vq_available_idx[Tx])]
      <3>1. \/ sender' = [sender EXCEPT ![s].pc = "alloced"]
            \/ sender' = [sender EXCEPT ![s].pc = "alloced", ![s].buf = b]
        BY <1>2 DEF Alloc
      <3>2. b \in Bufs
        BY <2>3
      <3> HIDE DEF b
      <3> QED BY <1>0, <3>1, <3>2 DEF SenderRec
    <2>5. TypeOK'
      BY <1>0, <2>1, <2>2, <2>4, TypeForms DEF Types
    <2>6. CountInv' /\ BufferInv'
      BY <1>0, <2>1, <2>4, CountKept DEF BufferInv
    <2> QED BY <2>5, <2>6 DEF TInv
  <1>3. CASE Alloced(s)
    <2>1. /\ lock' \in 0 .. MaxCount
          /\ UNCHANGED <<world, rings, in_isr_counter, rx, queued, task, signals, host>>
      BY <1>0, <1>3, LockType, TypeForms DEF Types, Alloced
    <2>2. /\ sender' \in [Senders -> SenderRec]
          /\ sender'[s].pc = "fill" => sender'[s].buf \in Bufs
          /\ \A x \in Senders : x # s => sender'[x] = sender[x]
      <3>1. sender' = [sender EXCEPT ![s] = Tried(sender[s])]
        BY <1>3 DEF Alloced
      <3> QED BY <1>0, <3>1, TriedType
    <2>3. TypeOK'
      BY <1>0, <2>1, <2>2, TypeForms DEF Types
    <2>4. CountInv' /\ BufferInv'
      BY <1>0, <2>1, <2>2, CountKept DEF BufferInv
    <2> QED BY <2>3, <2>4 DEF TInv
  <1>4. CASE Enqueue(s)
    <2>1. /\ lock' \in 0 .. MaxCount /\ sender[s].buf \in Bufs /\ sender[s].msg \in Msgs
          /\ UNCHANGED <<world, avail, vq_available_idx, in_isr_counter, rx, queued, task, signals, host>>
      BY <1>0, <1>4, LockType, TypeForms DEF Types, Enqueue, BufferInv, SenderRec
    <2>2. used' \in [Rings -> RingRec]
      BY <1>0, <1>4, <2>1, UsedType, TypeForms DEF Types, Enqueue
    <2>3. mem' \in [Rings -> [Bufs -> Cell]]
      <3> DEFINE b == sender[s].buf
                 m == sender[s].msg
      <3>1. mem' = [mem EXCEPT ![Tx][b].msg = m] /\ b \in Bufs /\ m \in Msgs
        BY <1>4, <2>1 DEF Enqueue
      <3> HIDE DEF b, m
      <3>2. mem \in [Rings -> [Bufs -> Cell]]
        BY <1>0, TypeForms DEF Types
      <3>3. mem[Tx][b] \in Cell
        BY <1>0, <3>1, <3>2
      <3>4. [mem[Tx][b] EXCEPT !.msg = m] \in Cell
        BY <3>1, <3>3 DEF Cell
      <3>5. mem' = [mem EXCEPT ![Tx] = [mem[Tx] EXCEPT ![b] = [mem[Tx][b] EXCEPT !.msg = m]]]
        BY <3>1
      <3> QED BY <1>0, <3>1, <3>2, <3>4, <3>5
    <2>4. sender' \in [Senders -> SenderRec] /\ sender'[s].pc = "publish" /\ \A x \in Senders : x # s => sender'[x] = sender[x]
      BY <1>0, <1>4 DEF Enqueue, SenderRec
    <2>5. TypeOK'
      BY <1>0, <2>1, <2>2, <2>3, <2>4, TypeForms DEF Types
    <2>6. CountInv' /\ BufferInv'
      BY <1>0, <2>1, <2>4, CountKept DEF BufferInv
    <2> QED BY <2>5, <2>6 DEF TInv
  <1>5. CASE Publish(s)
    <2>1. /\ used' = PublishUsed(Tx) /\ Kick(Tx)
          /\ sender' = [sender EXCEPT ![s] = [Idle EXCEPT !.pc = "sent"]]
          /\ UNCHANGED <<world, avail, mem, vq_available_idx, locking, rx, queued, task, host>>
      BY <1>5 DEF Publish
    <2>2. used' \in [Rings -> RingRec]
      BY <1>0, <2>1, Wraps, UsedType, TypeForms DEF Types
    <2>3. kick' \in BOOLEAN /\ sig' \in Rings \cup {None} /\ overwritten' \subseteq Rings
      BY <1>0, <2>1, KickType, TypeForms DEF Types
    <2>4. sender' \in [Senders -> SenderRec] /\ sender'[s].pc = "sent" /\ \A x \in Senders : x # s => sender'[x] = sender[x]
      BY <1>0, <2>1, Blanks
    <2>5. TypeOK'
      BY <1>0, <2>1, <2>2, <2>3, <2>4, TypeForms DEF Types
    <2>6. CountInv' /\ BufferInv'
      BY <1>0, <2>1, <2>4, CountKept DEF BufferInv
    <2> QED BY <2>5, <2>6 DEF TInv
  <1>6. CASE Sent(s)
    <2>1. /\ lock' \in 0 .. MaxCount
          /\ UNCHANGED <<world, rings, in_isr_counter, rx, queued, task, signals, host>>
      BY <1>0, <1>6, LockType, TypeForms DEF Types, Sent
    <2>2. sender' \in [Senders -> SenderRec] /\ sender'[s].pc = "idle" /\ \A x \in Senders : x # s => sender'[x] = sender[x]
      BY <1>0, <1>6, Blanks DEF Sent
    <2>3. TypeOK'
      BY <1>0, <2>1, <2>2, TypeForms DEF Types
    <2>4. CountInv' /\ BufferInv'
      BY <1>0, <2>1, <2>2, CountKept DEF BufferInv
    <2> QED BY <2>3, <2>4 DEF TInv
  <1> QED BY <1>1, <1>2, <1>3, <1>4, <1>5, <1>6 DEF Sender


(* rpmsg_lite_rx_callback and the interrupt *)
LEMMA RxType ==
  ASSUME TInv, (\E c \in Contexts : Receive(c)) \/ platform_isr_handle
  PROVE  TInv'
  <1> USE DEF rings, locking, signals
  <1>0. /\ TypeOK /\ CountInv /\ BufferInv /\ rx \in [Contexts -> RxRec]
        /\ Rx \in Rings /\ Contexts = {"isr", "poll"}
    BY TypeForms, RingNames DEF TInv, Types, Contexts
  <1>1. CASE platform_isr_handle
    <2>1. /\ rx["isr"].pc = "idle" /\ rx' = [rx EXCEPT !["isr"].pc = "take"]
          /\ in_isr_counter' = in_isr_counter + 1 /\ kick' = FALSE
          /\ UNCHANGED <<world, rings, lock, queued, sender, task, sig, overwritten, host>>
      BY <1>1 DEF platform_isr_handle, env_isr, Interruptible, TaskRuns
    <2>2. rx' \in [Contexts -> RxRec] /\ rx'["isr"].pc = "take" /\ rx'["poll"] = rx["poll"]
      BY <1>0, <2>1 DEF RxRec
    <2>3. in_isr_counter' \in Nat /\ kick' \in BOOLEAN
      <3>1. in_isr_counter \in Nat
        BY <1>0, TypeForms DEF Types
      <3>2. in_isr_counter' \in Nat
        BY <2>1, <3>1
      <3>3. kick' = FALSE
        BY <2>1
      <3> QED BY <3>2, <3>3, Zenon
    <2>4. TypeOK'
      BY <1>0, <2>1, <2>2, <2>3, TypeForms DEF Types
    <2>5. CountInv' /\ BufferInv'
      BY <1>0, <2>1, <2>2 DEF CountInv, Busy, Polling, BufferInv
    <2> QED BY <2>4, <2>5 DEF TInv
  <1>2. ASSUME NEW c \in Contexts, RxPeek(c) PROVE TInv'
    <2>1. /\ rx[c].pc = "take" /\ rx' = [rx EXCEPT ![c].pc = "got", ![c].head = vq_available_idx[Rx]]
          /\ UNCHANGED <<world, rings, locking, queued, sender, task, signals, host>>
      BY <1>2 DEF RxPeek
    <2>2. vq_available_idx[Rx] \in Indices
      BY <1>0, TypeForms DEF Types
    <2>3. rx' \in [Contexts -> RxRec] /\ rx'[c].pc = "got" /\ \A x \in Contexts : x # c => rx'[x] = rx[x]
      BY <1>0, <2>1, <2>2 DEF RxRec
    <2>4. TypeOK'
      BY <1>0, <2>1, <2>3, TypeForms DEF Types
    <2>5. CountInv' /\ BufferInv'
      BY <1>0, <2>1, <2>3 DEF CountInv, Busy, Polling, BufferInv
    <2> QED BY <2>4, <2>5 DEF TInv
  <1>3. ASSUME NEW c \in Contexts, RxTake(c) PROVE TInv'
    <2> DEFINE b == avail[Rx].ring[Slot(rx[c].head)]
               held == mem[Rx][b].ept \in Endpoints
    <2>1. /\ rx[c].pc = "got"
          /\ vq_available_idx' = [vq_available_idx EXCEPT ![Rx] = Inc(rx[c].head)]
          /\ rx' = [rx EXCEPT ![c] = [pc |-> "take", head |-> 0, freed |-> rx[c].freed \/ ~held]]
          /\ queued' = IF held THEN Append(queued, b) ELSE queued
          /\ used' = IF held THEN used ELSE [PutUsed(Rx, b) EXCEPT ![Rx].idx = Inc(@)]
          /\ UNCHANGED <<world, avail, mem, locking, sender, task, signals, host>>
      BY <1>3 DEF RxTake
    <2>2. b \in Bufs /\ Inc(rx[c].head) \in Indices
      <3>1. rx[c].head \in Indices
        BY <1>0 DEF RxRec
      <3>2. avail[Rx] \in RingRec /\ Slot(rx[c].head) \in Bufs /\ Inc(rx[c].head) \in Indices
        BY <1>0, <3>1, Wraps, TypeForms DEF Types
      <3> QED BY <3>2 DEF RingRec
    <2> HIDE DEF b, held
    <2>3. vq_available_idx' \in [Rings -> Indices] /\ queued' \in Seq(Bufs)
      BY <1>0, <2>1, <2>2, TypeForms DEF Types
    <2>4. used' \in [Rings -> RingRec]
      BY <1>0, <2>1, <2>2, UsedType, TypeForms DEF Types
    <2>5. rx' \in [Contexts -> RxRec] /\ rx'[c].pc = "take" /\ \A x \in Contexts : x # c => rx'[x] = rx[x]
      <3>1. (rx[c].freed \/ ~held) \in BOOLEAN
        OBVIOUS
      <3>2. [pc |-> "take", head |-> 0, freed |-> rx[c].freed \/ ~held] \in RxRec
        BY <3>1, Wraps DEF RxRec
      <3> QED BY <1>0, <2>1, <3>2
    <2>6. TypeOK'
      BY <1>0, <2>1, <2>3, <2>4, <2>5, TypeForms DEF Types
    <2>7. CountInv' /\ BufferInv'
      BY <1>0, <2>1, <2>5 DEF CountInv, Busy, Polling, BufferInv
    <2> QED BY <2>6, <2>7 DEF TInv
  <1>4. ASSUME NEW c \in Contexts, RxDone(c) PROVE TInv'
    <2>1. /\ rx[c].pc = "take" /\ (Kick(Rx) \/ UNCHANGED signals)
          /\ rx' = [rx EXCEPT ![c] = NoRx] /\ in_isr_counter' = in_isr_counter - 1
          /\ task' = IF c = "poll" THEN [task EXCEPT !.pc = "select"] ELSE task
          /\ UNCHANGED <<world, rings, lock, queued, sender, host>>
      BY <1>4 DEF RxDone
    <2>2. rx' \in [Contexts -> RxRec] /\ rx'[c].pc = "idle" /\ \A x \in Contexts : x # c => rx'[x] = rx[x]
      BY <1>0, <2>1, Blanks
    <2>3. kick' \in BOOLEAN /\ sig' \in Rings \cup {None} /\ overwritten' \subseteq Rings
      BY <1>0, <2>1, KickType, TypeForms DEF Types
    <2>4. task' \in TaskRec /\ (c = "poll" => task'.pc = "select") /\ (c # "poll" => task' = task)
      <3>1. task \in TaskRec
        BY <1>0, TypeForms DEF Types
      <3> QED BY <2>1, <3>1 DEF TaskRec
    <2>5. CountInv' /\ in_isr_counter' \in Nat
      BY <1>0, <2>1, <2>2, <2>4 DEF CountInv, Busy, Polling
    <2>6. TypeOK'
      BY <1>0, <2>1, <2>2, <2>3, <2>4, <2>5, TypeForms DEF Types
    <2>7. BufferInv'
      BY <1>0, <2>1, <2>4 DEF BufferInv
    <2> QED BY <2>5, <2>6, <2>7 DEF TInv
  <1> QED BY <1>1, <1>2, <1>3, <1>4 DEF Receive

(* The rpmsg task *)
LEMMA TaskType ==
  ASSUME TInv, Task
  PROVE  TInv'
  <1> USE DEF rings, locking, signals
  <1>0. /\ TypeOK /\ CountInv /\ BufferInv /\ task \in TaskRec /\ Rx \in Rings
        /\ rx \in [Contexts -> RxRec]
    BY TypeForms, RingNames DEF TInv, Types
  <1>1. CASE Select
    <2>1. /\ task.pc = "select" /\ queued # <<>> /\ task' = [pc |-> "callback", buf |-> Head(queued)]
          /\ queued' = Tail(queued)
          /\ UNCHANGED <<world, rings, locking, rx, sender, signals, host>>
      BY <1>1 DEF Select
    <2>2. Head(queued) \in Bufs /\ queued' \in Seq(Bufs)
      BY <1>0, <2>1, TypeForms DEF Types
    <2>3. task' \in TaskRec /\ task'.pc = "callback" /\ task'.buf \in Bufs
      BY <2>1, <2>2 DEF TaskRec
    <2>4. TypeOK'
      BY <1>0, <2>1, <2>2, <2>3, TypeForms DEF Types
    <2>5. CountInv' /\ BufferInv'
      BY <1>0, <2>1, <2>3, CountKept DEF BufferInv
    <2> QED BY <2>4, <2>5 DEF TInv
  <1>2. CASE Poll
    <2>1. /\ task.pc = "select" /\ rx' = [rx EXCEPT !["poll"].pc = "take"]
          /\ in_isr_counter' = in_isr_counter + 1 /\ task' = [task EXCEPT !.pc = "poll"]
          /\ UNCHANGED <<world, rings, lock, queued, sender, signals, host>>
      BY <1>2 DEF Poll, env_isr
    <2>2. task' \in TaskRec /\ task'.pc = "poll"
      BY <1>0, <2>1 DEF TaskRec
    <2>3. rx' \in [Contexts -> RxRec] /\ rx'["poll"].pc = "take" /\ rx'["isr"] = rx["isr"]
      BY <1>0, <2>1 DEF RxRec, Contexts
    <2>4. TypeOK'
      BY <1>0, <2>1, <2>2, <2>3, TypeForms DEF Types
    <2>5. CountInv' /\ BufferInv'
      BY <1>0, <2>1, <2>2, <2>3 DEF CountInv, Busy, Polling, BufferInv
    <2> QED BY <2>4, <2>5 DEF TInv
  <1>3. CASE oblfr_process_queue
    <2>1. /\ task.pc = "callback" /\ task' = [task EXCEPT !.pc = "release"]
          /\ UNCHANGED <<world, rings, locking, rx, queued, sender, signals, host>>
      BY <1>3 DEF oblfr_process_queue
    <2>2. task' \in TaskRec /\ task'.pc = "release" /\ task'.buf = task.buf
      BY <1>0, <2>1 DEF TaskRec
    <2>3. TypeOK'
      BY <1>0, <2>1, <2>2, TypeForms DEF Types
    <2>4. CountInv' /\ BufferInv'
      BY <1>0, <2>1, <2>2, CountKept DEF BufferInv
    <2> QED BY <2>3, <2>4 DEF TInv
  <1>4. CASE rpmsg_lite_release_rx_buffer
    <2>1. /\ task.pc = "release" /\ task' = [task EXCEPT !.pc = "publish"] /\ used' = PutUsed(Rx, task.buf)
          /\ env_lock_mutex
          /\ UNCHANGED <<world, avail, mem, vq_available_idx, in_isr_counter, rx, queued, sender, signals, host>>
      BY <1>4 DEF rpmsg_lite_release_rx_buffer
    <2>2. task' \in TaskRec /\ task'.pc = "publish"
      BY <1>0, <2>1 DEF TaskRec
    <2>3. task.buf \in Bufs
      BY <1>0, <2>1 DEF BufferInv
    <2>4. used' \in [Rings -> RingRec] /\ lock' \in 0 .. MaxCount
      BY <1>0, <2>1, <2>3, UsedType, LockType, TypeForms DEF Types
    <2>5. TypeOK'
      BY <1>0, <2>1, <2>2, <2>4, TypeForms DEF Types
    <2>6. CountInv' /\ BufferInv'
      BY <1>0, <2>1, <2>2, CountKept DEF BufferInv
    <2> QED BY <2>5, <2>6 DEF TInv
  <1>5. CASE ReleasePublish
    <2>1. /\ task.pc = "publish" /\ used' = PublishUsed(Rx) /\ Kick(Rx)
          /\ task' = [pc |-> "released", buf |-> None]
          /\ UNCHANGED <<world, avail, mem, vq_available_idx, locking, rx, queued, sender, host>>
      BY <1>5 DEF ReleasePublish
    <2>2. task' \in TaskRec /\ task'.pc = "released"
      BY <2>1 DEF TaskRec
    <2>3. used' \in [Rings -> RingRec]
      BY <1>0, <2>1, Wraps, UsedType, TypeForms DEF Types
    <2>4. kick' \in BOOLEAN /\ sig' \in Rings \cup {None} /\ overwritten' \subseteq Rings
      BY <1>0, <2>1, KickType, TypeForms DEF Types
    <2>5. TypeOK'
      BY <1>0, <2>1, <2>2, <2>3, <2>4, TypeForms DEF Types
    <2>6. CountInv' /\ BufferInv'
      BY <1>0, <2>1, <2>2, CountKept DEF BufferInv
    <2> QED BY <2>5, <2>6 DEF TInv
  <1>6. CASE Released
    <2>1. /\ task.pc = "released" /\ task' = [task EXCEPT !.pc = "select"] /\ env_unlock_mutex
          /\ UNCHANGED <<world, rings, in_isr_counter, rx, queued, sender, signals, host>>
      BY <1>6 DEF Released
    <2>2. task' \in TaskRec /\ task'.pc = "select"
      BY <1>0, <2>1 DEF TaskRec
    <2>3. lock' \in 0 .. MaxCount
      BY <1>0, <2>1, LockType, TypeForms DEF Types
    <2>4. TypeOK'
      BY <1>0, <2>1, <2>2, <2>3, TypeForms DEF Types
    <2>5. CountInv' /\ BufferInv'
      BY <1>0, <2>1, <2>2, CountKept DEF BufferInv
    <2> QED BY <2>4, <2>5 DEF TInv
  <1> QED BY <1>1, <1>2, <1>3, <1>4, <1>5, <1>6 DEF Task

(* Linux *)
LEMMA HostType ==
  ASSUME TInv, Host \/ HostSend
  PROVE  TInv'
  <1> USE DEF rings, locking, signals
  <1>0. /\ TypeOK /\ CountInv /\ BufferInv /\ host \in HostRec /\ Tx \in Rings /\ Rx \in Rings
    BY TypeForms, RingNames DEF TInv, Types
  <1>1. ASSUME UNCHANGED <<in_isr_counter, rx, task, sender>> PROVE CountInv' /\ BufferInv'
    BY <1>0, <1>1, CountKept DEF BufferInv
  <1>2. ASSUME NEW q \in Rings
        PROVE  /\ used[q].ring[Slot(host.read[q])] \in Bufs
               /\ Inc(host.read[q]) \in Indices /\ Slot(host.read[q]) \in Bufs
               /\ [used EXCEPT ![q].ring[Slot(host.read[q])] = 0] \in [Rings -> RingRec]
    <2>1. used \in [Rings -> RingRec] /\ used[q] \in RingRec /\ used[q].ring \in [Bufs -> Bufs]
      BY <1>0, TypeForms DEF Types, RingRec
    <2>2. host.read[q] \in Indices
      BY <1>0 DEF HostRec
    <2>3. Slot(host.read[q]) \in Bufs /\ Inc(host.read[q]) \in Indices /\ 0 \in Bufs
      BY <2>2, Wraps
    <2>4. [used[q] EXCEPT !.ring[Slot(host.read[q])] = 0] \in RingRec
      BY <2>1, <2>3 DEF RingRec
    <2> QED BY <2>1, <2>3, <2>4
  <1>3. ASSUME NEW q \in Rings, NEW b \in Bufs
        PROVE  [avail EXCEPT ![q] = [ring |-> [@.ring EXCEPT ![Slot(avail[q].idx)] = b],
                                     idx |-> Inc(@.idx)]] \in [Rings -> RingRec]
    <2>1. avail \in [Rings -> RingRec] /\ avail[q] \in RingRec
          /\ avail[q].ring \in [Bufs -> Bufs] /\ avail[q].idx \in Indices
      BY <1>0, TypeForms DEF Types, RingRec
    <2>2. Inc(avail[q].idx) \in Indices
      BY <2>1, Wraps
    <2>3. [ring |-> [avail[q].ring EXCEPT ![Slot(avail[q].idx)] = b], idx |-> Inc(avail[q].idx)] \in RingRec
      BY <2>1, <2>2 DEF RingRec
    <2> QED BY <2>1, <2>3
  <1>4. ASSUME NEW q \in Rings, NEW b \in Bufs, NEW cell \in Cell
        PROVE  [mem EXCEPT ![q][b] = cell] \in [Rings -> [Bufs -> Cell]]
    <2>1. mem \in [Rings -> [Bufs -> Cell]]
      BY <1>0, TypeForms DEF Types
    <2> QED BY <2>1
  <1>5. CASE HostSignal
    <2>1. /\ sig # None /\ sig' = None /\ host' = [host EXCEPT !.look = @ \cup {sig}]
          /\ UNCHANGED <<world, rings, locking, rx, queued, sender, task, kick, overwritten>>
      BY <1>5 DEF HostSignal
    <2>2. sig \in Rings
      BY <1>0, <2>1, TypeForms DEF Types
    <2>3. host' \in HostRec
      BY <1>0, <2>1, <2>2 DEF HostRec
    <2>4. TypeOK'
      BY <1>0, <2>1, <2>3, TypeForms DEF Types
    <2> QED BY <1>1, <2>1, <2>4 DEF TInv
  <1>6. CASE HostReceive
    <2> DEFINE b == used[Tx].ring[Slot(host.read[Tx])]
    <2>1. /\ host' = [host EXCEPT !.read[Tx] = Inc(@)]
          /\ avail' = [avail EXCEPT ![Tx] = [ring |-> [@.ring EXCEPT ![Slot(avail[Tx].idx)] = b],
                                             idx |-> Inc(@.idx)]]
          /\ used' = [used EXCEPT ![Tx].ring[Slot(host.read[Tx])] = 0]
          /\ mem' = [mem EXCEPT ![Tx][b] = Blank]
          /\ UNCHANGED <<world, vq_available_idx, locking, rx, queued, sender, task, signals>>
      BY <1>6 DEF HostReceive
    <2>2. b \in Bufs /\ Inc(host.read[Tx]) \in Indices /\ used' \in [Rings -> RingRec]
      BY <1>0, <1>2, <2>1
    <2> HIDE DEF b
    <2>3. avail' \in [Rings -> RingRec]
      BY <1>0, <1>3, <2>1, <2>2
    <2>4. mem' \in [Rings -> [Bufs -> Cell]]
      BY <1>0, <1>4, <2>1, <2>2, Blanks
    <2>5. host' \in HostRec
      BY <1>0, <2>1, <2>2 DEF HostRec
    <2>6. TypeOK'
      BY <1>0, <2>1, <2>2, <2>3, <2>4, <2>5, TypeForms DEF Types
    <2> QED BY <1>1, <2>1, <2>6 DEF TInv
  <1>7. CASE HostReclaim
    <2> DEFINE b == used[Rx].ring[Slot(host.read[Rx])]
    <2>1. /\ host' = [host EXCEPT !.read[Rx] = Inc(@), !.free = @ \cup {b}]
          /\ used' = [used EXCEPT ![Rx].ring[Slot(host.read[Rx])] = 0]
          /\ mem' = [mem EXCEPT ![Rx][b] = Blank]
          /\ UNCHANGED <<world, avail, vq_available_idx, locking, rx, queued, sender, task, signals>>
      BY <1>7 DEF HostReclaim
    <2>2. b \in Bufs /\ Inc(host.read[Rx]) \in Indices /\ used' \in [Rings -> RingRec]
      BY <1>0, <1>2, <2>1
    <2> HIDE DEF b
    <2>3. mem' \in [Rings -> [Bufs -> Cell]]
      BY <1>0, <1>4, <2>1, <2>2, Blanks
    <2>4. host' \in HostRec
      BY <1>0, <2>1, <2>2 DEF HostRec
    <2>5. TypeOK'
      BY <1>0, <2>1, <2>2, <2>3, <2>4, TypeForms DEF Types
    <2> QED BY <1>1, <2>1, <2>5 DEF TInv
  <1>8. CASE HostDone
    <2>1. PICK q \in host.look :
            /\ host' = [host EXCEPT !.look = @ \ {q}]
            /\ UNCHANGED <<world, rings, locking, rx, queued, sender, task, signals>>
      BY <1>8 DEF HostDone
    <2>2. host' \in HostRec
      BY <1>0, <2>1 DEF HostRec
    <2>3. TypeOK'
      BY <1>0, <2>1, <2>2, TypeForms DEF Types
    <2> QED BY <1>1, <2>1, <2>3 DEF TInv
  <1>9. CASE HostSend
    <2>1. PICK b \in host.free, m \in Msgs, e \in Endpoints \cup {NoEndpoint} :
            /\ world' = [world EXCEPT !.posts = Spend(@)]
            /\ host' = [host EXCEPT !.free = @ \ {b}]
            /\ mem' = [mem EXCEPT ![Rx][b] = [ept |-> e, msg |-> m]]
            /\ avail' = [avail EXCEPT ![Rx] = [ring |-> [@.ring EXCEPT ![Slot(avail[Rx].idx)] = b],
                                               idx |-> Inc(@.idx)]]
            /\ kick' \in {TRUE, kick}
            /\ UNCHANGED <<used, vq_available_idx, locking, rx, queued, sender, task, sig, overwritten>>
      BY <1>9 DEF HostSend
    <2>2. b \in Bufs
      BY <1>0 DEF HostRec
    <2>3. world' \in WorldRec /\ kick' \in BOOLEAN
      <3>1. world \in WorldRec /\ kick \in BOOLEAN
        BY <1>0, TypeForms DEF Types
      <3>2. Spend(world.posts) \in Int
        BY <3>1 DEF WorldRec, Spend
      <3> QED BY <2>1, <3>1, <3>2 DEF WorldRec
    <2>4. host' \in HostRec
      BY <1>0, <2>1 DEF HostRec
    <2>5. mem' \in [Rings -> [Bufs -> Cell]]
      <3>1. [ept |-> e, msg |-> m] \in Cell
        BY DEF Cell
      <3> QED BY <1>0, <1>4, <2>1, <2>2, <3>1
    <2>6. avail' \in [Rings -> RingRec]
      BY <1>0, <1>3, <2>1, <2>2
    <2>7. TypeOK'
      BY <1>0, <2>1, <2>3, <2>4, <2>5, <2>6, TypeForms DEF Types
    <2> QED BY <1>1, <2>1, <2>7 DEF TInv
  <1> QED BY <1>5, <1>6, <1>7, <1>8, <1>9 DEF Host

(* Every step keeps the types. *)
LEMMA NextType == TInv /\ [Next]_vars => TInv'
  <1> SUFFICES ASSUME TInv, [Next]_vars PROVE TInv'
    OBVIOUS
  <1>1. CASE UNCHANGED vars
    <2>1. TypeOK'
      BY <1>1, TypeForms DEF TInv, Types, vars, rings, locking, signals
    <2>2. CountInv' /\ BufferInv'
      BY <1>1 DEF TInv, CountInv, BufferInv, Busy, Polling, vars, locking
    <2> QED BY <2>1, <2>2 DEF TInv
  <1> QED BY <1>1, SenderType, RxType, TaskType, HostType DEF Next

(* All variables keep their types, and in_isr_counter is the number of      *)
(* contexts that rpmsg_lite_rx_callback runs in.                            *)
THEOREM TypeCorrect == Spec => []TInv
  <1> QED BY InitType, NextType, PTL DEF Spec


-----------------------------------------------------------------------------
(* Nothing runs on the M0 while the rpmsg task is polling; the interrupt    *)
(* may hit anything else.                                                   *)
Spared == \A w \in Worlds : "poll" \notin w.windows

(* The semaphore is free and nobody is inside, or one user is. *)
LockInv ==
  /\ "poll" \notin world.windows
  /\ \/ lock = 1 /\ Inside = {}
     \/ lock = 0 /\ \E x : Inside = {x}
LInv == TInv /\ LockInv

(* What a sender changes about Inside. *)
LEMMA InsideSteps ==
  ASSUME NEW s \in Senders, task' = task, \A x \in Senders : x # s => sender'[x] = sender[x]
  PROVE  LET In(pc) == pc \in {"alloced", "publish", "sent"}
         IN  /\ s \in Inside <=> In(sender[s].pc)
             /\ In(sender'[s].pc) => Inside' = Inside \cup {s}
             /\ ~In(sender'[s].pc) => Inside' = Inside \ {s}
  <1>1. "task" # s
    BY UsersAssumption
  <1> QED BY <1>1, UsersAssumption DEF Inside

(* What the rpmsg task changes about Inside. *)
LEMMA InsideTask ==
  ASSUME sender' = sender
  PROVE  LET In(pc) == pc \in {"publish", "released"}
         IN  /\ "task" \in Inside <=> In(task.pc)
             /\ In(task'.pc) => Inside' = Inside \cup {"task"}
             /\ ~In(task'.pc) => Inside' = Inside \ {"task"}
  BY UsersAssumption DEF Inside

(* A user goes in. *)
LEMMA GoIn ==
  ASSUME LockInv, in_isr_counter = 0, env_lock_mutex, NEW x, x \notin Inside, Inside' = Inside \cup {x},
         world'.windows = world.windows
  PROVE  LockInv'
  <1>1. lock = 1 /\ Inside = {} /\ lock' = lock - 1
    BY DEF LockInv, env_lock_mutex
  <1>2. lock' = 0 /\ Inside' = {x}
    BY <1>1
  <1> QED BY <1>2 DEF LockInv

(* A user goes out. *)
LEMMA GoOut ==
  ASSUME LockInv, in_isr_counter = 0, env_unlock_mutex, NEW x, x \in Inside, Inside' = Inside \ {x},
         world'.windows = world.windows
  PROVE  LockInv'
  <1>1. lock = 0 /\ \E y : Inside = {y}
    BY DEF LockInv
  <1>2. lock' = 1
    BY <1>1, RingAssumption DEF env_unlock_mutex
  <1>3. Inside' = {}
    BY <1>1
  <1> QED BY <1>2, <1>3 DEF LockInv

(* Nobody does either. *)
LEMMA GoOn ==
  ASSUME LockInv, lock' = lock, Inside' = Inside, world'.windows = world.windows
  PROVE  LockInv'
  BY DEF LockInv

(* The counter that makes the lock a dummy is 0 whenever a task uses it. *)
LEMMA NotInIsr ==
  ASSUME TInv, LockInv, TaskRuns
  PROVE  (SenderRuns \/ task.pc # "poll") => in_isr_counter = 0
  BY DEF TInv, CountInv, LockInv, TaskRuns, SenderRuns, Busy, Polling

(* Every step keeps the semaphore exact. *)
LEMMA NextLock ==
  ASSUME LInv, [Next]_vars
  PROVE  LInv'
  <1> USE DEF rings, locking, signals
  <1>0. TInv /\ LockInv /\ sender \in [Senders -> SenderRec] /\ task \in TaskRec /\ world \in WorldRec
    BY TypeForms DEF LInv, TInv, Types
  <1>1. TInv'
    BY <1>0, NextType
  <1> SUFFICES LockInv'
    BY <1>1 DEF LInv
  <1>2. ASSUME lock' = lock, sender' = sender, task' = task, world'.windows = world.windows
        PROVE  LockInv'
    <2>1. Inside' = Inside
      BY <1>2 DEF Inside
    <2> QED BY <1>0, <1>2, <2>1, GoOn
  <1>3. CASE UNCHANGED vars
    BY <1>2, <1>3 DEF vars
  <1>4. ASSUME NEW s \in Senders, rpmsg_lite_send(s) \/ Sender(s)
        PROVE  LockInv'
    <2>1. task' = task /\ SenderRuns /\ TaskRuns
      BY <1>4 DEF Sender, rpmsg_lite_send, Alloc, Alloced, Enqueue, Publish, Sent, SenderRuns
    <2>2. in_isr_counter = 0
      BY <1>0, <2>1, NotInIsr
    <2>3. CASE rpmsg_lite_send(s)
      <3>1. PICK m \in Msgs, timeout \in Timeouts :
              sender' = [sender EXCEPT ![s] = [pc |-> "alloc", left |-> timeout, msg |-> m, buf |-> None]]
        BY <2>3 DEF rpmsg_lite_send
      <3>2. sender[s].pc = "idle" /\ sender'[s].pc = "alloc" /\ \A x \in Senders : x # s => sender'[x] = sender[x]
        BY <1>0, <2>3, <3>1 DEF rpmsg_lite_send
      <3>3. world'.windows = world.windows /\ lock' = lock
        BY <1>0, <2>3 DEF rpmsg_lite_send, WorldRec
      <3>4. Inside' = Inside
        BY <2>1, <3>2, InsideSteps
      <3> QED BY <1>0, <3>3, <3>4, GoOn
    <2>4. CASE Alloc(s)
      <3>1. /\ sender[s].pc = "alloc" /\ sender'[s].pc = "alloced"
            /\ \A x \in Senders : x # s => sender'[x] = sender[x]
        BY <1>0, <2>4 DEF Alloc, SenderRec
      <3>2. env_lock_mutex /\ world' = world
        BY <2>4 DEF Alloc
      <3>3. s \notin Inside /\ Inside' = Inside \cup {s}
        BY <2>1, <3>1, InsideSteps
      <3> QED BY <1>0, <2>2, <3>2, <3>3, GoIn
    <2>5. CASE Alloced(s)
      <3>1. /\ sender[s].pc = "alloced" /\ sender' = [sender EXCEPT ![s] = Tried(sender[s])]
            /\ env_unlock_mutex /\ world' = world
        BY <2>5 DEF Alloced
      <3>2. Tried(sender[s]).pc \in {"fill", "idle", "alloc"}
        <4>1. sender[s] \in SenderRec
          BY <1>0
        <4>2. CASE sender[s].buf # None
          BY <4>1, <4>2 DEF Tried, SenderRec
        <4>3. CASE sender[s].buf = None /\ sender[s].left = 0
          BY <4>3, Blanks DEF Tried
        <4>4. CASE sender[s].buf = None /\ sender[s].left # 0
          BY <4>1, <4>4 DEF Tried, SenderRec
        <4> QED BY <4>2, <4>3, <4>4
      <3>3. sender'[s].pc \in {"fill", "idle", "alloc"} /\ \A x \in Senders : x # s => sender'[x] = sender[x]
        BY <1>0, <3>1, <3>2
      <3>4. s \in Inside /\ Inside' = Inside \ {s}
        BY <2>1, <3>1, <3>3, InsideSteps
      <3> QED BY <1>0, <2>2, <3>1, <3>4, GoOut
    <2>6. CASE Enqueue(s)
      <3>1. /\ sender[s].pc = "fill" /\ sender'[s].pc = "publish"
            /\ \A x \in Senders : x # s => sender'[x] = sender[x]
        BY <1>0, <2>6 DEF Enqueue, SenderRec
      <3>2. env_lock_mutex /\ world' = world
        BY <2>6 DEF Enqueue
      <3>3. s \notin Inside /\ Inside' = Inside \cup {s}
        BY <2>1, <3>1, InsideSteps
      <3> QED BY <1>0, <2>2, <3>2, <3>3, GoIn
    <2>7. CASE Publish(s)
      <3>1. /\ sender[s].pc = "publish" /\ sender'[s].pc = "sent"
            /\ \A x \in Senders : x # s => sender'[x] = sender[x]
        BY <1>0, <2>7, Blanks DEF Publish
      <3>2. lock' = lock /\ world' = world
        BY <2>7 DEF Publish
      <3>3. Inside' = Inside
        BY <2>1, <3>1, InsideSteps
      <3> QED BY <1>0, <3>2, <3>3, GoOn
    <2>8. CASE Sent(s)
      <3>1. /\ sender[s].pc = "sent" /\ sender'[s].pc = "idle"
            /\ \A x \in Senders : x # s => sender'[x] = sender[x]
        BY <1>0, <2>8, Blanks DEF Sent
      <3>2. env_unlock_mutex /\ world' = world
        BY <2>8 DEF Sent
      <3>3. s \in Inside /\ Inside' = Inside \ {s}
        BY <2>1, <3>1, InsideSteps
      <3> QED BY <1>0, <2>2, <3>2, <3>3, GoOut
    <2> QED BY <1>4, <2>3, <2>4, <2>5, <2>6, <2>7, <2>8 DEF Sender
  <1>5. ASSUME NEW c \in Contexts, Receive(c)
        PROVE  LockInv'
    <2>1. CASE RxPeek(c) \/ RxTake(c)
      BY <1>2, <2>1 DEF RxPeek, RxTake
    <2>2. CASE RxDone(c)
      <3>1. /\ lock' = lock /\ sender' = sender /\ world' = world /\ rx[c].pc = "take"
            /\ task' = IF c = "poll" THEN [task EXCEPT !.pc = "select"] ELSE task
        BY <2>2 DEF RxDone
      <3>2. task'.pc = task.pc \/ (task.pc = "poll" /\ task'.pc = "select")
        BY <1>0, <3>1 DEF TaskRec, TInv, CountInv, Polling
      <3>3. Inside' = Inside
        BY <3>1, <3>2, InsideTask
      <3> QED BY <1>0, <3>1, <3>3, GoOn
    <2> QED BY <1>5, <2>1, <2>2 DEF Receive
  <1>6. CASE platform_isr_handle
    BY <1>2, <1>6 DEF platform_isr_handle
  <1>7. CASE Task
    <2>1. sender' = sender /\ world' = world /\ TaskRuns
      BY <1>7 DEF Task, Select, Poll, oblfr_process_queue, rpmsg_lite_release_rx_buffer, ReleasePublish, Released
    <2>2. CASE Select \/ Poll \/ oblfr_process_queue
      <3>1. /\ lock' = lock /\ task.pc \in {"select", "callback"}
            /\ task'.pc \in {"callback", "poll", "release"}
        BY <1>0, <2>2 DEF Select, Poll, oblfr_process_queue, TaskRec
      <3>2. Inside' = Inside
        BY <2>1, <3>1, InsideTask
      <3> QED BY <1>0, <2>1, <3>1, <3>2, GoOn
    <2>3. CASE rpmsg_lite_release_rx_buffer
      <3>1. env_lock_mutex /\ task.pc = "release" /\ task'.pc = "publish"
        BY <1>0, <2>3 DEF rpmsg_lite_release_rx_buffer, TaskRec
      <3>2. in_isr_counter = 0
        BY <1>0, <2>1, <3>1, NotInIsr
      <3>3. "task" \notin Inside /\ Inside' = Inside \cup {"task"}
        BY <2>1, <3>1, InsideTask
      <3> QED BY <1>0, <2>1, <3>1, <3>2, <3>3, GoIn
    <2>4. CASE ReleasePublish
      <3>1. lock' = lock /\ task.pc = "publish" /\ task'.pc = "released"
        BY <2>4 DEF ReleasePublish
      <3>2. Inside' = Inside
        BY <2>1, <3>1, InsideTask
      <3> QED BY <1>0, <2>1, <3>1, <3>2, GoOn
    <2>5. CASE Released
      <3>1. env_unlock_mutex /\ task.pc = "released" /\ task'.pc = "select"
        BY <1>0, <2>5 DEF Released, TaskRec
      <3>2. in_isr_counter = 0
        BY <1>0, <2>1, <3>1, NotInIsr
      <3>3. "task" \in Inside /\ Inside' = Inside \ {"task"}
        BY <2>1, <3>1, InsideTask
      <3> QED BY <1>0, <2>1, <3>1, <3>2, <3>3, GoOut
    <2> QED BY <1>7, <2>2, <2>3, <2>4, <2>5 DEF Task
  <1>8. CASE Host
    BY <1>2, <1>8 DEF Host, HostSignal, HostReceive, HostReclaim, HostDone
  <1>9. CASE HostSend
    <2>1. lock' = lock /\ sender' = sender /\ task' = task /\ world'.windows = world.windows
      BY <1>0, <1>9 DEF HostSend, WorldRec
    <2> QED BY <1>2, <2>1
  <1> QED BY <1>3, <1>4, <1>5, <1>6, <1>7, <1>8, <1>9 DEF Next, LInv

(* LockExact: for every number of senders, buffers and endpoints the        *)
(* semaphore of rpmsg-lite is taken exactly while a sender or the rpmsg     *)
(* task is between env_lock_mutex and env_unlock_mutex, however the         *)
(* interrupt, which makes both do nothing, comes in between; provided that  *)
(* nothing else runs while the rpmsg task polls.                            *)
THEOREM LockExactCorrect ==
  ASSUME Spared
  PROVE  Spec => []LockExact
  <1>1. Init => LInv
    <2> SUFFICES ASSUME Init PROVE LInv
      OBVIOUS
    <2>1. "poll" \notin world.windows /\ lock = 1 /\ task.pc = "select"
      BY DEF Init, Spared
    <2>2. \A s \in Senders : sender[s].pc = "idle"
      BY Blanks DEF Init
    <2>3. Inside = {}
      BY <2>1, <2>2 DEF Inside
    <2> QED BY <2>1, <2>3, InitType DEF LInv, LockInv
  <1>2. LInv /\ [Next]_vars => LInv'
    BY NextLock
  <1>3. LInv => LockExact
    <2> SUFFICES ASSUME LInv PROVE LockExact
      OBVIOUS
    <2>1. Cardinality({}) = 0
      BY FS_EmptySet
    <2>2. \A x : Cardinality({x}) = 1
      BY FS_Singleton
    <2>3. lock + Cardinality(Inside) = 1
      <3>1. CASE lock = 1 /\ Inside = {}
        BY <2>1, <3>1
      <3>2. CASE lock = 0 /\ \E x : Inside = {x}
        BY <2>2, <3>2
      <3> QED BY <3>1, <3>2 DEF LInv, LockInv
    <2> QED BY <2>3 DEF LInv, TInv, LockExact
  <1> QED BY <1>1, <1>2, <1>3, PTL DEF Spec


-----------------------------------------------------------------------------
(* Arithmetic modulo n *)

(* Remainders are unique. *)
LEMMA ModUnique ==
  ASSUME NEW n \in Nat \ {0}, NEW q \in Nat, NEW r \in 0 .. n - 1
  PROVE  (q * n + r) % n = r
  OBVIOUS

(* Quotient and remainder *)
LEMMA ModSplit ==
  ASSUME NEW n \in Nat \ {0}, NEW x \in Nat
  PROVE  \E q \in Nat : x = q * n + (x % n) /\ x % n \in 0 .. n - 1
  <1>1. x \div n \in Nat /\ x % n \in 0 .. n - 1
    OBVIOUS
  <1>2. x = (x \div n) * n + (x % n)
    OBVIOUS
  <1> QED BY <1>1, <1>2

(* A multiple of n can be left out. *)
LEMMA ModMultiple ==
  ASSUME NEW n \in Nat \ {0}, NEW m \in Nat, m % n = 0, NEW x \in Nat
  PROVE  (x + m) % n = x % n
  <1>1. PICK q \in Nat : x = q * n + (x % n) /\ x % n \in 0 .. n - 1
    BY ModSplit
  <1>2. PICK p \in Nat : m = p * n
    <2>1. PICK p \in Nat : m = p * n + (m % n)
      BY ModSplit
    <2> QED BY <2>1
  <1>3. x + m = (q + p) * n + (x % n) /\ q + p \in Nat
    BY <1>1, <1>2
  <1> QED BY <1>1, <1>3, ModUnique

(* Numbers less than n apart have different remainders. *)
LEMMA ModNear ==
  ASSUME NEW n \in Nat \ {0}, NEW x \in Nat, NEW y \in Nat, x <= y, y - x < n, x % n = y % n
  PROVE  x = y
  <1>1. PICK q \in Nat : x = q * n + (x % n) /\ x % n \in 0 .. n - 1
    BY ModSplit
  <1>2. PICK p \in Nat : y = p * n + (y % n) /\ y % n \in 0 .. n - 1
    BY ModSplit
  <1>3. p * n - q * n \in 0 .. n - 1
    BY <1>1, <1>2
  <1>4. p >= q
    BY <1>3
  <1>5. (p - q) * n = p * n - q * n
    OBVIOUS
  <1>6. p - q < 1
    BY <1>3, <1>4, <1>5
  <1> QED BY <1>1, <1>2, <1>4, <1>6

(* The distance of two indices of a ring, and how it changes. *)
LEMMA Dists ==
  ASSUME NEW x \in Indices, NEW y \in Indices
  PROVE  /\ Dist(x, y) \in 0 .. IdxMod - 1
         /\ Dist(x, y) = IF y >= x THEN y - x ELSE y - x + IdxMod
         /\ x # y => Dist(x, y) >= 1 /\ Dist(Inc(x), y) = Dist(x, y) - 1
         /\ x = y => Dist(x, y) = 0
         /\ Dist(x, y) < IdxMod - 1 => Dist(x, Inc(y)) = Dist(x, y) + 1
  <1>1. IdxMod \in Nat \ {0} /\ IdxMod > 1
    BY RingAssumption
  <1>2. \A i, j \in 0 .. IdxMod - 1 : (j - i) % IdxMod = IF j >= i THEN j - i ELSE j - i + IdxMod
    BY <1>1
  <1>3. \A i \in 0 .. IdxMod - 1 : (i + 1) % IdxMod = IF i + 1 = IdxMod THEN 0 ELSE i + 1
    BY <1>1
  <1>4. x \in 0 .. IdxMod - 1 /\ y \in 0 .. IdxMod - 1
    BY DEF Indices
  <1>5. /\ Inc(x) = (IF x + 1 = IdxMod THEN 0 ELSE x + 1) /\ Inc(x) \in 0 .. IdxMod - 1
        /\ Inc(y) = (IF y + 1 = IdxMod THEN 0 ELSE y + 1) /\ Inc(y) \in 0 .. IdxMod - 1
    BY <1>1, <1>3, <1>4 DEF Inc
  <1>6. Dist(x, y) = IF y >= x THEN y - x ELSE y - x + IdxMod
    BY <1>2, <1>4 DEF Dist
  <1>7. Dist(Inc(x), y) = IF y >= Inc(x) THEN y - Inc(x) ELSE y - Inc(x) + IdxMod
    BY <1>2, <1>4, <1>5 DEF Dist
  <1>8. Dist(x, Inc(y)) = IF Inc(y) >= x THEN Inc(y) - x ELSE Inc(y) - x + IdxMod
    BY <1>2, <1>4, <1>5 DEF Dist
  <1> QED BY <1>1, <1>4, <1>5, <1>6, <1>7, <1>8

(* The slot of the i-th entry from an index on. *)
Pos(from, i) == Slot(from + i - 1)

(* The slots are consecutive, and all different within one turn. *)
LEMMA Slots ==
  ASSUME NEW from \in Indices
  PROVE  /\ \A i \in Nat \ {0} : Pos(from, i) \in Bufs /\ Pos(Inc(from), i) = Pos(from, i + 1)
         /\ \A to \in Indices : Slot(to) = Pos(from, Dist(from, to) + 1)
         /\ Slot(from) = Pos(from, 1)
         /\ \A i, j \in 1 .. N : Pos(from, i) = Pos(from, j) => i = j
  <1>0. /\ N \in Nat \ {0} /\ IdxMod \in Nat \ {0} /\ IdxMod % N = 0 /\ IdxMod > 1
        /\ from \in 0 .. IdxMod - 1 /\ from \in Nat
    BY RingAssumption DEF Indices
  <1>1. ASSUME NEW i \in Nat \ {0}
        PROVE  Pos(from, i) \in Bufs /\ Pos(Inc(from), i) = Pos(from, i + 1)
    <2>1. from + i - 1 \in Nat /\ (from + i - 1) % N \in 0 .. N - 1
      BY <1>0
    <2>2. Inc(from) = IF from + 1 = IdxMod THEN 0 ELSE from + 1
      BY <1>0 DEF Inc
    <2>3. CASE from + 1 = IdxMod
      <3>1. i - 1 \in Nat /\ from + (i + 1) - 1 = (i - 1) + IdxMod /\ Inc(from) + i - 1 = i - 1
        BY <1>0, <2>2, <2>3
      <3>2. ((i - 1) + IdxMod) % N = (i - 1) % N
        BY <1>0, <3>1, ModMultiple
      <3> QED BY <2>1, <3>1, <3>2 DEF Pos, Slot, Bufs
    <2>4. CASE from + 1 # IdxMod
      <3>1. Inc(from) + i - 1 = from + (i + 1) - 1
        BY <1>0, <2>2, <2>4
      <3> QED BY <2>1, <3>1 DEF Pos, Slot, Bufs
    <2> QED BY <2>3, <2>4
  <1>2. ASSUME NEW to \in Indices
        PROVE  Slot(to) = Pos(from, Dist(from, to) + 1)
    <2>0. to \in Nat
      BY <1>0 DEF Indices
    <2>1. Dist(from, to) = IF to >= from THEN to - from ELSE to - from + IdxMod
      BY Dists
    <2>2. CASE to >= from
      <3>1. from + (Dist(from, to) + 1) - 1 = to
        BY <1>0, <2>0, <2>1, <2>2
      <3> QED BY <3>1 DEF Pos
    <2>3. CASE ~(to >= from)
      <3>1. from + (Dist(from, to) + 1) - 1 = to + IdxMod
        BY <1>0, <2>0, <2>1, <2>3
      <3>2. (to + IdxMod) % N = to % N
        BY <1>0, <2>0, ModMultiple
      <3> QED BY <3>1, <3>2 DEF Pos, Slot
    <2> QED BY <2>2, <2>3
  <1>3. Slot(from) = Pos(from, 1)
    <2>1. from + 1 - 1 = from
      BY <1>0
    <2> QED BY <2>1 DEF Pos
  <1>4. ASSUME NEW i \in 1 .. N, NEW j \in 1 .. N, Pos(from, i) = Pos(from, j), i <= j
        PROVE  i = j
    <2>1. /\ from + i - 1 \in Nat /\ from + j - 1 \in Nat /\ from + i - 1 <= from + j - 1
          /\ (from + j - 1) - (from + i - 1) < N
      BY <1>0, <1>4
    <2>2. (from + i - 1) % N = (from + j - 1) % N
      BY <1>4 DEF Pos, Slot
    <2>3. from + i - 1 = from + j - 1
      BY <1>0, <2>1, <2>2, ModNear
    <2> QED BY <1>0, <2>3
  <1>5. \A i, j \in 1 .. N : Pos(from, i) = Pos(from, j) => i = j
    <2> SUFFICES ASSUME NEW i \in 1 .. N, NEW j \in 1 .. N, Pos(from, i) = Pos(from, j) PROVE i = j
      OBVIOUS
    <2>1. i <= j \/ j <= i
      BY <1>0
    <2> QED BY <1>4, <2>1
  <1> QED BY <1>1, <1>2, <1>3, <1>5


-----------------------------------------------------------------------------
(* The buffers that lie in a ring between two indices, each of them once. *)
Window(ring, from, to) == {ring[Pos(from, i)] : i \in 1 .. Dist(from, to)}
Distinct(ring, from, to) ==
  \A i, j \in 1 .. Dist(from, to) : ring[Pos(from, i)] = ring[Pos(from, j)] => i = j

(* A ring holds no more buffers than there are, and fewer if one of them is *)
(* elsewhere.                                                               *)
LEMMA RingHolds ==
  ASSUME NEW ring \in [Bufs -> Bufs], NEW from \in Indices, NEW to \in Indices, Distinct(ring, from, to)
  PROVE  /\ Dist(from, to) <= N
         /\ \A b \in Bufs : b \notin Window(ring, from, to) => Dist(from, to) < N
  <1> DEFINE d == Dist(from, to)
             f == [i \in 1 .. d |-> ring[Pos(from, i)]]
  <1>1. d \in Nat /\ N \in Nat
    BY Dists, RingAssumption DEF Indices
  <1>2. \A i \in 1 .. d : Pos(from, i) \in Bufs
    BY <1>1, Slots
  <1>3. f \in Injection(1 .. d, Bufs)
    BY <1>2 DEF Distinct, Injection, IsInjective
  <1>4. IsFiniteSet(Bufs) /\ Cardinality(Bufs) = N
    <2>1. IsFiniteSet(0 .. N - 1) /\ Cardinality(0 .. N - 1) = IF 0 > N - 1 THEN 0 ELSE (N - 1) - 0 + 1
      BY <1>1, FS_Interval
    <2> QED BY <1>1, <2>1, RingAssumption DEF Bufs
  <1>5. Cardinality(1 .. d) = d
    <2>1. Cardinality(1 .. d) = IF 1 > d THEN 0 ELSE d - 1 + 1
      BY <1>1, FS_Interval
    <2> QED BY <1>1, <2>1
  <1>6. d <= N /\ (d = N => f \in Surjection(1 .. d, Bufs))
    <2>1. /\ Cardinality(1 .. d) <= Cardinality(Bufs)
          /\ Cardinality(1 .. d) = Cardinality(Bufs) <=> f \in Surjection(1 .. d, Bufs)
      BY <1>3, <1>4, FS_Injection
    <2> QED BY <1>4, <1>5, <2>1
  <1>7. ASSUME NEW b \in Bufs, b \notin Window(ring, from, to) PROVE d < N
    <2>1. ASSUME d = N PROVE FALSE
      <3>1. \E i \in 1 .. d : f[i] = b
        BY <1>6, <2>1 DEF Surjection
      <3> QED BY <1>7, <3>1 DEF Window
    <2> QED BY <1>1, <1>6, <2>1
  <1> QED BY <1>6, <1>7

(* Taking the first buffer: the index goes on. *)
LEMMA TakeFirst ==
  ASSUME NEW ring \in [Bufs -> Bufs], NEW from \in Indices, NEW to \in Indices, Distinct(ring, from, to),
         from # to
  PROVE  /\ ring[Slot(from)] \in Window(ring, from, to)
         /\ Window(ring, Inc(from), to) = Window(ring, from, to) \ {ring[Slot(from)]}
         /\ Distinct(ring, Inc(from), to)
  <1> DEFINE d == Dist(from, to)
  <1>1. d \in Nat /\ d >= 1 /\ Dist(Inc(from), to) = d - 1 /\ Slot(from) = Pos(from, 1)
    BY Dists, Slots, RingAssumption DEF Indices
  <1>2. \A i \in 1 .. d - 1 : i + 1 \in 1 .. d /\ i + 1 # 1 /\ Pos(Inc(from), i) = Pos(from, i + 1)
    BY <1>1, Slots
  <1>3. \A j \in 1 .. d : j # 1 => j - 1 \in 1 .. d - 1 /\ (j - 1) + 1 = j
    BY <1>1
  <1> HIDE DEF d
  <1>4. Distinct(ring, Inc(from), to)
    <2> SUFFICES ASSUME NEW i \in 1 .. d - 1, NEW j \in 1 .. d - 1,
                        ring[Pos(Inc(from), i)] = ring[Pos(Inc(from), j)]
                 PROVE  i = j
      BY <1>1 DEF Distinct
    <2>1. i + 1 = j + 1
      BY <1>2 DEF Distinct, d
    <2> QED BY <2>1
  <1>5. ring[Slot(from)] \in Window(ring, from, to)
    <2>1. 1 \in 1 .. d
      BY <1>1
    <2> QED BY <1>1, <2>1 DEF Window, d
  <1>6. ASSUME NEW i \in 1 .. d - 1
        PROVE  ring[Pos(Inc(from), i)] \in Window(ring, from, to) \ {ring[Slot(from)]}
    <2>1. i + 1 \in 1 .. d /\ 1 \in 1 .. d /\ i + 1 # 1 /\ ring[Pos(Inc(from), i)] = ring[Pos(from, i + 1)]
      BY <1>1, <1>2
    <2>2. ring[Pos(from, i + 1)] # ring[Pos(from, 1)]
      BY <2>1 DEF Distinct, d
    <2> QED BY <1>1, <2>1, <2>2 DEF Window, d
  <1>7. ASSUME NEW j \in 1 .. d, ring[Pos(from, j)] # ring[Slot(from)]
        PROVE  \E i \in 1 .. d - 1 : ring[Pos(Inc(from), i)] = ring[Pos(from, j)]
    <2>1. j # 1
      BY <1>1, <1>7
    <2>2. j - 1 \in 1 .. d - 1 /\ Pos(Inc(from), j - 1) = Pos(from, j)
      BY <1>2, <1>3, <2>1
    <2> QED BY <2>2
  <1>8. Window(ring, Inc(from), to) = Window(ring, from, to) \ {ring[Slot(from)]}
    <2>1. Window(ring, Inc(from), to) = {ring[Pos(Inc(from), i)] : i \in 1 .. d - 1}
      BY <1>1 DEF Window
    <2>2. Window(ring, from, to) = {ring[Pos(from, j)] : j \in 1 .. d}
      BY DEF Window, d
    <2> QED BY <1>6, <1>7, <2>1, <2>2
  <1> QED BY <1>4, <1>5, <1>8

(* Writing a slot in front of the index changes nothing in between. *)
LEMMA WriteAhead ==
  ASSUME NEW ring \in [Bufs -> Bufs], NEW from \in Indices, NEW to \in Indices, Dist(from, to) < N,
         NEW b \in Bufs
  PROVE  LET new == [ring EXCEPT ![Slot(to)] = b]
         IN  /\ new \in [Bufs -> Bufs] /\ new[Slot(to)] = b
             /\ Window(new, from, to) = Window(ring, from, to)
             /\ Distinct(ring, from, to) => Distinct(new, from, to)
  <1> DEFINE d == Dist(from, to)
             new == [ring EXCEPT ![Slot(to)] = b]
  <1>1. d \in Nat /\ Slot(to) = Pos(from, d + 1) /\ N \in Nat /\ d + 1 \in 1 .. N
    <2>1. d \in 0 .. IdxMod - 1 /\ N \in Nat /\ IdxMod \in Nat
      BY Dists, RingAssumption
    <2>2. Slot(to) = Pos(from, d + 1)
      BY Slots
    <2> QED BY <2>1, <2>2
  <1>2. \A i \in 1 .. d : i \in 1 .. N /\ i # d + 1 /\ i \in Nat \ {0}
    BY <1>1
  <1>3. \A i \in 1 .. d : Pos(from, i) \in Bufs /\ Pos(from, i) # Slot(to)
    BY <1>1, <1>2, Slots
  <1>4. Slot(to) \in Bufs
    BY Wraps
  <1>5. new \in [Bufs -> Bufs] /\ new[Slot(to)] = b /\ \A i \in 1 .. d : new[Pos(from, i)] = ring[Pos(from, i)]
    BY <1>3, <1>4
  <1> HIDE DEF new
  <1>6. Window(new, from, to) = Window(ring, from, to)
    BY <1>5 DEF Window
  <1>7. Distinct(ring, from, to) => Distinct(new, from, to)
    BY <1>5 DEF Distinct
  <1> QED BY <1>5, <1>6, <1>7 DEF new

(* Publishing what was written: the index behind it goes on. *)
LEMMA AddLast ==
  ASSUME NEW ring \in [Bufs -> Bufs], NEW from \in Indices, NEW to \in Indices, Distinct(ring, from, to),
         Dist(from, to) < N, ring[Slot(to)] \notin Window(ring, from, to)
  PROVE  /\ Window(ring, from, Inc(to)) = Window(ring, from, to) \cup {ring[Slot(to)]}
         /\ Distinct(ring, from, Inc(to))
  <1> DEFINE d == Dist(from, to)
  <1>1. /\ d \in Nat /\ Dist(from, Inc(to)) = d + 1 /\ Slot(to) = Pos(from, d + 1)
        /\ d + 1 \in 1 .. d + 1
    <2>1. d \in 0 .. IdxMod - 1 /\ N \in Nat /\ IdxMod \in Nat /\ d < IdxMod - 1
      BY Dists, RingAssumption
    <2>2. Dist(from, Inc(to)) = d + 1
      BY <2>1, Dists
    <2>3. Slot(to) = Pos(from, d + 1)
      BY Slots
    <2> QED BY <2>1, <2>2, <2>3
  <1>2. \A i \in 1 .. d + 1 : i = d + 1 \/ i \in 1 .. d
    BY <1>1
  <1>3. \A i \in 1 .. d : i \in 1 .. d + 1 /\ ring[Pos(from, i)] # ring[Slot(to)]
    BY <1>1 DEF Window
  <1> HIDE DEF d
  <1>4. Distinct(ring, from, Inc(to))
    <2> SUFFICES ASSUME NEW i \in 1 .. d + 1, NEW j \in 1 .. d + 1, ring[Pos(from, i)] = ring[Pos(from, j)]
                 PROVE  i = j
      BY <1>1 DEF Distinct
    <2>1. CASE i \in 1 .. d /\ j \in 1 .. d
      BY <2>1 DEF Distinct, d
    <2>2. CASE ~(i \in 1 .. d /\ j \in 1 .. d)
      BY <1>1, <1>2, <1>3, <2>2
    <2> QED BY <2>1, <2>2
  <1>5. Window(ring, from, Inc(to)) = Window(ring, from, to) \cup {ring[Slot(to)]}
    <2>1. Window(ring, from, Inc(to)) = {ring[Pos(from, i)] : i \in 1 .. d + 1}
      BY <1>1 DEF Window
    <2>2. Window(ring, from, to) = {ring[Pos(from, j)] : j \in 1 .. d}
      BY DEF Window, d
    <2> QED BY <1>1, <1>2, <1>3, <2>1, <2>2
  <1> QED BY <1>4, <1>5

(* Forgetting what was taken: the slot behind the index is written. *)
LEMMA WriteBehind ==
  ASSUME NEW ring \in [Bufs -> Bufs], NEW from \in Indices, NEW to \in Indices, from # to,
         Dist(from, to) <= N
  PROVE  LET new == [ring EXCEPT ![Slot(from)] = 0]
         IN  /\ new \in [Bufs -> Bufs]
             /\ Window(new, Inc(from), to) = Window(ring, Inc(from), to)
             /\ Distinct(ring, Inc(from), to) => Distinct(new, Inc(from), to)
             /\ Dist(from, to) < N => new[Slot(to)] = ring[Slot(to)]
  <1> DEFINE d == Dist(from, to)
             new == [ring EXCEPT ![Slot(from)] = 0]
  <1>1. /\ d \in Nat /\ d >= 1 /\ Dist(Inc(from), to) = d - 1 /\ Slot(from) = Pos(from, 1)
        /\ Slot(to) = Pos(from, d + 1) /\ N \in Nat /\ 1 \in 1 .. N
    BY Dists, Slots, RingAssumption DEF Indices
  <1>2. \A i \in 1 .. d - 1 : i + 1 \in 1 .. N /\ i + 1 # 1 /\ i \in Nat \ {0} /\ i + 1 \in Nat \ {0}
    BY <1>1
  <1>3. \A i \in 1 .. d - 1 : Pos(Inc(from), i) = Pos(from, i + 1)
    BY <1>2, Slots
  <1>4. \A i \in 1 .. d - 1 : Pos(from, i + 1) # Pos(from, 1)
    BY <1>1, <1>2, Slots
  <1>5. \A i \in 1 .. d - 1 : Pos(Inc(from), i) # Slot(from) /\ Pos(Inc(from), i) \in Bufs
    BY <1>1, <1>2, <1>3, <1>4, Slots, Wraps
  <1>6. d < N => Slot(to) # Slot(from)
    <2> HAVE d < N
    <2>1. d + 1 \in 1 .. N /\ d + 1 # 1
      BY <1>1
    <2>2. Pos(from, d + 1) # Pos(from, 1)
      BY <1>1, <2>1, Slots
    <2> QED BY <1>1, <2>2
  <1>7. Slot(from) \in Bufs /\ Slot(to) \in Bufs /\ 0 \in Bufs
    BY Wraps
  <1>8. /\ new \in [Bufs -> Bufs] /\ (d < N => new[Slot(to)] = ring[Slot(to)])
        /\ \A i \in 1 .. d - 1 : new[Pos(Inc(from), i)] = ring[Pos(Inc(from), i)]
    BY <1>5, <1>6, <1>7
  <1> HIDE DEF new
  <1>9. Window(new, Inc(from), to) = Window(ring, Inc(from), to)
    BY <1>1, <1>8 DEF Window
  <1>10. Distinct(ring, Inc(from), to) => Distinct(new, Inc(from), to)
    BY <1>1, <1>8 DEF Distinct
  <1> QED BY <1>8, <1>9, <1>10 DEF new


-----------------------------------------------------------------------------
(* The buffers offered and handed back as sets. *)
Off(q) == Window(avail[q].ring, vq_available_idx[q], avail[q].idx)
Ret(q) == Window(used[q].ring, host.read[q], used[q].idx)
Once(q) ==
  /\ Distinct(avail[q].ring, vq_available_idx[q], avail[q].idx)
  /\ Distinct(used[q].ring, host.read[q], used[q].idx)
Owned == {sender[s].buf : s \in Senders} \ {None}

(* Ring Tx: every buffer is offered, with a sender, or handed back.  What a *)
(* sender has put into the used ring stays there until it is published.     *)
TxInv ==
  /\ Once(Tx)
  /\ Off(Tx) \cap Ret(Tx) = {} /\ (Off(Tx) \cup Ret(Tx)) \cap Owned = {}
  /\ Off(Tx) \cup Ret(Tx) \cup Owned = Bufs
  /\ \A s, t \in Senders : sender[s].buf = sender[t].buf /\ sender[s].buf # None => s = t
  /\ \A s \in Senders :
       /\ sender[s].pc \in {"idle", "alloc", "sent"} => sender[s].buf = None
       /\ sender[s].pc = "publish" =>
            sender[s].buf \in Bufs /\ used[Tx].ring[Slot(used[Tx].idx)] = sender[s].buf

(* The types of everything that lies in the rings. *)
LEMMA RingTypes ==
  ASSUME TypeOK, NEW q \in Rings
  PROVE  /\ avail[q].ring \in [Bufs -> Bufs] /\ avail[q].idx \in Indices
         /\ used[q].ring \in [Bufs -> Bufs] /\ used[q].idx \in Indices
         /\ vq_available_idx[q] \in Indices /\ host.read[q] \in Indices
         /\ avail \in [Rings -> RingRec] /\ used \in [Rings -> RingRec]
         /\ avail[q] \in RingRec /\ used[q] \in RingRec
  BY TypeForms DEF Types, RingRec, HostRec

(* PutUsed, and PublishUsed, on one ring *)
LEMMA UsedSteps ==
  ASSUME TypeOK, NEW q \in Rings, NEW b \in Bufs
  PROVE  /\ PutUsed(q, b)[q].ring = [used[q].ring EXCEPT ![Slot(used[q].idx)] = b]
         /\ PutUsed(q, b)[q].idx = used[q].idx
         /\ PublishUsed(q)[q].ring = used[q].ring /\ PublishUsed(q)[q].idx = Inc(used[q].idx)
         /\ \A p \in Rings : p # q => PutUsed(q, b)[p] = used[p] /\ PublishUsed(q)[p] = used[p]
  <1>1. used \in [Rings -> RingRec] /\ used[q] \in RingRec
    BY RingTypes
  <1>2. PutUsed(q, b) = [used EXCEPT ![q] = [used[q] EXCEPT !.ring = [used[q].ring EXCEPT ![Slot(used[q].idx)] = b]]]
    BY <1>1 DEF PutUsed
  <1>3. PublishUsed(q) = [used EXCEPT ![q] = [used[q] EXCEPT !.idx = Inc(used[q].idx)]]
    BY <1>1 DEF PublishUsed
  <1> QED BY <1>1, <1>2, <1>3 DEF RingRec

(* What ring Tx depends on *)
LEMMA TxKept ==
  ASSUME TxInv, avail'[Tx] = avail[Tx], used'[Tx] = used[Tx], host'.read[Tx] = host.read[Tx],
         vq_available_idx'[Tx] = vq_available_idx[Tx], sender' = sender
  PROVE  TxInv'
  <1>1. Off(Tx)' = Off(Tx) /\ Ret(Tx)' = Ret(Tx) /\ Owned' = Owned /\ Once(Tx)'
    BY DEF TxInv, Off, Ret, Owned, Once
  <1> QED BY <1>1 DEF TxInv

(* A sender that keeps its buffer or never had one *)
LEMMA OwnedKept ==
  ASSUME TypeOK, TxInv, UNCHANGED <<avail, vq_available_idx, host>>, NEW s \in Senders,
         used' = used, sender' \in [Senders -> SenderRec],
         \A x \in Senders : x # s => sender'[x] = sender[x], sender'[s].buf = sender[s].buf,
         sender'[s].pc # "publish", sender'[s].pc \in {"idle", "alloc", "sent"} => sender'[s].buf = None
  PROVE  TxInv'
  <1>1. \A x \in Senders : sender'[x].buf = sender[x].buf
    OBVIOUS
  <1>2. Owned' = Owned
    BY <1>1 DEF Owned
  <1>3. Off(Tx)' = Off(Tx) /\ Ret(Tx)' = Ret(Tx) /\ Once(Tx)'
    BY DEF TxInv, Off, Ret, Once
  <1>4. \A x \in Senders :
          /\ sender'[x].pc \in {"idle", "alloc", "sent"} => sender'[x].buf = None
          /\ sender'[x].pc = "publish" =>
               sender'[x].buf \in Bufs /\ used'[Tx].ring[Slot(used'[Tx].idx)] = sender'[x].buf
    BY DEF TxInv
  <1> QED BY <1>1, <1>2, <1>3, <1>4 DEF TxInv

(* The senders and ring Tx *)
LEMMA SenderTx ==
  ASSUME LInv, TxInv, NEW s \in Senders, rpmsg_lite_send(s) \/ Sender(s)
  PROVE  TxInv'
  <1> USE DEF rings, locking, signals
  <1>0. /\ TypeOK /\ TInv /\ LockInv /\ sender \in [Senders -> SenderRec] /\ sender[s] \in SenderRec
        /\ Tx \in Rings /\ TInv'
    BY TypeForms, RingNames, SenderType DEF LInv, TInv, Types
  <1>1. sender' \in [Senders -> SenderRec]
    BY <1>0, TypeForms DEF TInv, Types
  <1>2. CASE rpmsg_lite_send(s)
    <2>1. PICK m \in Msgs, timeout \in Timeouts :
            sender' = [sender EXCEPT ![s] = [pc |-> "alloc", left |-> timeout, msg |-> m, buf |-> None]]
      BY <1>2 DEF rpmsg_lite_send
    <2>2. /\ sender[s].pc = "idle" /\ sender'[s].pc = "alloc" /\ sender'[s].buf = None
          /\ \A x \in Senders : x # s => sender'[x] = sender[x]
      BY <1>0, <1>2, <2>1 DEF rpmsg_lite_send
    <2>3. sender[s].buf = None
      BY <2>2 DEF TxInv
    <2>4. UNCHANGED <<avail, used, vq_available_idx, host>>
      BY <1>2 DEF rpmsg_lite_send
    <2> QED BY <1>0, <1>1, <2>2, <2>3, <2>4, OwnedKept
  <1>3. CASE Alloc(s)
    <2>0. /\ sender[s].pc = "alloc" /\ sender[s].buf = None
          /\ UNCHANGED <<avail, used, host>>
      BY <1>3 DEF Alloc, TxInv
    <2>1. CASE Empty(Tx)
      <3>1. sender' = [sender EXCEPT ![s].pc = "alloced"] /\ UNCHANGED vq_available_idx
        BY <1>3, <2>1 DEF Alloc
      <3>2. /\ sender'[s].pc = "alloced" /\ sender'[s].buf = sender[s].buf
            /\ \A x \in Senders : x # s => sender'[x] = sender[x]
        BY <1>0, <3>1 DEF SenderRec
      <3> QED BY <1>0, <1>1, <2>0, <3>1, <3>2, OwnedKept
    <2>2. CASE ~Empty(Tx)
      <3> DEFINE v == vq_available_idx[Tx]
                 b == avail[Tx].ring[Slot(v)]
      <3>1. /\ sender' = [sender EXCEPT ![s].pc = "alloced", ![s].buf = b]
            /\ vq_available_idx' = [vq_available_idx EXCEPT ![Tx] = Inc(v)]
            /\ v # avail[Tx].idx
        BY <1>3, <2>2 DEF Alloc, Empty
      <3>2. /\ avail[Tx].ring \in [Bufs -> Bufs] /\ avail[Tx].idx \in Indices /\ v \in Indices
            /\ vq_available_idx'[Tx] = Inc(v) /\ b \in Bufs /\ b # None
        <4>1. /\ avail[Tx].ring \in [Bufs -> Bufs] /\ avail[Tx].idx \in Indices /\ v \in Indices
          BY <1>0, RingTypes
        <4>2. vq_available_idx'[Tx] = Inc(v)
          BY <1>0, <3>1, TypeForms DEF Types
        <4> QED BY <4>1, <4>2, Wraps
      <3> HIDE DEF b
      <3>3. /\ sender'[s].pc = "alloced" /\ sender'[s].buf = b
            /\ \A x \in Senders : x # s => sender'[x] = sender[x]
        BY <1>0, <3>1 DEF SenderRec
      <3>4. /\ b \in Off(Tx) /\ Off(Tx)' = Off(Tx) \ {b}
            /\ Once(Tx)' /\ Ret(Tx)' = Ret(Tx)
        <4>1. Distinct(avail[Tx].ring, v, avail[Tx].idx)
          BY DEF TxInv, Once
        <4>2. /\ b \in Window(avail[Tx].ring, v, avail[Tx].idx)
              /\ Window(avail[Tx].ring, Inc(v), avail[Tx].idx) = Window(avail[Tx].ring, v, avail[Tx].idx) \ {b}
              /\ Distinct(avail[Tx].ring, Inc(v), avail[Tx].idx)
          BY <3>1, <3>2, <4>1, TakeFirst DEF b
        <4> QED BY <2>0, <3>2, <4>2 DEF Off, Ret, Once, TxInv
      <3>5. Owned' = Owned \cup {b}
        BY <2>0, <3>2, <3>3 DEF Owned
      <3>6. \A x \in Senders : sender[x].buf # b
        BY <3>2, <3>4 DEF TxInv, Owned
      <3>7. \A x, y \in Senders : sender'[x].buf = sender'[y].buf /\ sender'[x].buf # None => x = y
        BY <3>3, <3>6 DEF TxInv
      <3>8. \A x \in Senders :
              /\ sender'[x].pc \in {"idle", "alloc", "sent"} => sender'[x].buf = None
              /\ sender'[x].pc = "publish" =>
                   sender'[x].buf \in Bufs /\ used'[Tx].ring[Slot(used'[Tx].idx)] = sender'[x].buf
        BY <2>0, <3>3 DEF TxInv
      <3>9. /\ Off(Tx)' \cap Ret(Tx)' = {} /\ (Off(Tx)' \cup Ret(Tx)') \cap Owned' = {}
            /\ Off(Tx)' \cup Ret(Tx)' \cup Owned' = Bufs
        BY <3>4, <3>5 DEF TxInv
      <3> QED BY <3>4, <3>7, <3>8, <3>9 DEF TxInv
    <2> QED BY <2>1, <2>2
  <1>4. CASE Alloced(s)
    <2>1. /\ sender[s].pc = "alloced" /\ sender' = [sender EXCEPT ![s] = Tried(sender[s])]
          /\ UNCHANGED <<avail, used, vq_available_idx, host>>
      BY <1>4 DEF Alloced
    <2>2. /\ Tried(sender[s]).pc # "publish" /\ Tried(sender[s]).buf = sender[s].buf
          /\ Tried(sender[s]).pc \in {"idle", "alloc", "sent"} => Tried(sender[s]).buf = None
      <3>1. CASE sender[s].buf # None
        BY <1>0, <3>1 DEF Tried, SenderRec
      <3>2. CASE sender[s].buf = None /\ sender[s].left = 0
        BY <3>2, Blanks DEF Tried
      <3>3. CASE sender[s].buf = None /\ sender[s].left # 0
        BY <1>0, <3>3 DEF Tried, SenderRec
      <3> QED BY <3>1, <3>2, <3>3
    <2>3. sender'[s] = Tried(sender[s]) /\ \A x \in Senders : x # s => sender'[x] = sender[x]
      BY <1>0, <2>1
    <2> QED BY <1>0, <1>1, <2>1, <2>2, <2>3, OwnedKept
  <1>5. CASE Enqueue(s)
    <2> DEFINE b == sender[s].buf
               r == host.read[Tx]
               u == used[Tx].idx
    <2>1. /\ sender[s].pc = "fill" /\ b \in Bufs /\ used' = PutUsed(Tx, b) /\ env_lock_mutex
          /\ sender' = [sender EXCEPT ![s].pc = "publish"]
          /\ UNCHANGED <<avail, vq_available_idx, host>>
      BY <1>0, <1>5 DEF Enqueue, TInv, BufferInv
    <2>2. /\ sender'[s].pc = "publish" /\ sender'[s].buf = b
          /\ \A x \in Senders : x # s => sender'[x] = sender[x]
      BY <1>0, <2>1 DEF SenderRec
    <2>3. \A x \in Senders : sender[x].pc # "publish"
      <3>1. in_isr_counter = 0
        BY <1>0, <1>5, NotInIsr DEF Enqueue, SenderRuns
      <3>2. Inside = {}
        BY <1>0, <2>1, <3>1 DEF env_lock_mutex, LockInv
      <3> QED BY <3>2 DEF Inside
    <2>4. /\ used[Tx].ring \in [Bufs -> Bufs] /\ u \in Indices /\ r \in Indices
          /\ used'[Tx].ring = [used[Tx].ring EXCEPT ![Slot(u)] = b] /\ used'[Tx].idx = u
      BY <1>0, <2>1, RingTypes, UsedSteps
    <2>5. Distinct(used[Tx].ring, r, u) /\ Dist(r, u) < N
      <3>1. b \in Owned
        BY <2>1, Wraps DEF Owned
      <3>2. b \notin Window(used[Tx].ring, r, u) /\ Distinct(used[Tx].ring, r, u)
        BY <3>1 DEF TxInv, Ret, Once
      <3> QED BY <2>1, <2>4, <3>2, RingHolds
    <2>6. /\ used'[Tx].ring[Slot(u)] = b /\ Window(used'[Tx].ring, r, u) = Window(used[Tx].ring, r, u)
          /\ Distinct(used'[Tx].ring, r, u)
      BY <2>1, <2>4, <2>5, WriteAhead
    <2>7. Ret(Tx)' = Ret(Tx) /\ Off(Tx)' = Off(Tx) /\ Once(Tx)'
      BY <2>1, <2>4, <2>6 DEF Ret, Off, Once, TxInv
    <2>8. \A x \in Senders : sender'[x].buf = sender[x].buf
      BY <2>2
    <2>9. Owned' = Owned
      BY <2>8 DEF Owned
    <2>10. \A x \in Senders :
             /\ sender'[x].pc \in {"idle", "alloc", "sent"} => sender'[x].buf = None
             /\ sender'[x].pc = "publish" =>
                  sender'[x].buf \in Bufs /\ used'[Tx].ring[Slot(used'[Tx].idx)] = sender'[x].buf
      BY <2>1, <2>2, <2>3, <2>4, <2>6 DEF TxInv
    <2> QED BY <2>7, <2>8, <2>9, <2>10 DEF TxInv
  <1>6. CASE Publish(s)
    <2> DEFINE b == sender[s].buf
               r == host.read[Tx]
               u == used[Tx].idx
    <2>1. /\ sender[s].pc = "publish" /\ used' = PublishUsed(Tx)
          /\ sender' = [sender EXCEPT ![s] = [Idle EXCEPT !.pc = "sent"]]
          /\ UNCHANGED <<avail, vq_available_idx, host>>
      BY <1>6 DEF Publish
    <2>2. /\ sender'[s].pc = "sent" /\ sender'[s].buf = None
          /\ \A x \in Senders : x # s => sender'[x] = sender[x]
      BY <1>0, <2>1, Blanks
    <2>3. b \in Bufs /\ b # None /\ used[Tx].ring[Slot(u)] = b
      BY <2>1, Wraps DEF TxInv
    <2>4. /\ used[Tx].ring \in [Bufs -> Bufs] /\ u \in Indices /\ r \in Indices
          /\ used'[Tx].ring = used[Tx].ring /\ used'[Tx].idx = Inc(u)
      BY <1>0, <2>1, <2>3, RingTypes, UsedSteps
    <2>5. b \notin Ret(Tx) /\ b \notin Off(Tx) /\ b \in Owned
      BY <2>3 DEF TxInv, Owned
    <2>6. Distinct(used[Tx].ring, r, u) /\ b \notin Window(used[Tx].ring, r, u)
      BY <2>5 DEF TxInv, Ret, Once
    <2>7. Dist(r, u) < N
      BY <2>3, <2>4, <2>6, RingHolds
    <2>8. /\ Window(used[Tx].ring, r, Inc(u)) = Window(used[Tx].ring, r, u) \cup {b}
          /\ Distinct(used[Tx].ring, r, Inc(u))
      BY <2>3, <2>4, <2>6, <2>7, AddLast
    <2>9. Ret(Tx)' = Ret(Tx) \cup {b} /\ Off(Tx)' = Off(Tx) /\ Once(Tx)'
      BY <2>1, <2>4, <2>8 DEF Ret, Off, Once, TxInv
    <2>10. Owned' = Owned \ {b}
      <3>1. \A x \in Senders : x # s => sender[x].buf # b
        BY <2>3 DEF TxInv
      <3>2. \A y : y \in Owned' <=> (y \in Owned /\ y # b)
        BY <2>2, <3>1 DEF Owned
      <3> QED BY <3>2
    <2>11. \A x \in Senders : x # s => sender[x].pc # "publish"
      BY <2>3 DEF TxInv
    <2>12. \A x \in Senders :
             /\ sender'[x].pc \in {"idle", "alloc", "sent"} => sender'[x].buf = None
             /\ sender'[x].pc # "publish"
      BY <2>2, <2>11 DEF TxInv
    <2>13. \A x, y \in Senders : sender'[x].buf = sender'[y].buf /\ sender'[x].buf # None => x = y
      BY <2>2 DEF TxInv
    <2>14. /\ Off(Tx)' \cap Ret(Tx)' = {} /\ (Off(Tx)' \cup Ret(Tx)') \cap Owned' = {}
           /\ Off(Tx)' \cup Ret(Tx)' \cup Owned' = Bufs
      BY <2>5, <2>9, <2>10 DEF TxInv
    <2> QED BY <2>9, <2>12, <2>13, <2>14 DEF TxInv
  <1>7. CASE Sent(s)
    <2>1. /\ sender[s].pc = "sent" /\ sender' = [sender EXCEPT ![s] = Idle]
          /\ UNCHANGED <<avail, used, vq_available_idx, host>>
      BY <1>7 DEF Sent
    <2>2. /\ sender'[s].pc = "idle" /\ sender'[s].buf = None /\ sender[s].buf = None
          /\ \A x \in Senders : x # s => sender'[x] = sender[x]
      BY <1>0, <2>1, Blanks DEF TxInv
    <2> QED BY <1>0, <1>1, <2>1, <2>2, OwnedKept
  <1> QED BY <1>2, <1>3, <1>4, <1>5, <1>6, <1>7 DEF Sender


(* Linux reads a buffer from a used ring. *)
LEMMA UsedRead ==
  ASSUME TypeOK, NEW q \in Rings, Once(q), host.read[q] # used[q].idx,
         used'[q].ring = [used[q].ring EXCEPT ![Slot(host.read[q])] = 0], used'[q].idx = used[q].idx,
         host'.read[q] = Inc(host.read[q])
  PROVE  LET b == used[q].ring[Slot(host.read[q])]
         IN  /\ b \in Ret(q) /\ b \in Bufs /\ Ret(q)' = Ret(q) \ {b}
             /\ Distinct(used'[q].ring, host'.read[q], used'[q].idx)
             /\ \A x \in Bufs : x \notin Ret(q) =>
                  used'[q].ring[Slot(used'[q].idx)] = used[q].ring[Slot(used[q].idx)]
  <1> DEFINE ring == used[q].ring
             r == host.read[q]
             u == used[q].idx
             b == ring[Slot(r)]
  <1>1. /\ ring \in [Bufs -> Bufs] /\ u \in Indices /\ r \in Indices /\ Slot(r) \in Bufs
        /\ Distinct(ring, r, u) /\ r # u
    BY RingTypes, Wraps DEF Once
  <1>2. /\ b \in Window(ring, r, u) /\ Window(ring, Inc(r), u) = Window(ring, r, u) \ {b}
        /\ Distinct(ring, Inc(r), u)
    BY <1>1, TakeFirst
  <1>3. Dist(r, u) <= N /\ \A x \in Bufs : x \notin Window(ring, r, u) => Dist(r, u) < N
    BY <1>1, RingHolds
  <1>4. LET new == [ring EXCEPT ![Slot(r)] = 0]
        IN  /\ Window(new, Inc(r), u) = Window(ring, Inc(r), u)
            /\ Distinct(ring, Inc(r), u) => Distinct(new, Inc(r), u)
            /\ Dist(r, u) < N => new[Slot(u)] = ring[Slot(u)]
    BY <1>1, <1>3, WriteBehind
  <1>5. Ret(q) = Window(ring, r, u) /\ Ret(q)' = Window(used'[q].ring, Inc(r), u)
    BY DEF Ret
  <1>6. b \in Bufs
    BY <1>1
  <1> QED BY <1>2, <1>3, <1>4, <1>5, <1>6

(* Linux offers a buffer. *)
LEMMA AvailAdd ==
  ASSUME TypeOK, NEW q \in Rings, Once(q), NEW b \in Bufs, b \notin Off(q),
         avail'[q].ring = [avail[q].ring EXCEPT ![Slot(avail[q].idx)] = b],
         avail'[q].idx = Inc(avail[q].idx), vq_available_idx'[q] = vq_available_idx[q]
  PROVE  /\ Off(q)' = Off(q) \cup {b}
         /\ Distinct(avail'[q].ring, vq_available_idx'[q], avail'[q].idx)
         /\ vq_available_idx'[q] # avail'[q].idx
  <1> DEFINE ring == avail[q].ring
             v == vq_available_idx[q]
             a == avail[q].idx
             new == [ring EXCEPT ![Slot(a)] = b]
  <1>1. /\ ring \in [Bufs -> Bufs] /\ v \in Indices /\ a \in Indices
        /\ Distinct(ring, v, a) /\ b \notin Window(ring, v, a)
    BY RingTypes DEF Once, Off
  <1>2. Dist(v, a) < N
    BY <1>1, RingHolds
  <1>3. /\ new \in [Bufs -> Bufs] /\ new[Slot(a)] = b /\ Window(new, v, a) = Window(ring, v, a)
        /\ Distinct(new, v, a)
    BY <1>1, <1>2, WriteAhead
  <1>4. Off(q) = Window(ring, v, a) /\ Off(q)' = Window(new, v, Inc(a))
    BY DEF Off
  <1>5. avail'[q].ring = new
    OBVIOUS
  <1> HIDE DEF new
  <1>6. Window(new, v, Inc(a)) = Window(new, v, a) \cup {b} /\ Distinct(new, v, Inc(a))
    BY <1>1, <1>2, <1>3, AddLast
  <1>7. v # Inc(a)
    <2>1. Dist(v, a) \in 0 .. IdxMod - 1 /\ Dist(v, a) < IdxMod - 1 /\ Inc(a) \in Indices
      <3>1. Dist(v, a) \in 0 .. IdxMod - 1 /\ Inc(a) \in Indices
        BY <1>1, Dists, Wraps
      <3> QED BY <1>2, <3>1, RingAssumption
    <2>2. Dist(v, Inc(a)) = Dist(v, a) + 1 /\ (v = Inc(a) => Dist(v, Inc(a)) = 0)
      BY <1>1, <2>1, Dists
    <2> QED BY <2>1, <2>2
  <1> QED BY <1>3, <1>4, <1>5, <1>6, <1>7

(* Linux and ring Tx *)
LEMMA HostTx ==
  ASSUME TInv, TxInv, HostReceive
  PROVE  TxInv'
  <1> DEFINE r == host.read[Tx]
             b == used[Tx].ring[Slot(r)]
  <1>0. TypeOK /\ Tx \in Rings /\ Once(Tx) /\ host \in HostRec
    BY RingNames, TypeForms DEF TInv, TxInv, Types
  <1>1. /\ r # used[Tx].idx /\ host' = [host EXCEPT !.read[Tx] = Inc(@)]
        /\ avail' = [avail EXCEPT ![Tx] = [ring |-> [@.ring EXCEPT ![Slot(avail[Tx].idx)] = b],
                                           idx |-> Inc(@.idx)]]
        /\ used' = [used EXCEPT ![Tx].ring[Slot(r)] = 0]
        /\ UNCHANGED <<vq_available_idx, sender>>
    BY DEF HostReceive
  <1>2. /\ avail \in [Rings -> RingRec] /\ used \in [Rings -> RingRec] /\ used[Tx] \in RingRec
        /\ avail[Tx] \in RingRec
    BY <1>0, RingTypes
  <1>3. used'[Tx].ring = [used[Tx].ring EXCEPT ![Slot(r)] = 0] /\ used'[Tx].idx = used[Tx].idx
    BY <1>0, <1>1, <1>2 DEF RingRec
  <1>4. host'.read[Tx] = Inc(r)
    BY <1>0, <1>1 DEF HostRec
  <1>5. avail'[Tx].ring = [avail[Tx].ring EXCEPT ![Slot(avail[Tx].idx)] = b] /\ avail'[Tx].idx = Inc(avail[Tx].idx)
    BY <1>0, <1>1, <1>2
  <1>6. /\ b \in Ret(Tx) /\ b \in Bufs /\ Ret(Tx)' = Ret(Tx) \ {b}
        /\ Distinct(used'[Tx].ring, host'.read[Tx], used'[Tx].idx)
        /\ \A x \in Bufs : x \notin Ret(Tx) =>
             used'[Tx].ring[Slot(used'[Tx].idx)] = used[Tx].ring[Slot(used[Tx].idx)]
    BY <1>0, <1>1, <1>3, <1>4, UsedRead
  <1> HIDE DEF b
  <1>7. b \notin Off(Tx)
    BY <1>6 DEF TxInv
  <1>8. Off(Tx)' = Off(Tx) \cup {b} /\ Distinct(avail'[Tx].ring, vq_available_idx'[Tx], avail'[Tx].idx)
    BY <1>0, <1>1, <1>5, <1>6, <1>7, AvailAdd
  <1>9. Once(Tx)' /\ Owned' = Owned
    BY <1>1, <1>6, <1>8 DEF Once, Owned
  <1>10. /\ Off(Tx)' \cap Ret(Tx)' = {} /\ (Off(Tx)' \cup Ret(Tx)') \cap Owned' = {}
         /\ Off(Tx)' \cup Ret(Tx)' \cup Owned' = Bufs
    BY <1>6, <1>8, <1>9 DEF TxInv
  <1>11. ASSUME NEW s \in Senders, sender[s].pc = "publish"
         PROVE  sender[s].buf \in Bufs /\ used'[Tx].ring[Slot(used'[Tx].idx)] = sender[s].buf
    <2>1. /\ sender[s].buf \in Bufs /\ sender[s].buf # None
          /\ used[Tx].ring[Slot(used[Tx].idx)] = sender[s].buf
      BY <1>11, Wraps DEF TxInv
    <2>2. sender[s].buf \notin Ret(Tx)
      BY <2>1 DEF TxInv, Owned
    <2> QED BY <1>6, <2>1, <2>2
  <1> QED BY <1>1, <1>9, <1>10, <1>11 DEF TxInv

(* rpmsg_lite_rx_callback hands a buffer back at once. *)
LEMMA HandBack ==
  ASSUME TypeOK, NEW b \in Bufs, used' = [PutUsed(Rx, b) EXCEPT ![Rx].idx = Inc(@)]
  PROVE  /\ used'[Tx] = used[Tx] /\ used'[Rx].idx = Inc(used[Rx].idx)
         /\ used'[Rx].ring = [used[Rx].ring EXCEPT ![Slot(used[Rx].idx)] = b]
  <1> DEFINE put == PutUsed(Rx, b)
  <1>1. Rx \in Rings /\ Tx \in Rings /\ Tx # Rx
    BY RingNames
  <1>2. /\ put[Rx].ring = [used[Rx].ring EXCEPT ![Slot(used[Rx].idx)] = b]
        /\ put[Rx].idx = used[Rx].idx /\ put[Tx] = used[Tx]
    BY <1>1, UsedSteps
  <1>3. put \in [Rings -> RingRec]
    BY <1>1, UsedType, RingTypes
  <1>4. used' = [put EXCEPT ![Rx].idx = Inc(put[Rx].idx)]
    OBVIOUS
  <1> HIDE DEF put
  <1>5. used'[Rx] = [put[Rx] EXCEPT !.idx = Inc(put[Rx].idx)] /\ used'[Tx] = put[Tx]
    BY <1>1, <1>3, <1>4
  <1>6. put[Rx] \in RingRec
    BY <1>1, <1>3
  <1> QED BY <1>2, <1>5, <1>6 DEF RingRec

(* All others leave ring Tx alone. *)
LEMMA OthersLeaveTx ==
  ASSUME TInv,
         \/ \E c \in Contexts : Receive(c)
         \/ platform_isr_handle \/ Task \/ HostSignal \/ HostReclaim \/ HostDone \/ HostSend
  PROVE  /\ avail'[Tx] = avail[Tx] /\ used'[Tx] = used[Tx] /\ mem'[Tx] = mem[Tx]
         /\ host'.read[Tx] = host.read[Tx] /\ vq_available_idx'[Tx] = vq_available_idx[Tx]
         /\ sender' = sender
  <1> USE DEF rings, locking, signals
  <1>0. /\ TypeOK /\ Tx \in Rings /\ Rx \in Rings /\ Tx # Rx /\ host \in HostRec
        /\ avail \in [Rings -> RingRec] /\ used \in [Rings -> RingRec]
        /\ vq_available_idx \in [Rings -> Indices] /\ mem \in [Rings -> [Bufs -> Cell]]
    BY RingNames, TypeForms DEF TInv, Types
  <1>1. ASSUME NEW b \in Bufs
        PROVE  PutUsed(Rx, b)[Tx] = used[Tx] /\ PublishUsed(Rx)[Tx] = used[Tx]
    BY <1>0, UsedSteps
  <1>2. CASE \E c \in Contexts : RxPeek(c) \/ RxDone(c)
    BY <1>2 DEF RxPeek, RxDone
  <1>3. CASE \E c \in Contexts : RxTake(c)
    <2>1. PICK c \in Contexts : RxTake(c)
      BY <1>3
    <2> DEFINE b == avail[Rx].ring[Slot(rx[c].head)]
    <2>2. b \in Bufs
      <3>1. rx[c].head \in Indices
        BY TypeForms DEF TInv, Types, RxRec
      <3> QED BY <1>0, <3>1, RingTypes, Wraps
    <2>3. /\ vq_available_idx' = [vq_available_idx EXCEPT ![Rx] = Inc(rx[c].head)]
          /\ UNCHANGED <<avail, mem, sender, host>>
          /\ used' = used \/ used' = [PutUsed(Rx, b) EXCEPT ![Rx].idx = Inc(@)]
      BY <2>1 DEF RxTake
    <2> HIDE DEF b
    <2>4. used'[Tx] = used[Tx]
      BY <1>0, <2>2, <2>3, HandBack
    <2> QED BY <1>0, <2>3, <2>4
  <1>4. CASE platform_isr_handle
    BY <1>4 DEF platform_isr_handle
  <1>5. CASE Task
    <2>1. CASE rpmsg_lite_release_rx_buffer
      <3>1. task.buf \in Bufs /\ used' = PutUsed(Rx, task.buf) /\ UNCHANGED <<avail, mem, vq_available_idx, sender, host>>
        BY <2>1 DEF rpmsg_lite_release_rx_buffer, TInv, BufferInv
      <3> QED BY <1>1, <3>1
    <2>2. CASE ReleasePublish
      <3>1. used' = PublishUsed(Rx) /\ UNCHANGED <<avail, mem, vq_available_idx, sender, host>>
        BY <2>2 DEF ReleasePublish
      <3> QED BY <1>1, <3>1, Wraps
    <2> QED BY <1>5, <2>1, <2>2 DEF Task, Select, Poll, oblfr_process_queue, Released
  <1>6. CASE HostSignal \/ HostDone
    BY <1>0, <1>6 DEF HostSignal, HostDone, HostRec
  <1>7. CASE HostReclaim
    <2>1. /\ host' = [host EXCEPT !.read[Rx] = Inc(@), !.free = @ \cup {used[Rx].ring[Slot(host.read[Rx])]}]
          /\ used' = [used EXCEPT ![Rx].ring[Slot(host.read[Rx])] = 0]
          /\ mem' = [mem EXCEPT ![Rx][used[Rx].ring[Slot(host.read[Rx])]] = Blank]
          /\ UNCHANGED <<avail, vq_available_idx, sender>>
      BY <1>7 DEF HostReclaim
    <2>2. host'.read[Tx] = host.read[Tx]
      BY <1>0, <2>1 DEF HostRec
    <2>3. used'[Tx] = used[Tx] /\ mem'[Tx] = mem[Tx]
      BY <1>0, <2>1
    <2> QED BY <2>1, <2>2, <2>3
  <1>8. CASE HostSend
    <2>1. PICK b \in host.free, m \in Msgs, e \in Endpoints \cup {NoEndpoint} :
            /\ host' = [host EXCEPT !.free = @ \ {b}]
            /\ mem' = [mem EXCEPT ![Rx][b] = [ept |-> e, msg |-> m]]
            /\ avail' = [avail EXCEPT ![Rx] = [ring |-> [@.ring EXCEPT ![Slot(avail[Rx].idx)] = b],
                                               idx |-> Inc(@.idx)]]
            /\ UNCHANGED <<used, vq_available_idx, sender>>
      BY <1>8 DEF HostSend
    <2> QED BY <1>0, <2>1 DEF HostRec
  <1> QED BY <1>2, <1>3, <1>4, <1>5, <1>6, <1>7, <1>8 DEF Receive

LEMMA OtherTx ==
  ASSUME TInv, TxInv,
         \/ \E c \in Contexts : Receive(c)
         \/ platform_isr_handle \/ Task \/ HostSignal \/ HostReclaim \/ HostDone \/ HostSend
  PROVE  TxInv'
  <1>1. /\ avail'[Tx] = avail[Tx] /\ used'[Tx] = used[Tx] /\ host'.read[Tx] = host.read[Tx]
        /\ vq_available_idx'[Tx] = vq_available_idx[Tx] /\ sender' = sender
    BY OthersLeaveTx
  <1> QED BY <1>1, TxKept


-----------------------------------------------------------------------------
(* Linux sends to known endpoints only if the interrupt may hit the release *)
(* of a buffer, which writes the used ring as the interrupt does for a      *)
(* message without endpoint, and nothing else runs while the task polls.    *)
OneWriter == \A w \in Worlds : "poll" \notin w.windows /\ ("free" \in w.windows => ~w.stray)

(* Ring Rx: every buffer is offered, in a queue, with the rpmsg task,       *)
(* handed back, or with Linux.                                              *)
Waiting == {queued[i] : i \in 1 .. Len(queued)}
InHand == {task.buf} \ {None}
Away == Waiting \cup InHand \cup host.free
RxInv ==
  /\ Once(Rx)
  /\ \A i, j \in 1 .. Len(queued) : queued[i] = queued[j] => i = j
  /\ Off(Rx) \cap Ret(Rx) = {} /\ (Off(Rx) \cup Ret(Rx)) \cap Away = {}
  /\ Waiting \cap InHand = {} /\ (Waiting \cup InHand) \cap host.free = {}
  /\ Off(Rx) \cup Ret(Rx) \cup Away = Bufs
  /\ task.pc \in {"select", "poll", "released"} => task.buf = None
  /\ task.pc \in {"callback", "release", "publish"} => task.buf \in Bufs
  /\ task.pc = "publish" => used[Rx].ring[Slot(used[Rx].idx)] = task.buf

(* Who serves ring Rx: the interrupt or the poll, which goes on from where  *)
(* it has read the index, and the interrupt hands no buffer back while the  *)
(* rpmsg task is about to.                                                  *)
ServeInv ==
  /\ "free" \in world.windows => ~world.stray
  /\ ~world.stray => \A b \in Off(Rx) : mem[Rx][b].ept \in Endpoints
  /\ \A c \in Contexts :
       rx[c].pc = "got" => rx[c].head = vq_available_idx[Rx] /\ vq_available_idx[Rx] # avail[Rx].idx
  /\ rx["isr"].pc = "idle" \/ rx["poll"].pc = "idle"
  /\ rx["isr"].pc # "idle" /\ task.pc = "publish" => "free" \in world.windows

(* What ring Rx depends on *)
LEMMA RxKept ==
  ASSUME RxInv, avail'[Rx] = avail[Rx], used'[Rx] = used[Rx], host'.read[Rx] = host.read[Rx],
         vq_available_idx'[Rx] = vq_available_idx[Rx], host'.free = host.free, queued' = queued,
         task' = task
  PROVE  RxInv' /\ Off(Rx)' = Off(Rx)
  <1>1. Off(Rx)' = Off(Rx) /\ Ret(Rx)' = Ret(Rx) /\ Away' = Away /\ Waiting' = Waiting /\ InHand' = InHand /\ Once(Rx)'
    BY DEF RxInv, Off, Ret, Away, Waiting, InHand, Once
  <1> QED BY <1>1 DEF RxInv

(* What the service of ring Rx depends on *)
LEMMA ServeKept ==
  ASSUME ServeInv, avail'[Rx] = avail[Rx], vq_available_idx'[Rx] = vq_available_idx[Rx],
         Off(Rx)' = Off(Rx), mem'[Rx] = mem[Rx], rx' = rx, task' = task,
         world'.windows = world.windows, world'.stray = world.stray
  PROVE  ServeInv'
  BY DEF ServeInv

(* The senders leave ring Rx alone. *)
LEMMA SenderLeavesRx ==
  ASSUME TInv, NEW s \in Senders, rpmsg_lite_send(s) \/ Sender(s)
  PROVE  /\ avail'[Rx] = avail[Rx] /\ used'[Rx] = used[Rx] /\ mem'[Rx] = mem[Rx] /\ host' = host
         /\ vq_available_idx'[Rx] = vq_available_idx[Rx] /\ queued' = queued /\ task' = task /\ rx' = rx
         /\ world'.windows = world.windows /\ world'.stray = world.stray
  <1> USE DEF rings, locking, signals
  <1>0. /\ TypeOK /\ Tx \in Rings /\ Rx \in Rings /\ Tx # Rx /\ world \in WorldRec
        /\ used \in [Rings -> RingRec] /\ mem \in [Rings -> [Bufs -> Cell]]
        /\ vq_available_idx \in [Rings -> Indices] /\ sender \in [Senders -> SenderRec]
    BY RingNames, TypeForms DEF TInv, Types
  <1>1. CASE rpmsg_lite_send(s)
    BY <1>0, <1>1 DEF rpmsg_lite_send, WorldRec
  <1>2. CASE Alloc(s)
    <2>1. /\ UNCHANGED <<world, avail, used, mem, rx, queued, task, host>>
          /\ vq_available_idx' = vq_available_idx \/ vq_available_idx' = [vq_available_idx EXCEPT ![Tx] = Inc(@)]
      BY <1>2 DEF Alloc
    <2> QED BY <1>0, <2>1
  <1>3. CASE Alloced(s) \/ Sent(s)
    BY <1>3 DEF Alloced, Sent
  <1>4. CASE Enqueue(s)
    <2>1. /\ UNCHANGED <<world, avail, vq_available_idx, rx, queued, task, host>>
          /\ used' = PutUsed(Tx, sender[s].buf) /\ sender[s].buf \in Bufs
      BY <1>4 DEF Enqueue, TInv, BufferInv
    <2>2. mem' = [mem EXCEPT ![Tx][sender[s].buf].msg = sender[s].msg]
      BY <1>4 DEF Enqueue
    <2>3. mem'[Rx] = mem[Rx]
      BY <1>0, <2>2
    <2>4. used'[Rx] = used[Rx]
      BY <1>0, <2>1, UsedSteps
    <2> QED BY <2>1, <2>3, <2>4
  <1>5. CASE Publish(s)
    <2>1. UNCHANGED <<world, avail, mem, vq_available_idx, rx, queued, task, host>> /\ used' = PublishUsed(Tx)
      BY <1>5 DEF Publish
    <2>2. used'[Rx] = used[Rx]
      BY <1>0, <2>1, Wraps, UsedSteps
    <2> QED BY <2>1, <2>2
  <1> QED BY <1>1, <1>2, <1>3, <1>4, <1>5 DEF Sender

LEMMA SenderRx ==
  ASSUME TInv, RxInv, ServeInv, NEW s \in Senders, rpmsg_lite_send(s) \/ Sender(s)
  PROVE  RxInv' /\ ServeInv'
  <1>1. /\ avail'[Rx] = avail[Rx] /\ used'[Rx] = used[Rx] /\ mem'[Rx] = mem[Rx] /\ host' = host
        /\ vq_available_idx'[Rx] = vq_available_idx[Rx] /\ queued' = queued /\ task' = task /\ rx' = rx
        /\ world'.windows = world.windows /\ world'.stray = world.stray
    BY SenderLeavesRx
  <1> QED BY <1>1, RxKept, ServeKept

(* Linux and ring Rx *)
LEMMA HostRx ==
  ASSUME TInv, RxInv, ServeInv, Host \/ HostSend
  PROVE  RxInv' /\ ServeInv'
  <1> USE DEF rings, locking, signals
  <1>0. /\ TypeOK /\ Tx \in Rings /\ Rx \in Rings /\ Tx # Rx /\ host \in HostRec /\ world \in WorldRec
        /\ avail \in [Rings -> RingRec] /\ used \in [Rings -> RingRec] /\ mem \in [Rings -> [Bufs -> Cell]]
        /\ avail[Rx] \in RingRec /\ used[Rx] \in RingRec /\ Once(Rx)
    BY RingNames, RingTypes, TypeForms DEF TInv, Types, RxInv
  <1>1. CASE HostSignal \/ HostDone
    <2>1. host'.read = host.read /\ host'.free = host.free
      BY <1>0, <1>1 DEF HostSignal, HostDone, HostRec
    <2>2. UNCHANGED <<world, avail, used, mem, vq_available_idx, rx, queued, task>>
      BY <1>1 DEF HostSignal, HostDone
    <2> QED BY <2>1, <2>2, RxKept, ServeKept
  <1>2. CASE HostReceive
    <2> DEFINE b == used[Tx].ring[Slot(host.read[Tx])]
    <2>1. /\ host' = [host EXCEPT !.read[Tx] = Inc(@)]
          /\ avail' = [avail EXCEPT ![Tx] = [ring |-> [@.ring EXCEPT ![Slot(avail[Tx].idx)] = b],
                                             idx |-> Inc(@.idx)]]
          /\ used' = [used EXCEPT ![Tx].ring[Slot(host.read[Tx])] = 0]
          /\ mem' = [mem EXCEPT ![Tx][b] = Blank]
          /\ UNCHANGED <<world, vq_available_idx, rx, queued, task>>
      BY <1>2 DEF HostReceive
    <2> HIDE DEF b
    <2>2. host'.read[Rx] = host.read[Rx] /\ host'.free = host.free
      BY <1>0, <2>1 DEF HostRec
    <2>3. avail'[Rx] = avail[Rx] /\ used'[Rx] = used[Rx] /\ mem'[Rx] = mem[Rx]
      BY <1>0, <2>1
    <2> QED BY <2>1, <2>2, <2>3, RxKept, ServeKept
  <1>3. CASE HostReclaim
    <2> DEFINE r == host.read[Rx]
               b == used[Rx].ring[Slot(r)]
    <2>1. /\ r # used[Rx].idx /\ host' = [host EXCEPT !.read[Rx] = Inc(@), !.free = @ \cup {b}]
          /\ used' = [used EXCEPT ![Rx].ring[Slot(r)] = 0] /\ mem' = [mem EXCEPT ![Rx][b] = Blank]
          /\ UNCHANGED <<world, avail, vq_available_idx, rx, queued, task>>
      BY <1>3 DEF HostReclaim
    <2>2. used'[Rx].ring = [used[Rx].ring EXCEPT ![Slot(r)] = 0] /\ used'[Rx].idx = used[Rx].idx
      BY <1>0, <2>1 DEF RingRec
    <2>3. host'.read[Rx] = Inc(r) /\ host'.free = host.free \cup {b}
      <3> HIDE DEF b
      <3> QED BY <1>0, <2>1 DEF HostRec
    <2>4. /\ b \in Ret(Rx) /\ b \in Bufs /\ Ret(Rx)' = Ret(Rx) \ {b}
          /\ Distinct(used'[Rx].ring, host'.read[Rx], used'[Rx].idx)
          /\ \A x \in Bufs : x \notin Ret(Rx) =>
               used'[Rx].ring[Slot(used'[Rx].idx)] = used[Rx].ring[Slot(used[Rx].idx)]
      BY <1>0, <2>1, <2>2, <2>3, UsedRead
    <2> HIDE DEF b
    <2>5. Off(Rx)' = Off(Rx) /\ Once(Rx)' /\ Waiting' = Waiting /\ InHand' = InHand /\ Away' = Away \cup {b}
      BY <2>1, <2>3, <2>4 DEF Off, Once, Waiting, InHand, Away, RxInv
    <2>6. b \notin Off(Rx) /\ b \notin Away
      BY <2>4 DEF RxInv
    <2>7. /\ Off(Rx)' \cap Ret(Rx)' = {} /\ (Off(Rx)' \cup Ret(Rx)') \cap Away' = {}
          /\ Off(Rx)' \cup Ret(Rx)' \cup Away' = Bufs
          /\ Waiting' \cap InHand' = {} /\ (Waiting' \cup InHand') \cap host'.free = {}
      <3>1. /\ Off(Rx)' \cap Ret(Rx)' = {} /\ (Off(Rx)' \cup Ret(Rx)') \cap Away' = {}
            /\ Off(Rx)' \cup Ret(Rx)' \cup Away' = Bufs
        BY <2>4, <2>5, <2>6 DEF RxInv
      <3>2. b \notin Waiting /\ b \notin InHand
        BY <2>6 DEF Away
      <3> QED BY <2>3, <2>5, <3>1, <3>2 DEF RxInv
    <2>8. task.pc = "publish" => used'[Rx].ring[Slot(used'[Rx].idx)] = task.buf
      <3> HAVE task.pc = "publish"
      <3>1. task.buf \in Bufs /\ task.buf # None /\ used[Rx].ring[Slot(used[Rx].idx)] = task.buf
        BY Wraps DEF RxInv
      <3>2. task.buf \in Away
        BY <3>1 DEF Away, InHand
      <3>3. task.buf \notin Ret(Rx)
        BY <3>2 DEF RxInv
      <3> QED BY <2>4, <3>1, <3>3
    <2>9. RxInv'
      BY <2>1, <2>5, <2>7, <2>8 DEF RxInv
    <2>10. \A x \in Off(Rx) : mem'[Rx][x] = mem[Rx][x]
      BY <1>0, <2>1, <2>4, <2>6 DEF RxInv
    <2>11. ServeInv'
      BY <2>1, <2>5, <2>10 DEF ServeInv
    <2> QED BY <2>9, <2>11
  <1>4. CASE HostSend
    <2>1. PICK b \in host.free, m \in Msgs, e \in Endpoints \cup {NoEndpoint} :
            /\ e = NoEndpoint => world.stray
            /\ world' = [world EXCEPT !.posts = Spend(@)]
            /\ host' = [host EXCEPT !.free = @ \ {b}]
            /\ mem' = [mem EXCEPT ![Rx][b] = [ept |-> e, msg |-> m]]
            /\ avail' = [avail EXCEPT ![Rx] = [ring |-> [@.ring EXCEPT ![Slot(avail[Rx].idx)] = b],
                                               idx |-> Inc(@.idx)]]
            /\ UNCHANGED <<used, vq_available_idx, rx, queued, task>>
      BY <1>4 DEF HostSend
    <2>2. /\ b \in Bufs /\ host'.read = host.read /\ host'.free = host.free \ {b}
          /\ world'.windows = world.windows /\ world'.stray = world.stray
      BY <1>0, <2>1 DEF HostRec, WorldRec
    <2>3. /\ avail'[Rx].ring = [avail[Rx].ring EXCEPT ![Slot(avail[Rx].idx)] = b]
          /\ avail'[Rx].idx = Inc(avail[Rx].idx)
      BY <1>0, <2>1
    <2>4. b \notin Off(Rx) /\ b \notin Ret(Rx) /\ b \notin Waiting /\ b \notin InHand /\ b \in Away
      <3>1. b \in Away
        BY DEF Away
      <3> QED BY <3>1 DEF RxInv
    <2>5. /\ Off(Rx)' = Off(Rx) \cup {b} /\ vq_available_idx'[Rx] # avail'[Rx].idx
          /\ Distinct(avail'[Rx].ring, vq_available_idx'[Rx], avail'[Rx].idx)
      BY <1>0, <2>1, <2>2, <2>3, <2>4, AvailAdd
    <2>6. Ret(Rx)' = Ret(Rx) /\ Once(Rx)' /\ Waiting' = Waiting /\ InHand' = InHand /\ Away' = Away \ {b}
      BY <2>1, <2>2, <2>4, <2>5 DEF Ret, Once, Waiting, InHand, Away, RxInv
    <2>7. /\ Off(Rx)' \cap Ret(Rx)' = {} /\ (Off(Rx)' \cup Ret(Rx)') \cap Away' = {}
          /\ Off(Rx)' \cup Ret(Rx)' \cup Away' = Bufs
          /\ Waiting' \cap InHand' = {} /\ (Waiting' \cup InHand') \cap host'.free = {}
      <3>1. /\ Off(Rx)' \cap Ret(Rx)' = {} /\ (Off(Rx)' \cup Ret(Rx)') \cap Away' = {}
            /\ Off(Rx)' \cup Ret(Rx)' \cup Away' = Bufs
        BY <2>4, <2>5, <2>6 DEF RxInv
      <3> QED BY <2>2, <2>6, <3>1 DEF RxInv
    <2>8. RxInv'
      BY <2>1, <2>6, <2>7 DEF RxInv
    <2>9. /\ mem'[Rx][b].ept = e /\ \A x \in Bufs : x # b => mem'[Rx][x] = mem[Rx][x]
      <3>1. mem[Rx] \in [Bufs -> Cell]
        BY <1>0
      <3>2. mem'[Rx] = [mem[Rx] EXCEPT ![b] = [ept |-> e, msg |-> m]]
        BY <1>0, <2>1
      <3> QED BY <2>2, <3>1, <3>2
    <2>10. ~world.stray => \A x \in Off(Rx)' : mem'[Rx][x].ept \in Endpoints
      <3>1. Off(Rx) \subseteq Bufs
        BY DEF RxInv
      <3>2. ~world.stray => e \in Endpoints
        BY <2>1
      <3>3. ~world.stray => \A x \in Off(Rx) : mem[Rx][x].ept \in Endpoints
        BY DEF ServeInv
      <3> QED BY <2>4, <2>5, <2>9, <3>1, <3>2, <3>3
    <2>11. ServeInv'
      BY <2>1, <2>2, <2>5, <2>10 DEF ServeInv
    <2> QED BY <2>8, <2>11
  <1> QED BY <1>1, <1>2, <1>3, <1>4 DEF Host


(* rpmsg_lite_rx_callback, the interrupt and ring Rx *)
LEMMA ReceiveRx ==
  ASSUME LInv, RxInv, ServeInv, (\E c \in Contexts : Receive(c)) \/ platform_isr_handle
  PROVE  RxInv' /\ ServeInv'
  <1> USE DEF rings, locking, signals
  <1>0. /\ TypeOK /\ TInv /\ CountInv /\ Rx \in Rings /\ rx \in [Contexts -> RxRec] /\ task \in TaskRec
        /\ vq_available_idx \in [Rings -> Indices] /\ Contexts = {"isr", "poll"} /\ queued \in Seq(Bufs)
        /\ Once(Rx) /\ "poll" \notin world.windows
    BY RingNames, TypeForms DEF LInv, LockInv, TInv, Types, RxInv, Contexts
  <1>1. CASE platform_isr_handle
    <2>1. /\ rx["isr"].pc = "idle" /\ ~Polling /\ (task.pc = "publish" => "free" \in world.windows)
          /\ rx' = [rx EXCEPT !["isr"].pc = "take"]
          /\ UNCHANGED <<world, avail, used, mem, vq_available_idx, queued, task, host>>
      BY <1>0, <1>1 DEF platform_isr_handle, env_isr, Interruptible, TaskRuns
    <2>2. rx'["isr"].pc = "take" /\ rx'["poll"] = rx["poll"] /\ rx["poll"].pc = "idle"
      BY <1>0, <2>1 DEF RxRec, Polling
    <2>3. RxInv' /\ Off(Rx)' = Off(Rx)
      BY <2>1, RxKept
    <2>4. ServeInv'
      BY <1>0, <2>1, <2>2, <2>3 DEF ServeInv
    <2> QED BY <2>3, <2>4
  <1>2. ASSUME NEW c \in Contexts, Receive(c)
        PROVE  RxInv' /\ ServeInv'
    <2>0. /\ rx[c] \in RxRec /\ rx[c].pc # "idle" /\ (c = "poll" => task.pc = "poll")
          /\ \A d \in Contexts : d # c => rx[d].pc = "idle"
      <3>1. rx[c] \in RxRec /\ rx[c].pc # "idle"
        BY <1>0, <1>2 DEF Receive, RxPeek, RxTake, RxDone
      <3> QED BY <1>0, <3>1 DEF ServeInv, CountInv, Polling
    <2>1. CASE RxPeek(c)
      <3>1. /\ rx' = [rx EXCEPT ![c].pc = "got", ![c].head = vq_available_idx[Rx]]
            /\ vq_available_idx[Rx] # avail[Rx].idx
            /\ UNCHANGED <<world, avail, used, mem, vq_available_idx, queued, task, host>>
        BY <2>1 DEF RxPeek, Empty
      <3>2. /\ rx'[c].pc = "got" /\ rx'[c].head = vq_available_idx[Rx]
            /\ \A d \in Contexts : d # c => rx'[d] = rx[d]
        BY <1>0, <3>1 DEF RxRec
      <3>3. RxInv' /\ Off(Rx)' = Off(Rx)
        BY <3>1, RxKept
      <3>4. ServeInv'
        BY <1>0, <2>0, <3>1, <3>2, <3>3 DEF ServeInv
      <3> QED BY <3>3, <3>4
    <2>2. CASE RxDone(c)
      <3>1. /\ rx' = [rx EXCEPT ![c] = NoRx]
            /\ task' = IF c = "poll" THEN [task EXCEPT !.pc = "select"] ELSE task
            /\ UNCHANGED <<world, avail, used, mem, vq_available_idx, queued, host>>
        BY <2>2 DEF RxDone
      <3>2. rx'[c].pc = "idle" /\ \A d \in Contexts : d # c => rx'[d] = rx[d]
        BY <1>0, <3>1, Blanks
      <3>3. /\ task'.buf = task.buf
            /\ task' = task \/ (task.pc = "poll" /\ task'.pc = "select")
        BY <1>0, <2>0, <3>1 DEF TaskRec
      <3>4. /\ Off(Rx)' = Off(Rx) /\ Ret(Rx)' = Ret(Rx) /\ Away' = Away /\ Waiting' = Waiting
            /\ InHand' = InHand /\ Once(Rx)'
        BY <3>1, <3>3 DEF RxInv, Off, Ret, Away, Waiting, InHand, Once
      <3>5. RxInv'
        BY <3>1, <3>3, <3>4 DEF RxInv
      <3>6. ServeInv'
        BY <1>0, <2>0, <3>1, <3>2, <3>3, <3>4 DEF ServeInv
      <3> QED BY <3>5, <3>6
    <2>3. CASE RxTake(c)
      <3> DEFINE v == vq_available_idx[Rx]
                 a == avail[Rx].idx
                 ring == avail[Rx].ring
                 b == ring[Slot(v)]
                 held == mem[Rx][b].ept \in Endpoints
      <3>1. rx[c].pc = "got" /\ rx[c].head = v /\ v # a
        BY <2>3 DEF RxTake, ServeInv
      <3>2. /\ vq_available_idx' = [vq_available_idx EXCEPT ![Rx] = Inc(v)]
            /\ rx'= [rx EXCEPT ![c] = [pc |-> "take", head |-> 0, freed |-> @.freed \/ ~held]]
            /\ queued' = IF held THEN Append(queued, b) ELSE queued
            /\ used' = IF held THEN used ELSE [PutUsed(Rx, b) EXCEPT ![Rx].idx = Inc(@)]
            /\ UNCHANGED <<world, avail, mem, task, host>>
        BY <2>3, <3>1 DEF RxTake
      <3>3. ring \in [Bufs -> Bufs] /\ a \in Indices /\ v \in Indices /\ Distinct(ring, v, a) /\ b \in Bufs
        BY <1>0, RingTypes, Wraps DEF Once
      <3>4. /\ b \in Window(ring, v, a) /\ Window(ring, Inc(v), a) = Window(ring, v, a) \ {b}
            /\ Distinct(ring, Inc(v), a)
        BY <3>1, <3>3, TakeFirst
      <3>5. vq_available_idx'[Rx] = Inc(v)
        BY <1>0, <3>2
      <3>6. /\ b \in Off(Rx) /\ Off(Rx)' = Off(Rx) \ {b}
            /\ Distinct(avail'[Rx].ring, vq_available_idx'[Rx], avail'[Rx].idx)
        BY <3>2, <3>4, <3>5 DEF Off
      <3>7. rx'[c].pc = "take" /\ \A d \in Contexts : d # c => rx'[d] = rx[d]
        BY <1>0, <3>2
      <3>8. ServeInv'
        <4>1. \A x \in Off(Rx)' : x \in Off(Rx)
          BY <3>6
        <4> QED BY <1>0, <2>0, <3>2, <3>6, <3>7, <4>1 DEF ServeInv
      <3>9. b \notin Ret(Rx) /\ b \notin Away /\ b \notin Waiting /\ b \notin InHand /\ b \notin host.free
        BY <3>6 DEF RxInv, Away
      <3>10. CASE held
        <4>1. queued' = Append(queued, b) /\ used' = used
          BY <3>2, <3>10
        <4> HIDE DEF b, held
        <4>2. /\ Len(queued) \in Nat /\ Len(queued') = Len(queued) + 1 /\ queued'[Len(queued) + 1] = b
              /\ \A i \in 1 .. Len(queued) : queued'[i] = queued[i]
          BY <1>0, <3>3, <4>1
        <4>3. \A i \in 1 .. Len(queued') : i \in 1 .. Len(queued) \/ i = Len(queued) + 1
          BY <4>2
        <4>4. \A i \in 1 .. Len(queued) : i \in 1 .. Len(queued') /\ i # Len(queued) + 1
          BY <4>2
        <4>5. Len(queued) + 1 \in 1 .. Len(queued')
          BY <4>2
        <4>6. Waiting' = Waiting \cup {b}
          BY <4>2, <4>3, <4>4, <4>5 DEF Waiting
        <4>7. \A i \in 1 .. Len(queued) : queued[i] # b
          BY <3>9 DEF Waiting
        <4>8. \A i, j \in 1 .. Len(queued') : queued'[i] = queued'[j] => i = j
          BY <4>2, <4>3, <4>7 DEF RxInv
        <4>9. Ret(Rx)' = Ret(Rx) /\ InHand' = InHand /\ Once(Rx)' /\ Away' = Away \cup {b}
          BY <3>2, <3>6, <4>1, <4>6 DEF Ret, InHand, Once, Away, RxInv
        <4>10. /\ Off(Rx)' \cap Ret(Rx)' = {} /\ (Off(Rx)' \cup Ret(Rx)') \cap Away' = {}
               /\ Off(Rx)' \cup Ret(Rx)' \cup Away' = Bufs
          BY <3>6, <3>9, <4>9 DEF RxInv
        <4>11. Waiting' \cap InHand' = {} /\ (Waiting' \cup InHand') \cap host'.free = {}
          BY <3>2, <3>9, <4>6, <4>9 DEF RxInv
        <4>12. RxInv'
          BY <3>2, <4>1, <4>8, <4>9, <4>10, <4>11 DEF RxInv
        <4> QED BY <3>8, <4>12
      <3>11. CASE ~held
        <4> DEFINE u == used[Rx].idx
                   r == host.read[Rx]
                   put == [used[Rx].ring EXCEPT ![Slot(u)] = b]
        <4>1. queued' = queued /\ used' = [PutUsed(Rx, b) EXCEPT ![Rx].idx = Inc(@)]
          BY <3>2, <3>11
        <4>2. task.pc # "publish"
          <5>1. world.stray
            BY <3>6, <3>11 DEF ServeInv
          <5> QED BY <1>0, <2>0, <5>1 DEF ServeInv
        <4> HIDE DEF b, held
        <4>3. used'[Rx].ring = put /\ used'[Rx].idx = Inc(u)
          BY <1>0, <3>3, <4>1, HandBack
        <4>4. /\ used[Rx].ring \in [Bufs -> Bufs] /\ u \in Indices /\ r \in Indices
              /\ Distinct(used[Rx].ring, r, u) /\ b \notin Window(used[Rx].ring, r, u)
          BY <1>0, <3>9, RingTypes DEF Once, Ret
        <4>5. Dist(r, u) < N
          BY <3>3, <4>4, RingHolds
        <4>6. /\ put \in [Bufs -> Bufs] /\ put[Slot(u)] = b /\ Window(put, r, u) = Window(used[Rx].ring, r, u)
              /\ Distinct(put, r, u)
          BY <3>3, <4>4, <4>5, WriteAhead
        <4> HIDE DEF put
        <4>7. Window(put, r, Inc(u)) = Window(put, r, u) \cup {b} /\ Distinct(put, r, Inc(u))
          BY <4>4, <4>5, <4>6, AddLast
        <4>8. /\ Ret(Rx)' = Ret(Rx) \cup {b} /\ Once(Rx)' /\ Waiting' = Waiting /\ InHand' = InHand
              /\ Away' = Away
          BY <3>2, <3>6, <4>1, <4>3, <4>6, <4>7 DEF Ret, Once, Waiting, InHand, Away
        <4>9. /\ Off(Rx)' \cap Ret(Rx)' = {} /\ (Off(Rx)' \cup Ret(Rx)') \cap Away' = {}
              /\ Off(Rx)' \cup Ret(Rx)' \cup Away' = Bufs
          BY <3>6, <3>9, <4>8 DEF RxInv
        <4>10. RxInv'
          BY <3>2, <4>1, <4>2, <4>8, <4>9 DEF RxInv
        <4> QED BY <3>8, <4>10
      <3> QED BY <3>10, <3>11
    <2> QED BY <1>2, <2>1, <2>2, <2>3 DEF Receive
  <1> QED BY <1>1, <1>2

(* The rpmsg task and ring Rx *)
LEMMA TaskRx ==
  ASSUME TInv, RxInv, ServeInv, Task
  PROVE  RxInv' /\ ServeInv'
  <1> USE DEF rings, locking, signals
  <1>0. /\ TypeOK /\ Rx \in Rings /\ rx \in [Contexts -> RxRec] /\ task \in TaskRec
        /\ queued \in Seq(Bufs) /\ Once(Rx) /\ Contexts = {"isr", "poll"}
        /\ rx["isr"].pc = "idle" /\ UNCHANGED <<world, avail, mem, vq_available_idx, host>>
    BY RingNames, TypeForms DEF TInv, Types, RxInv, Contexts, Task, TaskRuns,
       Select, Poll, oblfr_process_queue, rpmsg_lite_release_rx_buffer, ReleasePublish, Released
  <1>1. Off(Rx)' = Off(Rx)
    BY <1>0 DEF Off
  <1>2. ServeInv'
    <2>1. CASE rx' = rx
      BY <1>0, <1>1, <2>1 DEF ServeInv
    <2>2. CASE Poll
      <3>1. rx' = [rx EXCEPT !["poll"].pc = "take"]
        BY <2>2 DEF Poll, env_isr
      <3>2. rx'["isr"] = rx["isr"] /\ rx'["poll"].pc = "take"
        BY <1>0, <3>1 DEF RxRec
      <3> QED BY <1>0, <1>1, <3>2 DEF ServeInv
    <2> QED BY <2>1, <2>2 DEF Task, Select, oblfr_process_queue, rpmsg_lite_release_rx_buffer, ReleasePublish, Released
  <1>3. CASE Select
    <2>1. /\ task.pc = "select" /\ queued # <<>> /\ task' = [pc |-> "callback", buf |-> Head(queued)]
          /\ queued' = Tail(queued) /\ UNCHANGED <<used>>
      BY <1>3 DEF Select
    <2> DEFINE b == queued[1]
    <2>2. /\ Len(queued) \in Nat /\ Len(queued) >= 1 /\ Len(queued') = Len(queued) - 1 /\ Head(queued) = b
          /\ \A i \in 1 .. Len(queued') : queued'[i] = queued[i + 1]
      BY <1>0, <2>1
    <2>3. \A i \in 1 .. Len(queued') : i + 1 \in 1 .. Len(queued) /\ i + 1 # 1
      BY <2>2
    <2>4. \A i \in 1 .. Len(queued) : i # 1 => i - 1 \in 1 .. Len(queued') /\ (i - 1) + 1 = i
      BY <2>2
    <2>5. 1 \in 1 .. Len(queued)
      BY <2>2
    <2>6. b \in Waiting /\ b \in Bufs /\ b # None
      <3>1. b \in Waiting
        BY <2>5 DEF Waiting
      <3> QED BY <3>1, Wraps DEF RxInv, Away
    <2>7. \A i, j \in 1 .. Len(queued') : queued'[i] = queued'[j] => i = j
      <3> SUFFICES ASSUME NEW i \in 1 .. Len(queued'), NEW j \in 1 .. Len(queued'), queued'[i] = queued'[j]
                   PROVE  i = j
        OBVIOUS
      <3>1. i + 1 = j + 1
        BY <2>2, <2>3 DEF RxInv
      <3> QED BY <3>1
    <2>8. Waiting' = Waiting \ {b}
      <3>1. ASSUME NEW i \in 1 .. Len(queued') PROVE queued'[i] \in Waiting /\ queued'[i] # b
        BY <2>2, <2>3, <2>5 DEF Waiting, RxInv
      <3>2. ASSUME NEW i \in 1 .. Len(queued), queued[i] # b
            PROVE  \E j \in 1 .. Len(queued') : queued'[j] = queued[i]
        <4>1. i # 1
          BY <3>2
        <4>2. i - 1 \in 1 .. Len(queued') /\ (i - 1) + 1 = i
          BY <2>4, <4>1
        <4> QED BY <2>2, <4>2
      <3> QED BY <3>1, <3>2 DEF Waiting
    <2> HIDE DEF b
    <2>9. task'.pc = "callback" /\ task'.buf = b /\ task.buf = None
      BY <2>1, <2>2 DEF RxInv
    <2>10. InHand' = {b} /\ InHand = {} /\ Away' = Away
      BY <1>0, <2>6, <2>8, <2>9 DEF InHand, Away
    <2>11. Ret(Rx)' = Ret(Rx) /\ Once(Rx)'
      BY <1>0, <2>1 DEF Ret, Once
    <2>12. Waiting' \cap InHand' = {} /\ (Waiting' \cup InHand') \cap host'.free = {}
      BY <1>0, <2>6, <2>8, <2>10 DEF RxInv
    <2>13. RxInv'
      BY <1>1, <2>6, <2>7, <2>9, <2>10, <2>11, <2>12 DEF RxInv
    <2> QED BY <1>2, <2>13
  <1>4. CASE Poll \/ oblfr_process_queue \/ Released
    <2>1. /\ task'.buf = task.buf /\ UNCHANGED <<used, queued>>
          /\ \/ task.pc \in {"select", "released"} /\ task'.pc \in {"poll", "select"}
             \/ task.pc = "callback" /\ task'.pc = "release"
      BY <1>0, <1>4 DEF Poll, oblfr_process_queue, Released, TaskRec
    <2>2. Ret(Rx)' = Ret(Rx) /\ Away' = Away /\ Waiting' = Waiting /\ InHand' = InHand /\ Once(Rx)'
      BY <1>0, <2>1 DEF Ret, Away, Waiting, InHand, Once
    <2>3. RxInv'
      BY <1>0, <1>1, <2>1, <2>2 DEF RxInv
    <2> QED BY <1>2, <2>3
  <1>5. CASE rpmsg_lite_release_rx_buffer \/ ReleasePublish
    <2> DEFINE b == task.buf
               u == used[Rx].idx
               r == host.read[Rx]
               ring == used[Rx].ring
    <2>1. b \in Bufs /\ b # None /\ task.pc \in {"release", "publish"} /\ UNCHANGED queued
      BY <1>5, Wraps DEF rpmsg_lite_release_rx_buffer, ReleasePublish, RxInv
    <2>2. b \in InHand /\ InHand = {b} /\ b \notin Ret(Rx) /\ b \notin Off(Rx) /\ b \notin Waiting /\ b \notin host.free
      <3>1. InHand = {b}
        BY <2>1 DEF InHand
      <3> QED BY <3>1 DEF RxInv, Away
    <2>3. /\ ring \in [Bufs -> Bufs] /\ u \in Indices /\ r \in Indices
          /\ Distinct(ring, r, u) /\ b \notin Window(ring, r, u)
      BY <1>0, <2>2, RingTypes DEF Once, Ret
    <2>4. Dist(r, u) < N
      BY <2>1, <2>3, RingHolds
    <2>5. CASE rpmsg_lite_release_rx_buffer
      <3>1. /\ used' = PutUsed(Rx, b) /\ task' = [task EXCEPT !.pc = "publish"]
        BY <2>5 DEF rpmsg_lite_release_rx_buffer
      <3>2. task'.pc = "publish" /\ task'.buf = b
        BY <1>0, <3>1 DEF TaskRec
      <3>3. used'[Rx].ring = [ring EXCEPT ![Slot(u)] = b] /\ used'[Rx].idx = u
        BY <1>0, <2>1, <3>1, UsedSteps
      <3>4. /\ used'[Rx].ring[Slot(u)] = b /\ Window(used'[Rx].ring, r, u) = Window(ring, r, u)
            /\ Distinct(used'[Rx].ring, r, u)
        BY <2>1, <2>3, <2>4, <3>3, WriteAhead
      <3>5. Ret(Rx)' = Ret(Rx) /\ Away' = Away /\ Waiting' = Waiting /\ InHand' = InHand /\ Once(Rx)'
        BY <1>0, <2>1, <3>2, <3>3, <3>4 DEF Ret, Away, Waiting, InHand, Once
      <3>6. RxInv'
        BY <1>0, <1>1, <2>1, <3>2, <3>3, <3>4, <3>5 DEF RxInv
      <3> QED BY <1>2, <3>6
    <2>6. CASE ReleasePublish
      <3>1. task.pc = "publish" /\ used' = PublishUsed(Rx) /\ task'.pc = "released" /\ task'.buf = None
        BY <2>6 DEF ReleasePublish
      <3>2. ring[Slot(u)] = b
        BY <3>1 DEF RxInv
      <3>3. used'[Rx].ring = ring /\ used'[Rx].idx = Inc(u)
        BY <1>0, <2>1, <3>1, UsedSteps
      <3>4. Window(ring, r, Inc(u)) = Window(ring, r, u) \cup {b} /\ Distinct(ring, r, Inc(u))
        BY <2>3, <2>4, <3>2, AddLast
      <3>5. Ret(Rx)' = Ret(Rx) \cup {b} /\ Once(Rx)' /\ Waiting' = Waiting /\ InHand' = {}
        BY <1>0, <2>1, <3>1, <3>3, <3>4 DEF Ret, Once, Waiting, InHand
      <3>6. Away' = Away \ {b}
        BY <1>0, <2>2, <3>5 DEF Away
      <3>7. /\ Off(Rx)' \cap Ret(Rx)' = {} /\ (Off(Rx)' \cup Ret(Rx)') \cap Away' = {}
            /\ Off(Rx)' \cup Ret(Rx)' \cup Away' = Bufs
        BY <1>1, <2>1, <2>2, <3>5, <3>6 DEF RxInv, Away
      <3>8. Waiting' \cap InHand' = {} /\ (Waiting' \cup InHand') \cap host'.free = {}
        BY <1>0, <3>5 DEF RxInv
      <3>9. RxInv'
        BY <2>1, <3>1, <3>5, <3>7, <3>8 DEF RxInv
      <3> QED BY <1>2, <3>9
    <2> QED BY <1>5, <2>5, <2>6
  <1> QED BY <1>3, <1>4, <1>5 DEF Task


-----------------------------------------------------------------------------
(* The inductive invariant of the buffers *)
PlaceInv == LInv /\ TxInv /\ RxInv /\ ServeInv

(* At the start the Tx buffers are offered and the Rx buffers with Linux. *)
LEMMA InitPlace ==
  ASSUME Init, OneWriter
  PROVE  PlaceInv
  <1> USE DEF Init
  <1>0. /\ Tx \in Rings /\ Rx \in Rings /\ Tx # Rx /\ 0 \in Indices /\ N \in Indices
        /\ N \in Nat \ {0} /\ IdxMod \in Nat /\ Contexts = {"isr", "poll"}
    BY RingNames, Wraps, RingAssumption DEF Contexts
  <1>1. \A s \in Senders : sender[s].pc = "idle" /\ sender[s].buf = None
    BY Blanks
  <1>2. LInv
    <2>1. Inside = {}
      BY <1>1 DEF Inside
    <2> QED BY <2>1, InitType DEF LInv, LockInv, OneWriter
  <1>3. ASSUME NEW ring PROVE Window(ring, 0, 0) = {} /\ Distinct(ring, 0, 0)
    <2>1. Dist(0, 0) = 0
      BY <1>0, Dists
    <2>2. 1 .. 0 = {}
      OBVIOUS
    <2> QED BY <2>1, <2>2 DEF Window, Distinct
  <1>4. \A q \in Rings : Ret(q) = {} /\ Distinct(used[q].ring, host.read[q], used[q].idx)
    BY <1>0, <1>3 DEF Ret
  <1>5. Off(Rx) = {} /\ Distinct(avail[Rx].ring, vq_available_idx[Rx], avail[Rx].idx)
    BY <1>0, <1>3 DEF Off
  <1>6. Off(Tx) = Bufs /\ Distinct(avail[Tx].ring, vq_available_idx[Tx], avail[Tx].idx)
    <2> DEFINE ring == [b \in Bufs |-> b]
    <2>1. avail[Tx].ring = ring /\ avail[Tx].idx = N /\ vq_available_idx[Tx] = 0
      BY <1>0
    <2>2. Dist(0, N) = N
      BY <1>0, Dists
    <2>3. ASSUME NEW i \in 1 .. N PROVE Pos(0, i) = i - 1 /\ i - 1 \in Bufs /\ ring[Pos(0, i)] = i - 1
      <3>1. i - 1 \in 0 .. N - 1 /\ 0 + i - 1 = i - 1
        BY <1>0
      <3>2. (i - 1) % N = i - 1
        <4>1. (0 * N + (i - 1)) % N = i - 1
          BY <1>0, <3>1, ModUnique
        <4> QED BY <1>0, <3>1, <4>1
      <3> QED BY <3>1, <3>2 DEF Pos, Slot, Bufs
    <2>4. \A b \in Bufs : b + 1 \in 1 .. N /\ (b + 1) - 1 = b
      BY <1>0 DEF Bufs
    <2> HIDE DEF ring
    <2>5. Window(ring, 0, N) = Bufs
      <3>1. \A b \in Bufs : \E i \in 1 .. N : ring[Pos(0, i)] = b
        BY <2>3, <2>4
      <3> QED BY <2>2, <2>3, <3>1 DEF Window
    <2>6. Distinct(ring, 0, N)
      <3>1. \A i, j \in 1 .. N : i - 1 = j - 1 => i = j
        BY <1>0
      <3> QED BY <2>2, <2>3, <3>1 DEF Distinct
    <2> QED BY <2>1, <2>5, <2>6 DEF Off
  <1>7. TxInv
    <2>1. Owned = {}
      BY <1>1 DEF Owned
    <2> QED BY <1>0, <1>1, <1>4, <1>6, <2>1 DEF TxInv, Once
  <1>8. RxInv
    <2>1. Waiting = {} /\ InHand = {} /\ Away = Bufs
      <3>1. queued = <<>> /\ Len(<<>>) = 0 /\ 1 .. 0 = {} /\ task.buf = None /\ host.free = Bufs
        OBVIOUS
      <3>2. Waiting = {} /\ InHand = {}
        BY <3>1 DEF Waiting, InHand
      <3> QED BY <3>1, <3>2 DEF Away
    <2>2. \A i, j \in 1 .. Len(queued) : queued[i] = queued[j] => i = j
      <3>1. queued = <<>> /\ Len(<<>>) = 0 /\ 1 .. 0 = {}
        OBVIOUS
      <3> QED BY <3>1
    <2>3. task.pc = "select" /\ task.buf = None
      OBVIOUS
    <2>4. Once(Rx) /\ Ret(Rx) = {}
      BY <1>0, <1>4, <1>5 DEF Once
    <2> QED BY <1>5, <2>1, <2>2, <2>3, <2>4 DEF RxInv
  <1>9. ServeInv
    BY <1>0, <1>5, Blanks DEF ServeInv, OneWriter
  <1> QED BY <1>2, <1>7, <1>8, <1>9 DEF PlaceInv

(* Every step keeps every buffer in one place. *)
LEMMA NextPlace ==
  ASSUME PlaceInv, [Next]_vars
  PROVE  PlaceInv'
  <1>0. LInv /\ TInv /\ TxInv /\ RxInv /\ ServeInv
    BY DEF PlaceInv, LInv
  <1>1. LInv'
    BY <1>0, NextLock
  <1>2. CASE UNCHANGED vars
    <2>1. UNCHANGED <<world, avail, used, mem, vq_available_idx, rx, queued, sender, task, host>>
      BY <1>2 DEF vars, rings
    <2>2. TxInv' /\ RxInv' /\ Off(Rx)' = Off(Rx)
      BY <1>0, <2>1, TxKept, RxKept
    <2>3. ServeInv'
      BY <1>0, <2>1, <2>2, ServeKept
    <2> QED BY <1>1, <2>2, <2>3 DEF PlaceInv
  <1>3. ASSUME NEW s \in Senders, rpmsg_lite_send(s) \/ Sender(s)
        PROVE  PlaceInv'
    BY <1>0, <1>1, <1>3, SenderTx, SenderRx DEF PlaceInv
  <1>4. CASE (\E c \in Contexts : Receive(c)) \/ platform_isr_handle
    BY <1>0, <1>1, <1>4, OtherTx, ReceiveRx DEF PlaceInv
  <1>5. CASE Task
    BY <1>0, <1>1, <1>5, OtherTx, TaskRx DEF PlaceInv
  <1>6. CASE Host \/ HostSend
    <2>1. TxInv'
      BY <1>0, <1>6, OtherTx, HostTx DEF Host
    <2> QED BY <1>0, <1>1, <1>6, <2>1, HostRx DEF PlaceInv
  <1> QED BY <1>2, <1>3, <1>4, <1>5, <1>6 DEF Next

(* A buffer occurs at most once in a sequence of different ones. *)
LEMMA CountOnce ==
  ASSUME NEW f, \A i, j \in DOMAIN f : f[i] = f[j] => i = j, NEW b
  PROVE  Count(b, f) = IF \E i \in DOMAIN f : f[i] = b THEN 1 ELSE 0
  <1>1. CASE \E i \in DOMAIN f : f[i] = b
    <2>1. PICK i \in DOMAIN f : f[i] = b
      BY <1>1
    <2>2. {j \in DOMAIN f : f[j] = b} = {i}
      BY <2>1
    <2>3. Cardinality({i}) = 1
      BY FS_Singleton
    <2> QED BY <1>1, <2>2, <2>3 DEF Count
  <1>2. CASE ~\E i \in DOMAIN f : f[i] = b
    <2>1. {j \in DOMAIN f : f[j] = b} = {}
      BY <1>2
    <2> QED BY <1>2, <2>1, FS_EmptySet DEF Count
  <1> QED BY <1>1, <1>2

(* A window as a sequence *)
LEMMA CountBetween ==
  ASSUME NEW ring, NEW from, NEW to, Distinct(ring, from, to), NEW b
  PROVE  Count(b, Between(ring, from, to)) = IF b \in Window(ring, from, to) THEN 1 ELSE 0
  <1> DEFINE f == Between(ring, from, to)
  <1>1. DOMAIN f = 1 .. Dist(from, to) /\ \A i \in 1 .. Dist(from, to) : f[i] = ring[Pos(from, i)]
    BY DEF Between, Pos
  <1> HIDE DEF f
  <1>2. \A i, j \in DOMAIN f : f[i] = f[j] => i = j
    BY <1>1 DEF Distinct
  <1>3. (\E i \in DOMAIN f : f[i] = b) <=> b \in Window(ring, from, to)
    BY <1>1 DEF Window
  <1>4. Count(b, f) = IF \E i \in DOMAIN f : f[i] = b THEN 1 ELSE 0
    BY <1>2, CountOnce
  <1> QED BY <1>3, <1>4 DEF f

(* OnePlace: for every number of buffers and senders, and every width of    *)
(* the indices, each buffer of ring Tx is offered, with one sender or       *)
(* handed back, and each buffer of ring Rx offered, in one queue, with the  *)
(* rpmsg task, handed back or with Linux, through every interleaving of the *)
(* senders, the interrupt, the rpmsg task and the D0, and through the       *)
(* wrap-around of the indices; provided that nothing runs while the task    *)
(* polls, and that the interrupt may hit a release only if Linux sends to   *)
(* known endpoints.                                                         *)
THEOREM OnePlaceCorrect ==
  ASSUME OneWriter
  PROVE  Spec => []OnePlace
  <1>1. Init => PlaceInv
    BY InitPlace
  <1>2. PlaceInv /\ [Next]_vars => PlaceInv'
    BY NextPlace
  <1>3. PlaceInv => OnePlace
    <2> SUFFICES ASSUME PlaceInv, NEW b \in Bufs
                 PROVE  /\ Count(b, Offered(Tx)) + Count(b, Returned(Tx))
                           + Cardinality({s \in Senders : sender[s].buf = b}) = 1
                        /\ Count(b, Offered(Rx)) + Count(b, Returned(Rx)) + Count(b, queued)
                           + Cardinality({x \in {task.buf} : x = b}) + Cardinality(host.free \cap {b}) = 1
      BY DEF OnePlace
    <2>0. TxInv /\ RxInv /\ b # None /\ queued \in Seq(Bufs)
      BY Wraps, TypeForms DEF PlaceInv, LInv, TInv, Types
    <2>1. \A q \in {Tx, Rx} : /\ Count(b, Offered(q)) = (IF b \in Off(q) THEN 1 ELSE 0)
                              /\ Count(b, Returned(q)) = (IF b \in Ret(q) THEN 1 ELSE 0)
      BY <2>0, CountBetween DEF TxInv, RxInv, Once, Offered, Returned, Off, Ret
    <2>2. Cardinality({}) = 0 /\ \A x : Cardinality({x}) = 1
      BY FS_EmptySet, FS_Singleton
    <2>3. Cardinality({s \in Senders : sender[s].buf = b}) = IF b \in Owned THEN 1 ELSE 0
      <3>1. CASE b \in Owned
        <4>1. PICK s \in Senders : sender[s].buf = b
          BY <3>1 DEF Owned
        <4>2. {x \in Senders : sender[x].buf = b} = {s}
          BY <2>0, <4>1 DEF TxInv
        <4> QED BY <2>2, <3>1, <4>2
      <3>2. CASE b \notin Owned
        <4>1. {x \in Senders : sender[x].buf = b} = {}
          BY <2>0, <3>2 DEF Owned
        <4> QED BY <2>2, <3>2, <4>1
      <3> QED BY <3>1, <3>2
    <2>4. Count(b, queued) = IF b \in Waiting THEN 1 ELSE 0
      <3>1. DOMAIN queued = 1 .. Len(queued)
        BY <2>0
      <3>2. \A i, j \in DOMAIN queued : queued[i] = queued[j] => i = j
        BY <2>0, <3>1 DEF RxInv
      <3>3. (\E i \in DOMAIN queued : queued[i] = b) <=> b \in Waiting
        BY <3>1 DEF Waiting
      <3>4. Count(b, queued) = IF \E i \in DOMAIN queued : queued[i] = b THEN 1 ELSE 0
        BY <3>2, CountOnce
      <3> QED BY <3>3, <3>4
    <2>5. Cardinality({x \in {task.buf} : x = b}) = IF b \in InHand THEN 1 ELSE 0
      <3>1. CASE b = task.buf
        <4>1. {x \in {task.buf} : x = b} = {b} /\ b \in InHand
          BY <2>0, <3>1 DEF InHand
        <4> QED BY <2>2, <4>1
      <3>2. CASE b # task.buf
        <4>1. {x \in {task.buf} : x = b} = {} /\ b \notin InHand
          BY <3>2 DEF InHand
        <4> QED BY <2>2, <4>1
      <3> QED BY <3>1, <3>2
    <2>6. Cardinality(host.free \cap {b}) = IF b \in host.free THEN 1 ELSE 0
      <3>1. CASE b \in host.free
        <4>1. host.free \cap {b} = {b}
          BY <3>1
        <4> QED BY <2>2, <3>1, <4>1
      <3>2. CASE b \notin host.free
        <4>1. host.free \cap {b} = {}
          BY <3>2
        <4> QED BY <2>2, <3>2, <4>1
      <3> QED BY <3>1, <3>2
    <2>7. /\ b \in Off(Tx) \/ b \in Ret(Tx) \/ b \in Owned
          /\ ~(b \in Off(Tx) /\ b \in Ret(Tx)) /\ ~((b \in Off(Tx) \/ b \in Ret(Tx)) /\ b \in Owned)
      BY <2>0 DEF TxInv
    <2>8. /\ b \in Off(Rx) \/ b \in Ret(Rx) \/ b \in Waiting \/ b \in InHand \/ b \in host.free
          /\ ~(b \in Off(Rx) /\ b \in Ret(Rx))
          /\ ~((b \in Off(Rx) \/ b \in Ret(Rx)) /\ (b \in Waiting \/ b \in InHand \/ b \in host.free))
          /\ ~(b \in Waiting /\ b \in InHand)
          /\ ~((b \in Waiting \/ b \in InHand) /\ b \in host.free)
      BY <2>0 DEF RxInv, Away
    <2>9. Count(b, Offered(Tx)) + Count(b, Returned(Tx)) + Cardinality({s \in Senders : sender[s].buf = b}) = 1
      BY <2>1, <2>3, <2>7
    <2>10. Count(b, Offered(Rx)) + Count(b, Returned(Rx)) + Count(b, queued)
             + Cardinality({x \in {task.buf} : x = b}) + Cardinality(host.free \cap {b}) = 1
      BY <2>1, <2>4, <2>5, <2>6, <2>8
    <2> QED BY <2>9, <2>10
  <1> QED BY <1>1, <1>2, <1>3, PTL DEF Spec

-----------------------------------------------------------------------------
(* A finite set of positions in ascending order. *)
Enumerates(f, n, S) ==
  /\ f \in [1 .. n -> S]
  /\ \A i, j \in 1 .. n : i < j => f[i] < f[j]
  /\ \A x \in S : \E i \in 1 .. n : f[i] = x

(* Every set of positions has such an order, ... *)
LEMMA Enumerated ==
  ASSUME NEW m \in Nat, NEW S \in SUBSET (1 .. m)
  PROVE  \E n \in Nat : \E f : Enumerates(f, n, S)
  <1> DEFINE Fails == {k \in Nat : \E T \in SUBSET (1 .. k) : ~\E n \in Nat : \E f : Enumerates(f, n, T)}
  <1>1. Fails = {}
    <2> SUFFICES ASSUME Fails # {} PROVE FALSE
      OBVIOUS
    <2>1. PICK k \in Fails : \A l \in Fails : k <= l
      <3>1. Fails \in SUBSET Nat
        OBVIOUS
      <3> HIDE DEF Fails
      <3> QED BY <3>1, LeastExists
    <2>2. k \in Nat
      OBVIOUS
    <2>3. PICK T \in SUBSET (1 .. k) : ~\E n \in Nat : \E f : Enumerates(f, n, T)
      OBVIOUS
    <2>4. T # {}
      <3> SUFFICES ASSUME T = {} PROVE FALSE
        OBVIOUS
      <3>1. Enumerates([i \in 1 .. 0 |-> 0], 0, T)
        <4>1. 1 .. 0 = {}
          OBVIOUS
        <4> QED BY <4>1 DEF Enumerates
      <3> QED BY <2>3, <3>1
    <2>5. k - 1 \in Nat
      <3>1. PICK x \in T : x \in 1 .. k
        BY <2>3, <2>4
      <3> QED BY <2>2, <3>1
    <2>6. k - 1 \notin Fails
      <3> HIDE DEF Fails
      <3> QED BY <2>1, <2>2, <2>5
    <2>7. \A U \in SUBSET (1 .. k - 1) : \E n \in Nat : \E f : Enumerates(f, n, U)
      BY <2>5, <2>6
    <2> HIDE DEF Fails
    <2>8. T \ {k} \in SUBSET (1 .. k - 1)
      BY <2>2
    <2>9. PICK n \in Nat : \E f : Enumerates(f, n, T \ {k})
      BY <2>7, <2>8
    <2>10. PICK f : Enumerates(f, n, T \ {k})
      BY <2>9
    <2>11. CASE k \notin T
      <3>1. T \ {k} = T
        BY <2>11
      <3> QED BY <2>3, <2>10, <3>1
    <2>12. CASE k \in T
      <3> DEFINE g == [i \in 1 .. n + 1 |-> IF i = n + 1 THEN k ELSE f[i]]
      <3>1. \A i \in 1 .. n + 1 : i = n + 1 \/ i \in 1 .. n
        OBVIOUS
      <3>2. \A i \in 1 .. n : f[i] \in T \ {k} /\ f[i] \in 1 .. k - 1 /\ i \in 1 .. n + 1 /\ i # n + 1
        BY <2>8, <2>10 DEF Enumerates
      <3>3. \A i \in 1 .. n : g[i] = f[i]
        BY <3>2
      <3>4. g[n + 1] = k /\ n + 1 \in 1 .. n + 1
        OBVIOUS
      <3>5. g \in [1 .. n + 1 -> T]
        BY <2>12, <3>1, <3>2
      <3> HIDE DEF g
      <3>6. \A i, j \in 1 .. n + 1 : i < j => g[i] < g[j]
        <4> SUFFICES ASSUME NEW i \in 1 .. n + 1, NEW j \in 1 .. n + 1, i < j PROVE g[i] < g[j]
          OBVIOUS
        <4>1. i \in 1 .. n
          BY <3>1
        <4>2. CASE j = n + 1
          BY <2>2, <3>2, <3>3, <3>4, <4>1, <4>2
        <4>3. CASE j \in 1 .. n
          BY <2>10, <3>3, <4>1, <4>3 DEF Enumerates
        <4> QED BY <3>1, <4>2, <4>3
      <3>7. \A x \in T : \E i \in 1 .. n + 1 : g[i] = x
        <4> SUFFICES ASSUME NEW x \in T PROVE \E i \in 1 .. n + 1 : g[i] = x
          OBVIOUS
        <4>1. CASE x = k
          BY <3>4, <4>1
        <4>2. CASE x # k
          <5>1. PICK i \in 1 .. n : f[i] = x
            BY <2>10, <4>2 DEF Enumerates
          <5> QED BY <3>2, <3>3, <5>1
        <4> QED BY <4>1, <4>2
      <3>8. Enumerates(g, n + 1, T)
        BY <3>5, <3>6, <3>7 DEF Enumerates
      <3> QED BY <2>3, <3>8
    <2> QED BY <2>11, <2>12
  <1>2. m \notin Fails
    BY <1>1
  <1> QED BY <1>2

(* ... and no other.                                                        *)
LEMMA AscendingIs ==
  ASSUME NEW n \in Nat, NEW S \in SUBSET Nat, NEW f, Enumerates(f, n, S)
  PROVE  Ascending(S) = f
  <1> DEFINE Rises(g) == \A i, j \in DOMAIN g : i < j => g[i] < g[j]
  <1>1. IsFiniteSet(1 .. n) /\ Cardinality(1 .. n) = n
    <2>1. IsFiniteSet(1 .. n) /\ Cardinality(1 .. n) = IF 1 > n THEN 0 ELSE n - 1 + 1
      BY FS_Interval
    <2> QED BY <2>1
  <1>2. f \in [1 .. n -> S] /\ DOMAIN f = 1 .. n /\ Rises(f)
    BY DEF Enumerates
  <1>3. ASSUME NEW g \in [1 .. n -> S], Rises(g)
        PROVE  g \in Injection(1 .. n, S)
    <2>1. \A i, j \in 1 .. n : i < j => g[i] < g[j]
      BY <1>3
    <2>2. \A i \in 1 .. n : g[i] \in Nat
      BY <1>3
    <2>3. \A i, j \in 1 .. n : g[i] = g[j] => i = j
      <3> SUFFICES ASSUME NEW i \in 1 .. n, NEW j \in 1 .. n, g[i] = g[j], i # j PROVE FALSE
        OBVIOUS
      <3>1. i < j \/ j < i
        OBVIOUS
      <3> QED BY <2>1, <2>2, <3>1
    <2> QED BY <1>3, <2>3 DEF Injection, IsInjective
  <1>4. f \in Bijection(1 .. n, S)
    <2>1. f \in Surjection(1 .. n, S)
      BY <1>2 DEF Enumerates, Surjection
    <2> QED BY <1>2, <1>3, <2>1 DEF Bijection
  <1>5. IsFiniteSet(S) /\ Cardinality(S) = n
    BY <1>1, <1>4, FS_Bijection DEF ExistsBijection
  <1>6. ASSUME NEW g \in [1 .. n -> S], Rises(g)
        PROVE  g = f
    <2> DEFINE D == {i \in 1 .. n : g[i] # f[i]}
    <2>1. g \in Surjection(1 .. n, S)
      BY <1>1, <1>3, <1>5, <1>6, FS_Injection
    <2>2. \A i \in 1 .. n : g[i] \in Nat /\ f[i] \in Nat /\ g[i] \in S /\ f[i] \in S
      BY <1>2, <1>6
    <2>3. \A i, j \in 1 .. n : i < j => g[i] < g[j] /\ f[i] < f[j]
      BY <1>2, <1>6
    <2>4. D = {}
      <3> SUFFICES ASSUME D # {} PROVE FALSE
        OBVIOUS
      <3>1. PICK d \in D : \A i \in D : d <= i
        <4>1. D \in SUBSET Nat
          OBVIOUS
        <4> HIDE DEF D
        <4> QED BY <4>1, LeastExists
      <3>2. d \in 1 .. n /\ g[d] # f[d] /\ \A i \in 1 .. n : i < d => g[i] = f[i]
        BY <3>1
      <3>3. PICK i \in 1 .. n : f[i] = g[d]
        BY <2>2, <3>2 DEF Enumerates
      <3>4. PICK j \in 1 .. n : g[j] = f[d]
        BY <2>1, <2>2, <3>2 DEF Surjection
      <3> HIDE DEF D
      <3>5. i > d /\ j > d
        <4>1. i # d /\ j # d
          BY <3>2, <3>3, <3>4
        <4>2. ~(i < d)
          BY <2>3, <2>2, <3>2, <3>3
        <4>3. ~(j < d)
          BY <2>3, <2>2, <3>2, <3>4
        <4> QED BY <4>1, <4>2, <4>3, <3>2
      <3>6. f[d] < f[i] /\ g[d] < g[j]
        BY <2>3, <3>2, <3>5
      <3> QED BY <2>2, <3>2, <3>3, <3>4, <3>6
    <2>5. \A i \in 1 .. n : g[i] = f[i]
      BY <2>4
    <2> QED BY <1>2, <1>6, <2>5
  <1>7. \A g \in [1 .. n -> S] : Rises(g) <=> g = f
    BY <1>2, <1>6
  <1>8. Ascending(S) = CHOOSE g \in [1 .. n -> S] : Rises(g)
    BY <1>5 DEF Ascending
  <1> HIDE DEF Rises
  <1> QED BY <1>2, <1>7, <1>8

(* The cells for one endpoint, by any such order of their positions. *)
LEMMA AddressedIs ==
  ASSUME NEW c \in Seq(Cell), NEW e, NEW n \in Nat, NEW f,
         Enumerates(f, n, {i \in 1 .. Len(c) : c[i].ept = e})
  PROVE  /\ Addressed(c, e) = [k \in 1 .. n |-> c[f[k]]]
         /\ \A k \in 1 .. n : f[k] \in 1 .. Len(c) /\ c[f[k]].ept = e
  <1> DEFINE S == {i \in 1 .. Len(c) : c[i].ept = e}
  <1>1. S \in SUBSET Nat /\ DOMAIN c = 1 .. Len(c)
    OBVIOUS
  <1>2. Ascending(S) = f
    BY <1>1, AscendingIs
  <1>3. f \in [1 .. n -> S]
    BY DEF Enumerates
  <1>4. Addressed(c, e) = [k \in DOMAIN Ascending(S) |-> c[Ascending(S)[k]]]
    BY <1>1 DEF Addressed
  <1> HIDE DEF S
  <1>5. Addressed(c, e) = [k \in 1 .. n |-> c[f[k]]]
    BY <1>2, <1>3, <1>4
  <1> QED BY <1>3, <1>5 DEF S

(* The positions of the cells for an endpoint can be enumerated in order. *)
LEMMA PositionsOf ==
  ASSUME NEW c \in Seq(Cell), NEW e
  PROVE  \E n \in Nat : \E f : Enumerates(f, n, {i \in 1 .. Len(c) : c[i].ept = e})
  <1> DEFINE S == {i \in 1 .. Len(c) : c[i].ept = e}
  <1>1. Len(c) \in Nat /\ S \in SUBSET (1 .. Len(c))
    OBVIOUS
  <1> HIDE DEF S
  <1>2. \E n \in Nat : \E f : Enumerates(f, n, S)
    BY <1>1, Enumerated
  <1> QED BY <1>2 DEF S

(* What is addressed to an endpoint is a sequence of cells. *)
LEMMA AddressedType ==
  ASSUME NEW c \in Seq(Cell), NEW e
  PROVE  Addressed(c, e) \in Seq(Cell)
  <1>1. PICK n \in Nat : \E f : Enumerates(f, n, {i \in 1 .. Len(c) : c[i].ept = e})
    BY PositionsOf
  <1>2. PICK f : Enumerates(f, n, {i \in 1 .. Len(c) : c[i].ept = e})
    BY <1>1
  <1>3. /\ Addressed(c, e) = [k \in 1 .. n |-> c[f[k]]]
        /\ \A k \in 1 .. n : f[k] \in 1 .. Len(c)
    BY <1>2, AddressedIs
  <1>4. \A k \in 1 .. n : c[f[k]] \in Cell
    BY <1>3
  <1> QED BY <1>3, <1>4

(* A cell more, for this endpoint or another. *)
LEMMA AddressedAppend ==
  ASSUME NEW c \in Seq(Cell), NEW x \in Cell, NEW e
  PROVE  Addressed(Append(c, x), e) = IF x.ept = e THEN Append(Addressed(c, e), x) ELSE Addressed(c, e)
  <1> DEFINE m == Len(c)
             a == Append(c, x)
             S == {i \in 1 .. m : c[i].ept = e}
             T == {i \in 1 .. Len(a) : a[i].ept = e}
  <1>1. /\ m \in Nat /\ a \in Seq(Cell) /\ Len(a) = m + 1 /\ a[m + 1] = x
        /\ \A i \in 1 .. m : a[i] = c[i]
    OBVIOUS
  <1>2. \A i : i \in 1 .. m + 1 <=> i \in 1 .. m \/ i = m + 1
    BY <1>1
  <1>3. PICK n \in Nat : \E f : Enumerates(f, n, S)
    BY PositionsOf
  <1>4. PICK f : Enumerates(f, n, S)
    BY <1>3
  <1>5. /\ Addressed(c, e) = [k \in 1 .. n |-> c[f[k]]]
        /\ \A k \in 1 .. n : f[k] \in 1 .. m /\ c[f[k]].ept = e /\ a[f[k]] = c[f[k]]
    BY <1>1, <1>4, AddressedIs
  <1> HIDE DEF a, m
  <1>6. CASE x.ept # e
    <2>1. T = S
      BY <1>1, <1>2, <1>6
    <2>2. Addressed(a, e) = [k \in 1 .. n |-> a[f[k]]]
      BY <1>1, <1>4, <2>1, AddressedIs
    <2> QED BY <1>5, <1>6, <2>2 DEF a
  <1>7. CASE x.ept = e
    <2> DEFINE g == [i \in 1 .. n + 1 |-> IF i = n + 1 THEN m + 1 ELSE f[i]]
    <2>1. T = S \cup {m + 1}
      BY <1>1, <1>2, <1>7
    <2>2. \A i \in 1 .. n + 1 : i = n + 1 \/ i \in 1 .. n
      OBVIOUS
    <2>3. \A i \in 1 .. n : i \in 1 .. n + 1 /\ i # n + 1 /\ f[i] \in S /\ f[i] < m + 1
      BY <1>1, <1>4, <1>5 DEF Enumerates
    <2>4. \A i \in 1 .. n : g[i] = f[i]
      BY <2>3
    <2>5. g[n + 1] = m + 1 /\ n + 1 \in 1 .. n + 1
      OBVIOUS
    <2>6. g \in [1 .. n + 1 -> T]
      <3> HIDE DEF S, T
      <3> QED BY <2>1, <2>2, <2>3
    <2> HIDE DEF g, S, T
    <2>7. \A i, j \in 1 .. n + 1 : i < j => g[i] < g[j]
      <3> SUFFICES ASSUME NEW i \in 1 .. n + 1, NEW j \in 1 .. n + 1, i < j PROVE g[i] < g[j]
        OBVIOUS
      <3>1. i \in 1 .. n
        BY <2>2
      <3>2. CASE j = n + 1
        BY <2>3, <2>4, <2>5, <3>1, <3>2
      <3>3. CASE j \in 1 .. n
        BY <1>4, <2>4, <3>1, <3>3 DEF Enumerates
      <3> QED BY <2>2, <3>2, <3>3
    <2>8. \A y \in T : \E i \in 1 .. n + 1 : g[i] = y
      <3> SUFFICES ASSUME NEW y \in T PROVE \E i \in 1 .. n + 1 : g[i] = y
        OBVIOUS
      <3>1. CASE y = m + 1
        BY <2>5, <3>1
      <3>2. CASE y \in S
        <4>1. PICK i \in 1 .. n : f[i] = y
          BY <1>4, <3>2 DEF Enumerates
        <4> QED BY <2>3, <2>4, <4>1
      <3> QED BY <2>1, <3>1, <3>2
    <2>9. Enumerates(g, n + 1, T)
      BY <2>6, <2>7, <2>8 DEF Enumerates
    <2>10. Addressed(a, e) = [k \in 1 .. n + 1 |-> a[g[k]]]
      BY <1>1, <2>9, AddressedIs DEF T
    <2>11. \A k \in 1 .. n : a[g[k]] = c[f[k]]
      BY <1>5, <2>4
    <2>12. a[g[n + 1]] = x
      BY <1>1, <2>5
    <2>13. Append([k \in 1 .. n |-> c[f[k]]], x) = [k \in 1 .. n + 1 |-> IF k = n + 1 THEN x ELSE c[f[k]]]
      <3> DEFINE h == [k \in 1 .. n |-> c[f[k]]]
      <3>1. \A k \in 1 .. n : c[f[k]] \in Cell
        BY <1>5 DEF m
      <3>2. h \in Seq(Cell) /\ Len(h) = n
        BY <3>1
      <3>3. /\ Append(h, x) \in Seq(Cell) /\ Len(Append(h, x)) = n + 1 /\ Append(h, x)[n + 1] = x
            /\ \A k \in 1 .. n : Append(h, x)[k] = h[k]
        <4> HIDE DEF h
        <4> QED BY <3>2
      <3>4. Append(h, x) \in [1 .. n + 1 -> Cell]
        BY <3>3, LenProperties
      <3> HIDE DEF h
      <3>5. Append(h, x) = [k \in 1 .. n + 1 |-> IF k = n + 1 THEN x ELSE h[k]]
        <4>1. Append(h, x) = [k \in 1 .. n + 1 |-> Append(h, x)[k]]
          BY <3>3, <3>4
        <4>2. \A k \in 1 .. n + 1 : Append(h, x)[k] = IF k = n + 1 THEN x ELSE h[k]
          BY <2>2, <3>3
        <4> QED BY <4>1, <4>2
      <3>6. \A k \in 1 .. n : h[k] = c[f[k]]
        BY DEF h
      <3>7. \A k \in 1 .. n + 1 : (IF k = n + 1 THEN x ELSE h[k]) = IF k = n + 1 THEN x ELSE c[f[k]]
        BY <2>2, <3>6
      <3> QED BY <3>5, <3>7 DEF h
    <2>14. \A k \in 1 .. n + 1 : a[g[k]] = IF k = n + 1 THEN x ELSE c[f[k]]
      BY <2>2, <2>3, <2>11, <2>12
    <2>15. Addressed(a, e) = Append(Addressed(c, e), x)
      BY <1>5, <2>10, <2>13, <2>14
    <2> QED BY <1>7, <2>15 DEF a
  <1> QED BY <1>6, <1>7

(* A cell less. *)
Without(c, d) == [i \in 1 .. Len(c) - 1 |-> IF i < d THEN c[i] ELSE c[i + 1]]

(* Which cells are left. *)
LEMMA WithoutType ==
  ASSUME NEW c \in Seq(Cell), NEW d \in 1 .. Len(c)
  PROVE  /\ Without(c, d) \in Seq(Cell) /\ Len(Without(c, d)) = Len(c) - 1 /\ Len(c) - 1 \in Nat
         /\ \A i \in 1 .. Len(c) - 1 :
              /\ i < d => Without(c, d)[i] = c[i] /\ i \in 1 .. Len(c)
              /\ ~(i < d) => Without(c, d)[i] = c[i + 1] /\ i + 1 \in 1 .. Len(c)
  <1> DEFINE w == Without(c, d)
  <1>1. Len(c) - 1 \in Nat
    OBVIOUS
  <1>2. \A i \in 1 .. Len(c) - 1 : i \in 1 .. Len(c) /\ i + 1 \in 1 .. Len(c)
    OBVIOUS
  <1>3. \A i \in 1 .. Len(c) - 1 : (IF i < d THEN c[i] ELSE c[i + 1]) \in Cell
    BY <1>2
  <1>4. Without(c, d) \in Seq(Cell) /\ Len(Without(c, d)) = Len(c) - 1
    BY <1>1, <1>3 DEF Without
  <1>5. \A i \in 1 .. Len(c) - 1 : Without(c, d)[i] = IF i < d THEN c[i] ELSE c[i + 1]
    BY DEF Without
  <1> QED BY <1>1, <1>2, <1>4, <1>5

(* ... for another endpoint *)
LEMMA AddressedDrop ==
  ASSUME NEW c \in Seq(Cell), NEW d \in 1 .. Len(c), NEW e, c[d].ept # e
  PROVE  Addressed(Without(c, d), e) = Addressed(c, e)
  <1> DEFINE m == Len(c)
             w == Without(c, d)
             S == {i \in 1 .. m : c[i].ept = e}
             T == {i \in 1 .. Len(w) : w[i].ept = e}
  <1>1. /\ m \in Nat /\ w \in Seq(Cell) /\ Len(w) = m - 1 /\ m - 1 \in Nat /\ d \in 1 .. m
        /\ \A i \in 1 .. m - 1 :
             /\ i < d => w[i] = c[i] /\ i \in 1 .. m
             /\ ~(i < d) => w[i] = c[i + 1] /\ i + 1 \in 1 .. m
    <2>1. m \in Nat /\ d \in 1 .. m
      OBVIOUS
    <2>2. /\ w \in Seq(Cell) /\ Len(w) = m - 1 /\ m - 1 \in Nat
          /\ \A i \in 1 .. m - 1 :
               /\ i < d => w[i] = c[i] /\ i \in 1 .. m
               /\ ~(i < d) => w[i] = c[i + 1] /\ i + 1 \in 1 .. m
      BY WithoutType
    <2> QED BY <2>1, <2>2
  <1>2. PICK n \in Nat : \E f : Enumerates(f, n, S)
    BY PositionsOf
  <1>3. PICK f : Enumerates(f, n, S)
    BY <1>2
  <1>4. /\ Addressed(c, e) = [k \in 1 .. n |-> c[f[k]]]
        /\ \A k \in 1 .. n : f[k] \in 1 .. m /\ c[f[k]].ept = e /\ f[k] # d
    BY <1>3, AddressedIs
  <1> HIDE DEF w, m
  <1> DEFINE g == [k \in 1 .. n |-> IF f[k] < d THEN f[k] ELSE f[k] - 1]
  <1>5. \A k \in 1 .. n : g[k] = IF f[k] < d THEN f[k] ELSE f[k] - 1
    OBVIOUS
  <1> HIDE DEF g
  <1>6. \A k \in 1 .. n : g[k] \in 1 .. m - 1 /\ w[g[k]] = c[f[k]]
    <2> SUFFICES ASSUME NEW k \in 1 .. n PROVE g[k] \in 1 .. m - 1 /\ w[g[k]] = c[f[k]]
      OBVIOUS
    <2>1. CASE f[k] < d
      <3>1. g[k] = f[k] /\ g[k] \in 1 .. m - 1
        BY <1>1, <1>4, <1>5, <2>1
      <3> QED BY <1>1, <2>1, <3>1
    <2>2. CASE ~(f[k] < d)
      <3>1. g[k] = f[k] - 1 /\ g[k] \in 1 .. m - 1 /\ ~(g[k] < d) /\ g[k] + 1 = f[k]
        BY <1>1, <1>4, <1>5, <2>2
      <3>2. w[g[k]] = c[g[k] + 1]
        BY <1>1, <3>1
      <3> QED BY <3>1, <3>2
    <2> QED BY <2>1, <2>2
  <1>7. \A k \in 1 .. n : g[k] \in T
    BY <1>1, <1>4, <1>6
  <1>8. g \in [1 .. n -> T]
    <2>1. g = [k \in 1 .. n |-> g[k]]
      BY DEF g
    <2> HIDE DEF T
    <2> QED BY <1>7, <2>1
  <1>9. \A i, j \in 1 .. n : i < j => g[i] < g[j]
    <2> SUFFICES ASSUME NEW i \in 1 .. n, NEW j \in 1 .. n, i < j PROVE g[i] < g[j]
      OBVIOUS
    <2>1. f[i] < f[j] /\ f[i] \in 1 .. m /\ f[j] \in 1 .. m /\ f[i] # d /\ f[j] # d
      BY <1>3, <1>4 DEF Enumerates
    <2> QED BY <1>1, <1>5, <2>1
  <1>10. \A y \in T : \E i \in 1 .. n : g[i] = y
    <2> SUFFICES ASSUME NEW y \in T PROVE \E i \in 1 .. n : g[i] = y
      OBVIOUS
    <2>1. y \in 1 .. m - 1 /\ w[y].ept = e
      BY <1>1
    <2>2. CASE y < d
      <3>1. y \in S
        BY <1>1, <2>1, <2>2
      <3>2. PICK i \in 1 .. n : f[i] = y
        BY <1>3, <3>1 DEF Enumerates
      <3> QED BY <1>5, <2>2, <3>2
    <2>3. CASE ~(y < d)
      <3>1. y + 1 \in S
        BY <1>1, <2>1, <2>3
      <3>2. PICK i \in 1 .. n : f[i] = y + 1
        BY <1>3, <3>1 DEF Enumerates
      <3>3. ~(f[i] < d) /\ f[i] - 1 = y
        BY <1>1, <2>1, <2>3, <3>2
      <3>4. g[i] = y
        BY <1>5, <3>3
      <3> QED BY <3>4
    <2> QED BY <2>2, <2>3
  <1>11. Enumerates(g, n, T)
    BY <1>8, <1>9, <1>10 DEF Enumerates
  <1>12. Addressed(w, e) = [k \in 1 .. n |-> w[g[k]]]
    <2>1. w \in Seq(Cell) /\ n \in Nat
      BY <1>1, <1>2
    <2> QED BY <1>11, <2>1, AddressedIs
  <1> QED BY <1>4, <1>6, <1>12 DEF w

(* ... and for this one, at the front *)
LEMMA AddressedTake ==
  ASSUME NEW c \in Seq(Cell), Len(c) > 0, NEW e, c[1].ept = e
  PROVE  /\ Addressed(c, e) # <<>> /\ Addressed(c, e)[1] = c[1]
         /\ Addressed(Without(c, 1), e) = Tail(Addressed(c, e))
  <1> DEFINE m == Len(c)
             w == Without(c, 1)
             S == {i \in 1 .. m : c[i].ept = e}
             T == {i \in 1 .. Len(w) : w[i].ept = e}
  <1>1. /\ m \in Nat /\ w \in Seq(Cell) /\ Len(w) = m - 1 /\ m - 1 \in Nat /\ 1 \in 1 .. m
        /\ \A i \in 1 .. m - 1 : w[i] = c[i + 1] /\ i + 1 \in 1 .. m
    <2>1. 1 \in 1 .. m /\ m \in Nat
      OBVIOUS
    <2>2. \A i \in 1 .. m - 1 : ~(i < 1)
      OBVIOUS
    <2> QED BY <2>1, <2>2, WithoutType
  <1>2. PICK n \in Nat : \E f : Enumerates(f, n, S)
    BY PositionsOf
  <1>3. PICK f : Enumerates(f, n, S)
    BY <1>2
  <1>4. /\ Addressed(c, e) = [k \in 1 .. n |-> c[f[k]]]
        /\ \A k \in 1 .. n : f[k] \in 1 .. m /\ c[f[k]].ept = e
    BY <1>3, AddressedIs
  <1> HIDE DEF w, m
  <1>5. n >= 1 /\ f[1] = 1
    <2>1. 1 \in S
      BY <1>1
    <2>2. PICK i \in 1 .. n : f[i] = 1
      BY <1>3, <2>1 DEF Enumerates
    <2>3. n >= 1 /\ 1 \in 1 .. n
      BY <2>2
    <2>4. i = 1
      <3> SUFFICES ASSUME i # 1 PROVE FALSE
        OBVIOUS
      <3>1. 1 < i
        OBVIOUS
      <3>2. f[1] < f[i]
        BY <1>3, <2>3, <3>1 DEF Enumerates
      <3> QED BY <1>1, <1>4, <2>2, <2>3, <3>2
    <2> QED BY <2>2, <2>3, <2>4
  <1>6. \A k \in 1 .. n - 1 : k + 1 \in 1 .. n /\ f[k + 1] > 1 /\ f[k + 1] \in 1 .. m /\ c[f[k + 1]].ept = e
    <2> SUFFICES ASSUME NEW k \in 1 .. n - 1
                 PROVE  k + 1 \in 1 .. n /\ f[k + 1] > 1 /\ f[k + 1] \in 1 .. m /\ c[f[k + 1]].ept = e
      OBVIOUS
    <2>1. k + 1 \in 1 .. n /\ 1 < k + 1 /\ 1 \in 1 .. n
      BY <1>5
    <2>2. f[1] < f[k + 1]
      BY <1>3, <2>1 DEF Enumerates
    <2> QED BY <1>4, <1>5, <2>1, <2>2
  <1> DEFINE g == [k \in 1 .. n - 1 |-> f[k + 1] - 1]
  <1>7. \A k \in 1 .. n - 1 : g[k] = f[k + 1] - 1
    OBVIOUS
  <1> HIDE DEF g
  <1>8. \A k \in 1 .. n - 1 : g[k] \in 1 .. m - 1 /\ w[g[k]] = c[f[k + 1]]
    <2> SUFFICES ASSUME NEW k \in 1 .. n - 1 PROVE g[k] \in 1 .. m - 1 /\ w[g[k]] = c[f[k + 1]]
      OBVIOUS
    <2>1. g[k] \in 1 .. m - 1 /\ g[k] + 1 = f[k + 1]
      BY <1>1, <1>6, <1>7
    <2> QED BY <1>1, <2>1
  <1>9. \A k \in 1 .. n - 1 : g[k] \in T
    BY <1>1, <1>6, <1>8
  <1>10. g \in [1 .. n - 1 -> T]
    <2>1. g = [k \in 1 .. n - 1 |-> g[k]]
      BY DEF g
    <2> HIDE DEF T
    <2> QED BY <1>9, <2>1
  <1>11. \A i, j \in 1 .. n - 1 : i < j => g[i] < g[j]
    <2> SUFFICES ASSUME NEW i \in 1 .. n - 1, NEW j \in 1 .. n - 1, i < j PROVE g[i] < g[j]
      OBVIOUS
    <2>1. i + 1 < j + 1 /\ i + 1 \in 1 .. n /\ j + 1 \in 1 .. n
      BY <1>6
    <2>2. f[i + 1] < f[j + 1]
      BY <1>3, <2>1 DEF Enumerates
    <2> QED BY <1>6, <1>7, <2>2
  <1>12. \A y \in T : \E i \in 1 .. n - 1 : g[i] = y
    <2> SUFFICES ASSUME NEW y \in T PROVE \E i \in 1 .. n - 1 : g[i] = y
      OBVIOUS
    <2>1. y \in 1 .. m - 1 /\ w[y].ept = e /\ y + 1 \in 1 .. m /\ c[y + 1].ept = e
      BY <1>1
    <2>2. PICK i \in 1 .. n : f[i] = y + 1
      BY <1>3, <2>1 DEF Enumerates
    <2>3. i # 1
      BY <1>5, <2>1, <2>2
    <2>4. i - 1 \in 1 .. n - 1 /\ (i - 1) + 1 = i
      BY <2>3
    <2>5. g[i - 1] = y
      BY <1>7, <2>1, <2>2, <2>4
    <2> QED BY <2>4, <2>5
  <1>13. Enumerates(g, n - 1, T)
    BY <1>10, <1>11, <1>12 DEF Enumerates
  <1>14. n - 1 \in Nat
    BY <1>5
  <1>15. Addressed(w, e) = [k \in 1 .. n - 1 |-> w[g[k]]]
    BY <1>1, <1>13, <1>14, AddressedIs
  <1>16. /\ [k \in 1 .. n |-> c[f[k]]] # <<>> /\ [k \in 1 .. n |-> c[f[k]]][1] = c[f[1]]
         /\ Tail([k \in 1 .. n |-> c[f[k]]]) = [k \in 1 .. n - 1 |-> c[f[k + 1]]]
    <2> DEFINE h == [k \in 1 .. n |-> c[f[k]]]
    <2>1. \A k \in 1 .. n : c[f[k]] \in Cell
      BY <1>4 DEF m
    <2>2. h \in Seq(Cell) /\ Len(h) = n /\ 1 \in 1 .. n
      BY <1>5, <2>1
    <2>3. \A k \in 1 .. n : h[k] = c[f[k]]
      OBVIOUS
    <2> HIDE DEF h
    <2>4. h # <<>> /\ Tail(h) \in Seq(Cell) /\ Len(Tail(h)) = n - 1 /\ \A k \in 1 .. n - 1 : Tail(h)[k] = h[k + 1]
      BY <1>5, <2>2
    <2>5. Tail(h) = [k \in 1 .. n - 1 |-> h[k + 1]]
      <3>1. Tail(h) \in [1 .. n - 1 -> Cell]
        BY <2>4, LenProperties
      <3> QED BY <2>4, <3>1
    <2>6. \A k \in 1 .. n - 1 : h[k + 1] = c[f[k + 1]]
      BY <1>6, <2>3
    <2>7. h[1] = c[f[1]]
      BY <2>2, <2>3
    <2> QED BY <2>4, <2>5, <2>6, <2>7 DEF h
  <1>17. [k \in 1 .. n - 1 |-> w[g[k]]] = [k \in 1 .. n - 1 |-> c[f[k + 1]]]
    BY <1>8
  <1> QED BY <1>4, <1>5, <1>15, <1>16, <1>17 DEF w

-----------------------------------------------------------------------------
(* The content of buffers. *)
Held(m, bufs) == [i \in DOMAIN bufs |-> m[bufs[i]]]

(* One cell for each buffer, in their order *)
LEMMA HeldType ==
  ASSUME NEW m \in [Bufs -> Cell], NEW u \in Seq(Bufs)
  PROVE  /\ Held(m, u) \in Seq(Cell) /\ Len(Held(m, u)) = Len(u) /\ Len(u) \in Nat
         /\ \A i \in 1 .. Len(u) : u[i] \in Bufs /\ Held(m, u)[i] = m[u[i]]
  <1>1. Len(u) \in Nat /\ DOMAIN u = 1 .. Len(u) /\ \A i \in 1 .. Len(u) : u[i] \in Bufs
    BY LenProperties
  <1>2. Held(m, u) = [i \in 1 .. Len(u) |-> m[u[i]]]
    BY <1>1 DEF Held
  <1>3. \A i \in 1 .. Len(u) : m[u[i]] \in Cell
    BY <1>1
  <1>4. Held(m, u) \in [1 .. Len(u) -> Cell]
    BY <1>2, <1>3
  <1>5. Held(m, u) \in Seq(Cell) /\ Len(Held(m, u)) = Len(u)
    BY <1>1, <1>4
  <1> QED BY <1>1, <1>2, <1>5

(* Writing elsewhere changes nothing in them. *)
LEMMA HeldSame ==
  ASSUME NEW m \in [Bufs -> Cell], NEW k \in [Bufs -> Cell], NEW u \in Seq(Bufs),
         \A i \in 1 .. Len(u) : k[u[i]] = m[u[i]]
  PROVE  Held(k, u) = Held(m, u)
  <1>1. DOMAIN u = 1 .. Len(u)
    BY LenProperties
  <1> QED BY <1>1 DEF Held

(* One buffer more is one cell more. *)
LEMMA HeldAppend ==
  ASSUME NEW m \in [Bufs -> Cell], NEW k \in [Bufs -> Cell], NEW u \in Seq(Bufs), NEW b \in Bufs,
         \A i \in 1 .. Len(u) : k[u[i]] = m[u[i]]
  PROVE  Held(k, Append(u, b)) = Append(Held(m, u), k[b])
  <1> DEFINE a == Append(u, b)
             h == Held(m, u)
             x == k[b]
  <1>1. /\ a \in Seq(Bufs) /\ Len(a) = Len(u) + 1 /\ Len(u) \in Nat /\ a[Len(u) + 1] = b
        /\ \A i \in 1 .. Len(u) : a[i] = u[i] /\ i \in 1 .. Len(a)
    OBVIOUS
  <1>2. h \in Seq(Cell) /\ Len(h) = Len(u) /\ \A i \in 1 .. Len(u) : h[i] = m[u[i]]
    BY HeldType
  <1>3. /\ Held(k, a) \in Seq(Cell) /\ Len(Held(k, a)) = Len(a)
        /\ \A i \in 1 .. Len(a) : Held(k, a)[i] = k[a[i]]
    BY <1>1, HeldType
  <1>4. x \in Cell
    OBVIOUS
  <1> HIDE DEF a, h, x
  <1>5. /\ Append(h, x) \in Seq(Cell) /\ Len(Append(h, x)) = Len(u) + 1 /\ Append(h, x)[Len(u) + 1] = x
        /\ \A i \in 1 .. Len(u) : Append(h, x)[i] = h[i]
    BY <1>2, <1>4
  <1>6. \A i \in 1 .. Len(a) : Held(k, a)[i] = Append(h, x)[i]
    <2> SUFFICES ASSUME NEW i \in 1 .. Len(a) PROVE Held(k, a)[i] = Append(h, x)[i]
      OBVIOUS
    <2>1. CASE i = Len(u) + 1
      BY <1>1, <1>3, <1>5, <2>1 DEF x
    <2>2. CASE i # Len(u) + 1
      <3>1. i \in 1 .. Len(u)
        BY <1>1, <2>2
      <3> QED BY <1>1, <1>2, <1>3, <1>5, <3>1
    <2> QED BY <2>1, <2>2
  <1>7. Len(Held(k, a)) = Len(Append(h, x))
    BY <1>1, <1>3, <1>5
  <1>8. Held(k, a) = Append(h, x)
    BY <1>3, <1>5, <1>6, <1>7, SeqEqual
  <1> QED BY <1>8 DEF a, h, x

(* One buffer is taken out of the middle. *)
LEMMA HeldWithout ==
  ASSUME NEW m \in [Bufs -> Cell], NEW l \in Seq(Bufs), NEW b \in Bufs, NEW r \in Seq(Bufs)
  PROVE  LET u == l \o (<<b>> \o r)
             d == Len(l) + 1
         IN  /\ u \in Seq(Bufs) /\ d \in 1 .. Len(u) /\ Held(m, u)[d] = m[b]
             /\ Held(m, l \o r) = Without(Held(m, u), d)
  <1> DEFINE t == <<b>> \o r
             u == l \o t
             v == l \o r
             d == Len(l) + 1
  <1>0. Len(l) \in Nat /\ Len(r) \in Nat
    OBVIOUS
  <1>1. /\ t \in Seq(Bufs) /\ Len(t) = Len(r) + 1 /\ t[1] = b
        /\ \A i \in 1 .. Len(r) : t[i + 1] = r[i]
    <2>1. <<b>> \in Seq(Bufs) /\ Len(<<b>>) = 1 /\ <<b>>[1] = b
      OBVIOUS
    <2>2. /\ t \in Seq(Bufs) /\ Len(t) = 1 + Len(r)
          /\ \A i \in 1 .. 1 + Len(r) : t[i] = IF i <= 1 THEN <<b>>[i] ELSE r[i - 1]
      BY <2>1, ConcatProperties
    <2> HIDE DEF t
    <2>3. \A i \in 1 .. Len(r) : i + 1 \in 1 .. 1 + Len(r) /\ ~(i + 1 <= 1) /\ (i + 1) - 1 = i
      BY <1>0
    <2>4. 1 \in 1 .. 1 + Len(r)
      BY <1>0
    <2> QED BY <1>0, <2>1, <2>2, <2>3, <2>4
  <1> HIDE DEF t
  <1>2. /\ u \in Seq(Bufs) /\ Len(u) = Len(l) + Len(r) + 1
        /\ \A i \in 1 .. Len(u) : u[i] = IF i <= Len(l) THEN l[i] ELSE t[i - Len(l)]
    <2>1. /\ u \in Seq(Bufs) /\ Len(u) = Len(l) + Len(t)
          /\ \A i \in 1 .. Len(l) + Len(t) : u[i] = IF i <= Len(l) THEN l[i] ELSE t[i - Len(l)]
      BY <1>1, ConcatProperties
    <2> HIDE DEF u
    <2>2. Len(u) = Len(l) + Len(r) + 1
      BY <1>0, <1>1, <2>1
    <2> QED BY <2>1, <2>2
  <1>3. /\ v \in Seq(Bufs) /\ Len(v) = Len(l) + Len(r)
        /\ \A i \in 1 .. Len(v) : v[i] = IF i <= Len(l) THEN l[i] ELSE r[i - Len(l)]
    BY <1>0, ConcatProperties
  <1> HIDE DEF u, v
  <1>4. d \in 1 .. Len(u) /\ u[d] = b
    <2>1. d \in 1 .. Len(u) /\ ~(d <= Len(l)) /\ d - Len(l) = 1
      BY <1>0, <1>2
    <2>2. u[d] = t[d - Len(l)]
      BY ONLY <1>2, <2>1
    <2> QED BY ONLY <1>1, <2>1, <2>2
  <1>5. \A i \in 1 .. Len(v) : v[i] = IF i < d THEN u[i] ELSE u[i + 1]
    <2> SUFFICES ASSUME NEW i \in 1 .. Len(v) PROVE v[i] = IF i < d THEN u[i] ELSE u[i + 1]
      OBVIOUS
    <2>1. CASE i < d
      <3>1. i <= Len(l) /\ i \in 1 .. Len(u)
        BY <1>0, <1>2, <1>3, <2>1
      <3>2. u[i] = l[i] /\ v[i] = l[i]
        BY <1>2, <1>3, <3>1
      <3> QED BY <2>1, <3>2
    <2>2. CASE ~(i < d)
      <3>1. /\ ~(i <= Len(l)) /\ i - Len(l) \in 1 .. Len(r) /\ i + 1 \in 1 .. Len(u) /\ ~(i + 1 <= Len(l))
            /\ (i + 1) - Len(l) = (i - Len(l)) + 1
        BY <1>0, <1>2, <1>3, <2>2
      <3>2. u[i + 1] = t[(i - Len(l)) + 1] /\ v[i] = r[i - Len(l)]
        BY <1>2, <1>3, <3>1
      <3> QED BY <1>1, <2>2, <3>1, <3>2
    <2> QED BY <2>1, <2>2
  <1>6. /\ Held(m, u) \in Seq(Cell) /\ Len(Held(m, u)) = Len(u)
        /\ \A i \in 1 .. Len(u) : Held(m, u)[i] = m[u[i]]
        /\ Held(m, v) \in Seq(Cell) /\ Len(Held(m, v)) = Len(v)
        /\ \A i \in 1 .. Len(v) : Held(m, v)[i] = m[v[i]]
    BY <1>2, <1>3, HeldType
  <1>7. d \in 1 .. Len(Held(m, u)) /\ Len(Held(m, u)) - 1 = Len(v)
    BY <1>0, <1>2, <1>3, <1>4, <1>6
  <1>8. /\ Without(Held(m, u), d) \in Seq(Cell) /\ Len(Without(Held(m, u), d)) = Len(v)
        /\ \A i \in 1 .. Len(v) :
             /\ i < d => Without(Held(m, u), d)[i] = Held(m, u)[i]
             /\ ~(i < d) => Without(Held(m, u), d)[i] = Held(m, u)[i + 1]
    BY <1>6, <1>7, WithoutType
  <1>9. \A i \in 1 .. Len(v) : Held(m, v)[i] = Without(Held(m, u), d)[i]
    <2> SUFFICES ASSUME NEW i \in 1 .. Len(v) PROVE Held(m, v)[i] = Without(Held(m, u), d)[i]
      OBVIOUS
    <2>1. i \in 1 .. Len(u) /\ i + 1 \in 1 .. Len(u)
      BY <1>0, <1>2, <1>3
    <2>2. CASE i < d
      BY <1>5, <1>6, <1>8, <2>1, <2>2
    <2>3. CASE ~(i < d)
      <3>1. v[i] = u[i + 1] /\ Held(m, v)[i] = m[v[i]]
        BY <1>5, <1>6, <2>3
      <3>2. Without(Held(m, u), d)[i] = Held(m, u)[i + 1] /\ Held(m, u)[i + 1] = m[u[i + 1]]
        BY <1>6, <1>8, <2>1, <2>3
      <3> QED BY <3>1, <3>2
    <2> QED BY <2>2, <2>3
  <1>10. Held(m, v) = Without(Held(m, u), d)
    BY <1>6, <1>8, <1>9, SeqEqual
  <1>11. Held(m, u)[d] = m[b]
    BY <1>4, <1>6
  <1> QED BY <1>2, <1>4, <1>10, <1>11 DEF u, v, t

-----------------------------------------------------------------------------
(* The buffers that lie in a ring between two indices, as a sequence. *)
LEMMA BetweenIs ==
  ASSUME NEW ring \in [Bufs -> Bufs], NEW from \in Indices, NEW to \in Indices
  PROVE  /\ Between(ring, from, to) \in Seq(Bufs) /\ Len(Between(ring, from, to)) = Dist(from, to)
         /\ Dist(from, to) \in Nat
         /\ \A i \in 1 .. Dist(from, to) :
              Between(ring, from, to)[i] = ring[Pos(from, i)] /\ ring[Pos(from, i)] \in Bufs
  <1> DEFINE d == Dist(from, to)
             w == Between(ring, from, to)
  <1>1. d \in Nat
    BY Dists, RingAssumption
  <1>2. \A i \in 1 .. d : Pos(from, i) \in Bufs
    BY <1>1, Slots
  <1>3. w = [i \in 1 .. d |-> ring[Pos(from, i)]]
    BY DEF Between, Pos
  <1> HIDE DEF d, w
  <1>4. w \in [1 .. d -> Bufs]
    BY <1>2, <1>3
  <1>5. w \in Seq(Bufs) /\ Len(w) = d
    BY <1>1, <1>4
  <1> QED BY <1>1, <1>2, <1>3, <1>5 DEF d, w

(* Taking the first one *)
LEMMA BetweenTake ==
  ASSUME NEW ring \in [Bufs -> Bufs], NEW from \in Indices, NEW to \in Indices, from # to
  PROVE  /\ Between(ring, from, to) = <<ring[Slot(from)]>> \o Between(ring, Inc(from), to)
         /\ ring[Slot(from)] \in Bufs /\ Between(ring, Inc(from), to) \in Seq(Bufs)
  <1> DEFINE d == Dist(from, to)
             b == ring[Slot(from)]
             w == Between(ring, from, to)
             x == Between(ring, Inc(from), to)
  <1>1. /\ d \in Nat /\ d >= 1 /\ Dist(Inc(from), to) = d - 1 /\ Slot(from) = Pos(from, 1)
        /\ Inc(from) \in Indices /\ b \in Bufs /\ 1 \in 1 .. d
    <2>1. d \in Nat /\ d # 0 /\ Dist(Inc(from), to) = d - 1
      BY Dists, RingAssumption
    <2>2. Slot(from) = Pos(from, 1) /\ Inc(from) \in Indices /\ b \in Bufs
      BY Slots, Wraps
    <2> QED BY <2>1, <2>2
  <1>2. \A i \in 1 .. d - 1 : Pos(Inc(from), i) = Pos(from, i + 1)
    BY <1>1, Slots
  <1>3. w \in Seq(Bufs) /\ Len(w) = d /\ \A i \in 1 .. d : w[i] = ring[Pos(from, i)]
    BY BetweenIs
  <1>4. x \in Seq(Bufs) /\ Len(x) = d - 1 /\ \A i \in 1 .. d - 1 : x[i] = ring[Pos(Inc(from), i)]
    BY <1>1, BetweenIs
  <1> HIDE DEF w, x, b, d
  <1>5. /\ <<b>> \o x \in Seq(Bufs) /\ Len(<<b>> \o x) = 1 + (d - 1)
        /\ \A i \in 1 .. 1 + (d - 1) : (<<b>> \o x)[i] = IF i <= 1 THEN b ELSE x[i - 1]
    <2>1. <<b>> \in Seq(Bufs) /\ Len(<<b>>) = 1 /\ \A i \in 1 .. 1 : <<b>>[i] = b
      BY <1>1
    <2>2. /\ <<b>> \o x \in Seq(Bufs) /\ Len(<<b>> \o x) = 1 + (d - 1)
          /\ \A i \in 1 .. 1 + (d - 1) : (<<b>> \o x)[i] = IF i <= 1 THEN <<b>>[i] ELSE x[i - 1]
      BY <1>4, <2>1, ConcatProperties
    <2>3. \A i \in 1 .. 1 + (d - 1) : i <= 1 => i \in 1 .. 1
      BY <1>1
    <2> QED BY <2>1, <2>2, <2>3
  <1>6. \A i \in 1 .. d : w[i] = (<<b>> \o x)[i]
    <2> SUFFICES ASSUME NEW i \in 1 .. d PROVE w[i] = (<<b>> \o x)[i]
      OBVIOUS
    <2>1. i \in 1 .. 1 + (d - 1)
      BY <1>1
    <2>2. CASE i = 1
      BY <1>1, <1>3, <1>5, <2>1, <2>2 DEF b
    <2>3. CASE i # 1
      <3>1. i - 1 \in 1 .. d - 1 /\ (i - 1) + 1 = i /\ ~(i <= 1)
        BY <1>1, <2>3
      <3>2. w[i] = ring[Pos(from, i)] /\ x[i - 1] = ring[Pos(Inc(from), i - 1)]
        BY <1>3, <1>4, <3>1
      <3>3. Pos(Inc(from), i - 1) = Pos(from, i)
        BY <1>2, <3>1
      <3> QED BY <1>5, <2>1, <3>1, <3>2, <3>3
    <2> QED BY <2>2, <2>3
  <1>7. Len(w) = Len(<<b>> \o x)
    BY <1>1, <1>3, <1>5
  <1>8. w = <<b>> \o x
    BY <1>3, <1>5, <1>6, <1>7, SeqEqual
  <1> QED BY <1>1, <1>4, <1>8 DEF w, x, b

(* Publishing one more *)
LEMMA BetweenAdd ==
  ASSUME NEW ring \in [Bufs -> Bufs], NEW from \in Indices, NEW to \in Indices, Dist(from, to) < N
  PROVE  Between(ring, from, Inc(to)) = Append(Between(ring, from, to), ring[Slot(to)])
  <1> DEFINE d == Dist(from, to)
             b == ring[Slot(to)]
             w == Between(ring, from, to)
             x == Between(ring, from, Inc(to))
  <1>1. d \in Nat /\ Dist(from, Inc(to)) = d + 1 /\ Slot(to) = Pos(from, d + 1) /\ Inc(to) \in Indices
    <2>1. d \in 0 .. IdxMod - 1 /\ N \in Nat /\ IdxMod \in Nat /\ d < IdxMod - 1
      BY Dists, RingAssumption
    <2>2. Dist(from, Inc(to)) = d + 1 /\ Slot(to) = Pos(from, d + 1)
      BY <2>1, Dists, Slots
    <2> QED BY <2>1, <2>2, Wraps
  <1>2. w \in Seq(Bufs) /\ Len(w) = d /\ \A i \in 1 .. d : w[i] = ring[Pos(from, i)]
    BY BetweenIs
  <1>3. x \in Seq(Bufs) /\ Len(x) = d + 1 /\ \A i \in 1 .. d + 1 : x[i] = ring[Pos(from, i)]
    BY <1>1, BetweenIs
  <1>4. b \in Bufs
    BY Wraps
  <1> HIDE DEF w, x, b, d
  <1>5. /\ Append(w, b) \in Seq(Bufs) /\ Len(Append(w, b)) = d + 1 /\ Append(w, b)[d + 1] = b
        /\ \A i \in 1 .. d : Append(w, b)[i] = w[i]
    BY <1>2, <1>4
  <1>6. \A i \in 1 .. d + 1 : x[i] = Append(w, b)[i]
    <2> SUFFICES ASSUME NEW i \in 1 .. d + 1 PROVE x[i] = Append(w, b)[i]
      OBVIOUS
    <2>1. CASE i = d + 1
      BY <1>1, <1>3, <1>5, <2>1 DEF b
    <2>2. CASE i # d + 1
      <3>1. i \in 1 .. d
        BY <1>1, <2>2
      <3> QED BY <1>2, <1>3, <1>5, <3>1
    <2> QED BY <2>1, <2>2
  <1>7. x = Append(w, b)
    BY <1>3, <1>5, <1>6, SeqEqual
  <1> QED BY <1>7 DEF w, x, b

(* Two rings that agree in between *)
LEMMA BetweenSame ==
  ASSUME NEW ring, NEW other, NEW from, NEW to,
         \A i \in 1 .. Dist(from, to) : other[Pos(from, i)] = ring[Pos(from, i)]
  PROVE  Between(other, from, to) = Between(ring, from, to)
  BY DEF Between, Pos

(* Pieces of a sequence put together in other ways. *)
LEMMA Joins ==
  ASSUME NEW f \in Seq(Bufs), NEW w \in Seq(Bufs), NEW o \in Seq(Bufs), NEW b \in Bufs
  PROVE  /\ (f \o w) \o Append(o, b) = Append((f \o w) \o o, b)
         /\ (<<b>> \o w) \o o = <<b>> \o (w \o o)
         /\ <<>> \o w = w
         /\ w # <<>> => w = <<Head(w)>> \o Tail(w) /\ Head(w) \in Bufs /\ Tail(w) \in Seq(Bufs)
         /\ f \o w \in Seq(Bufs) /\ (f \o w) \o o \in Seq(Bufs) /\ w \o o \in Seq(Bufs)
  <1>0. <<b>> \in Seq(Bufs) /\ <<>> \in Seq(Bufs)
    OBVIOUS
  <1>1. f \o w \in Seq(Bufs) /\ w \o o \in Seq(Bufs)
    BY <1>0, ConcatProperties
  <1>2. (f \o w) \o o \in Seq(Bufs)
    BY <1>1, ConcatProperties
  <1>3. Append(o, b) = o \o <<b>>
    BY AppendIsConcat
  <1>4. Append((f \o w) \o o, b) = ((f \o w) \o o) \o <<b>>
    BY <1>2, AppendIsConcat
  <1>5. ((f \o w) \o o) \o <<b>> = (f \o w) \o (o \o <<b>>)
    BY <1>0, <1>1, ConcatAssociative
  <1>6. (<<b>> \o w) \o o = <<b>> \o (w \o o)
    BY <1>0, ConcatAssociative
  <1>7. <<>> \o w = w
    BY ConcatEmptySeq
  <1>8. w # <<>> => w = <<Head(w)>> \o Tail(w) /\ Head(w) \in Bufs /\ Tail(w) \in Seq(Bufs)
    <2> HAVE w # <<>>
    <2>1. /\ Head(w) \in Bufs /\ Tail(w) \in Seq(Bufs) /\ Len(Tail(w)) = Len(w) - 1
          /\ \A i \in 1 .. Len(Tail(w)) : Tail(w)[i] = w[i + 1]
      BY HeadTailProperties
    <2>2. Len(w) \in Nat /\ Len(w) > 0 /\ Head(w) = w[1]
      OBVIOUS
    <2> DEFINE h == <<Head(w)>>
               t == Tail(w)
    <2>3. h \in Seq(Bufs) /\ Len(h) = 1 /\ h[1] = w[1]
      BY <2>1, <2>2
    <2>4. t \in Seq(Bufs) /\ Len(t) = Len(w) - 1 /\ \A i \in 1 .. Len(t) : t[i] = w[i + 1]
      BY <2>1
    <2> HIDE DEF h, t
    <2>5. /\ h \o t \in Seq(Bufs) /\ Len(h \o t) = Len(h) + Len(t)
          /\ \A i \in 1 .. Len(h) + Len(t) : (h \o t)[i] = IF i <= Len(h) THEN h[i] ELSE t[i - Len(h)]
      <3>1. h \in Seq(Bufs) /\ t \in Seq(Bufs)
        BY <2>3, <2>4
      <3> QED BY ONLY <3>1, ConcatProperties
    <2>6. Len(h \o t) = Len(w)
      <3>1. Len(h \o t) = 1 + (Len(w) - 1)
        BY <2>3, <2>4, <2>5
      <3> HIDE DEF h, t
      <3> QED BY <2>2, <3>1
    <2>7. \A i \in 1 .. Len(w) : (h \o t)[i] = w[i]
      <3> SUFFICES ASSUME NEW i \in 1 .. Len(w) PROVE (h \o t)[i] = w[i]
        OBVIOUS
      <3>1. i \in 1 .. Len(h) + Len(t)
        BY <2>2, <2>3, <2>4
      <3>2. CASE i = 1
        <4>1. i <= Len(h)
          BY <2>3, <3>2
        <4> QED BY <2>3, <2>5, <3>1, <3>2, <4>1
      <3>3. CASE i # 1
        <4>1. ~(i <= Len(h)) /\ i - Len(h) \in 1 .. Len(t) /\ (i - Len(h)) + 1 = i
          BY <2>2, <2>3, <2>4, <3>3
        <4> QED BY <2>4, <2>5, <3>1, <4>1
      <3> QED BY <3>2, <3>3
    <2>8. h \o t = w
      BY <2>5, <2>6, <2>7, SeqEqual
    <2> QED BY <2>1, <2>8 DEF h, t
  <1> QED BY <1>1, <1>2, <1>3, <1>4, <1>5, <1>6, <1>7, <1>8

(* The messages in cells *)
LEMMA TextsIs ==
  ASSUME NEW c \in Seq(Cell)
  PROVE  /\ Texts(c) \in Seq(Msgs) /\ Len(Texts(c)) = Len(c) /\ Len(c) \in Nat
         /\ \A i \in 1 .. Len(c) : c[i] \in Cell /\ Texts(c)[i] = c[i].msg
  <1>1. Len(c) \in Nat /\ DOMAIN c = 1 .. Len(c) /\ \A i \in 1 .. Len(c) : c[i] \in Cell
    BY LenProperties
  <1>2. Texts(c) = [i \in 1 .. Len(c) |-> c[i].msg]
    BY <1>1 DEF Texts
  <1>3. \A i \in 1 .. Len(c) : c[i].msg \in Msgs
    BY <1>1 DEF Cell
  <1>4. Texts(c) \in [1 .. Len(c) -> Msgs]
    BY <1>2, <1>3
  <1>5. Texts(c) \in Seq(Msgs) /\ Len(Texts(c)) = Len(c)
    BY <1>1, <1>4
  <1> QED BY <1>1, <1>2, <1>5

(* One cell more is one message more. *)
LEMMA TextsAppend ==
  ASSUME NEW c \in Seq(Cell), NEW x \in Cell
  PROVE  Texts(Append(c, x)) = Append(Texts(c), x.msg)
  <1> DEFINE a == Append(c, x)
             t == Texts(c)
             m == x.msg
  <1>1. /\ a \in Seq(Cell) /\ Len(a) = Len(c) + 1 /\ Len(c) \in Nat /\ a[Len(c) + 1] = x
        /\ \A i \in 1 .. Len(c) : a[i] = c[i] /\ i \in 1 .. Len(a)
    OBVIOUS
  <1>2. t \in Seq(Msgs) /\ Len(t) = Len(c) /\ \A i \in 1 .. Len(c) : t[i] = c[i].msg
    BY TextsIs
  <1>3. /\ Texts(a) \in Seq(Msgs) /\ Len(Texts(a)) = Len(a)
        /\ \A i \in 1 .. Len(a) : Texts(a)[i] = a[i].msg
    BY <1>1, TextsIs
  <1>4. m \in Msgs
    BY DEF Cell
  <1> HIDE DEF a, t, m
  <1>5. /\ Append(t, m) \in Seq(Msgs) /\ Len(Append(t, m)) = Len(c) + 1 /\ Append(t, m)[Len(c) + 1] = m
        /\ \A i \in 1 .. Len(c) : Append(t, m)[i] = t[i]
    BY <1>2, <1>4
  <1>6. \A i \in 1 .. Len(a) : Texts(a)[i] = Append(t, m)[i]
    <2> SUFFICES ASSUME NEW i \in 1 .. Len(a) PROVE Texts(a)[i] = Append(t, m)[i]
      OBVIOUS
    <2>1. CASE i = Len(c) + 1
      BY <1>1, <1>3, <1>5, <2>1 DEF m
    <2>2. CASE i # Len(c) + 1
      <3>1. i \in 1 .. Len(c)
        BY <1>1, <2>2
      <3> QED BY <1>1, <1>2, <1>3, <1>5, <3>1
    <2> QED BY <2>1, <2>2
  <1>7. Len(Texts(a)) = Len(Append(t, m))
    BY <1>1, <1>3, <1>5
  <1>8. Texts(a) = Append(t, m)
    BY <1>3, <1>5, <1>6, <1>7, SeqEqual
  <1> QED BY <1>8 DEF a, t, m

(* Taking the first cell takes the first message. *)
LEMMA TextsTail ==
  ASSUME NEW c \in Seq(Cell), c # <<>>
  PROVE  Texts(c) # <<>> /\ Texts(Tail(c)) = Tail(Texts(c)) /\ Tail(c) \in Seq(Cell)
  <1> DEFINE t == Texts(c)
             d == Tail(c)
  <1>1. Len(c) \in Nat /\ Len(c) > 0
    OBVIOUS
  <1>2. d \in Seq(Cell) /\ Len(d) = Len(c) - 1 /\ \A i \in 1 .. Len(d) : d[i] = c[i + 1]
    BY HeadTailProperties
  <1>3. t \in Seq(Msgs) /\ Len(t) = Len(c) /\ \A i \in 1 .. Len(c) : t[i] = c[i].msg
    BY TextsIs
  <1>4. Texts(d) \in Seq(Msgs) /\ Len(Texts(d)) = Len(d) /\ \A i \in 1 .. Len(d) : Texts(d)[i] = d[i].msg
    BY <1>2, TextsIs
  <1> HIDE DEF t, d
  <1>5. t # <<>>
    BY <1>1, <1>3
  <1>6. Tail(t) \in Seq(Msgs) /\ Len(Tail(t)) = Len(t) - 1 /\ \A i \in 1 .. Len(Tail(t)) : Tail(t)[i] = t[i + 1]
    BY <1>3, <1>5, HeadTailProperties
  <1>7. Len(Tail(t)) = Len(Texts(d))
    BY <1>2, <1>3, <1>4, <1>6
  <1>8. \A i \in 1 .. Len(d) : i + 1 \in 1 .. Len(c)
    BY <1>1, <1>2
  <1>9. \A i \in 1 .. Len(d) : Texts(d)[i] = c[i + 1].msg
    BY <1>2, <1>4
  <1>10. \A i \in 1 .. Len(d) : Tail(t)[i] = c[i + 1].msg
    <2> SUFFICES ASSUME NEW i \in 1 .. Len(d) PROVE Tail(t)[i] = c[i + 1].msg
      OBVIOUS
    <2>1. i \in 1 .. Len(Tail(t)) /\ i + 1 \in 1 .. Len(c)
      BY <1>4, <1>7, <1>8
    <2> QED BY <1>3, <1>6, <2>1
  <1>11. Texts(d) = Tail(t)
    <2>1. \A i \in 1 .. Len(Texts(d)) : Texts(d)[i] = Tail(t)[i]
      BY <1>4, <1>9, <1>10
    <2> QED BY <1>4, <1>6, <1>7, <2>1, SeqEqual
  <1> QED BY <1>2, <1>5, <1>11 DEF t, d

-----------------------------------------------------------------------------
(* The channels of the abstract link *)
Incoming == Cells(Rx, Unread)
Outgoing == Cells(Tx, Returned(Tx))
First == IF task.pc = "callback" THEN <<task.buf>> ELSE <<>>

(* The buffers on their way to a callback *)
LEMMA UnreadIs ==
  ASSUME TInv, RxInv
  PROVE  /\ First \in Seq(Bufs) /\ queued \in Seq(Bufs) /\ Offered(Rx) \in Seq(Bufs)
         /\ Unread = (First \o queued) \o Offered(Rx) /\ Unread \in Seq(Bufs)
         /\ \A i \in 1 .. Len(Unread) : Unread[i] \in Off(Rx) \cup Waiting \cup InHand
  <1> DEFINE o == Offered(Rx)
             fq == First \o queued
  <1>0. TypeOK /\ Rx \in Rings /\ queued \in Seq(Bufs)
    BY RingNames, TypeForms DEF TInv, Types
  <1>1. First \in Seq(Bufs) /\ \A i \in 1 .. Len(First) : First[i] \in InHand
    <2>1. CASE task.pc = "callback"
      <3>1. First = <<task.buf>> /\ task.buf \in Bufs /\ task.buf # None
        BY <2>1, Wraps DEF First, RxInv
      <3>2. \A i \in 1 .. Len(<<task.buf>>) : <<task.buf>>[i] = task.buf
        OBVIOUS
      <3>3. <<task.buf>> \in Seq(Bufs)
        BY <3>1
      <3> QED BY <3>1, <3>2, <3>3 DEF InHand
    <2>2. CASE task.pc # "callback"
      <3>1. First = <<>> /\ <<>> \in Seq(Bufs) /\ 1 .. Len(<<>>) = {}
        BY <2>2 DEF First
      <3> QED BY <3>1
    <2> QED BY <2>1, <2>2
  <1>2. \A i \in 1 .. Len(queued) : queued[i] \in Waiting
    BY DEF Waiting
  <1>3. o \in Seq(Bufs) /\ \A i \in 1 .. Len(o) : o[i] \in Off(Rx)
    <2> DEFINE ring == avail[Rx].ring
               v == vq_available_idx[Rx]
               a == avail[Rx].idx
    <2>1. ring \in [Bufs -> Bufs] /\ v \in Indices /\ a \in Indices
      BY <1>0, RingTypes
    <2>2. /\ Between(ring, v, a) \in Seq(Bufs) /\ Len(Between(ring, v, a)) = Dist(v, a)
          /\ \A i \in 1 .. Dist(v, a) : Between(ring, v, a)[i] = ring[Pos(v, i)]
      BY <2>1, BetweenIs
    <2>3. Off(Rx) = {ring[Pos(v, i)] : i \in 1 .. Dist(v, a)}
      BY DEF Off, Window
    <2>4. o = Between(ring, v, a)
      BY DEF Offered
    <2> HIDE DEF o, ring, v, a
    <2> QED BY <2>2, <2>3, <2>4
  <1>4. Unread = fq \o o
    BY DEF Unread, First
  <1> HIDE DEF o
  <1>5. /\ fq \in Seq(Bufs) /\ Len(fq) = Len(First) + Len(queued)
        /\ \A i \in 1 .. Len(First) + Len(queued) :
             fq[i] = IF i <= Len(First) THEN First[i] ELSE queued[i - Len(First)]
    BY <1>0, <1>1, ConcatProperties
  <1> HIDE DEF fq
  <1>6. /\ Unread \in Seq(Bufs) /\ Len(Unread) = Len(fq) + Len(o)
        /\ \A i \in 1 .. Len(fq) + Len(o) : Unread[i] = IF i <= Len(fq) THEN fq[i] ELSE o[i - Len(fq)]
    BY <1>3, <1>4, <1>5, ConcatProperties
  <1>7. Len(First) \in Nat /\ Len(queued) \in Nat /\ Len(o) \in Nat
    BY <1>0, <1>1, <1>3
  <1>8. \A i \in 1 .. Len(fq) : fq[i] \in Waiting \cup InHand
    <2> SUFFICES ASSUME NEW i \in 1 .. Len(fq) PROVE fq[i] \in Waiting \cup InHand
      OBVIOUS
    <2>1. CASE i <= Len(First)
      <3>1. i \in 1 .. Len(First) /\ i \in 1 .. Len(First) + Len(queued)
        BY <1>5, <1>7, <2>1
      <3> QED BY <1>1, <1>5, <2>1, <3>1
    <2>2. CASE ~(i <= Len(First))
      <3>1. i - Len(First) \in 1 .. Len(queued) /\ i \in 1 .. Len(First) + Len(queued)
        BY <1>5, <1>7, <2>2
      <3> QED BY <1>2, <1>5, <2>2, <3>1
    <2> QED BY <2>1, <2>2
  <1>9. ASSUME NEW i \in 1 .. Len(Unread)
        PROVE  Unread[i] \in Off(Rx) \cup Waiting \cup InHand
    <2>0. Len(fq) \in Nat
      BY <1>5, <1>7
    <2>1. CASE i <= Len(fq)
      <3>1. i \in 1 .. Len(fq) /\ i \in 1 .. Len(fq) + Len(o)
        BY <1>6, <1>7, <2>0, <2>1
      <3> QED BY <1>6, <1>8, <2>1, <3>1
    <2>2. CASE ~(i <= Len(fq))
      <3>1. i - Len(fq) \in 1 .. Len(o) /\ i \in 1 .. Len(fq) + Len(o)
        BY <1>6, <1>7, <2>0, <2>2
      <3> QED BY <1>3, <1>6, <2>2, <3>1
    <2> QED BY <2>1, <2>2
  <1> QED BY <1>0, <1>1, <1>3, <1>4, <1>6, <1>9 DEF o, fq

(* The channel as the content of buffers *)
LEMMA IncomingIs ==
  ASSUME TInv, RxInv
  PROVE  /\ Incoming = Held(mem[Rx], Unread) /\ mem[Rx] \in [Bufs -> Cell] /\ Unread \in Seq(Bufs)
         /\ Incoming \in Seq(Cell) /\ Len(Incoming) = Len(Unread)
  <1>1. mem[Rx] \in [Bufs -> Cell]
    BY RingNames, TypeForms DEF TInv, Types
  <1>2. Unread \in Seq(Bufs)
    BY UnreadIs
  <1>3. Incoming = Held(mem[Rx], Unread)
    BY DEF Incoming, Cells, Held
  <1> QED BY <1>1, <1>2, <1>3, HeldType

(* The buffers on their way to Linux *)
LEMMA OutgoingIs ==
  ASSUME TInv
  PROVE  /\ Outgoing = Held(mem[Tx], Returned(Tx)) /\ mem[Tx] \in [Bufs -> Cell]
         /\ Returned(Tx) \in Seq(Bufs) /\ Outgoing \in Seq(Cell)
         /\ \A i \in 1 .. Len(Returned(Tx)) : Returned(Tx)[i] \in Ret(Tx)
  <1> DEFINE ring == used[Tx].ring
             r == host.read[Tx]
             u == used[Tx].idx
             w == Returned(Tx)
  <1>1. mem[Tx] \in [Bufs -> Cell] /\ TypeOK /\ Tx \in Rings
    BY RingNames, TypeForms DEF TInv, Types
  <1>2. ring \in [Bufs -> Bufs] /\ r \in Indices /\ u \in Indices
    BY <1>1, RingTypes
  <1>3. /\ Between(ring, r, u) \in Seq(Bufs) /\ Len(Between(ring, r, u)) = Dist(r, u)
        /\ \A i \in 1 .. Dist(r, u) : Between(ring, r, u)[i] = ring[Pos(r, i)]
    BY <1>2, BetweenIs
  <1>4. w = Between(ring, r, u)
    BY DEF Returned
  <1>5. Ret(Tx) = {ring[Pos(r, i)] : i \in 1 .. Dist(r, u)}
    BY DEF Ret, Window
  <1>6. Outgoing = Held(mem[Tx], w)
    BY DEF Outgoing, Cells, Held
  <1> HIDE DEF w, ring, r, u
  <1>7. w \in Seq(Bufs) /\ \A i \in 1 .. Len(w) : w[i] \in Ret(Tx)
    BY <1>3, <1>4, <1>5
  <1> QED BY <1>1, <1>6, <1>7, HeldType DEF w

(* Slots in front of the index and behind it are none of those in between. *)
LEMMA AheadSame ==
  ASSUME NEW ring \in [Bufs -> Bufs], NEW from \in Indices, NEW to \in Indices, Dist(from, to) < N,
         NEW b \in Bufs
  PROVE  \A i \in 1 .. Dist(from, to) :
           [ring EXCEPT ![Slot(to)] = b][Pos(from, i)] = ring[Pos(from, i)]
  <1> DEFINE d == Dist(from, to)
  <1>1. d \in Nat /\ Slot(to) = Pos(from, d + 1) /\ N \in Nat /\ d + 1 \in 1 .. N
    <2>1. d \in 0 .. IdxMod - 1 /\ N \in Nat /\ IdxMod \in Nat
      BY Dists, RingAssumption
    <2>2. Slot(to) = Pos(from, d + 1)
      BY Slots
    <2> QED BY <2>1, <2>2
  <1>2. \A i \in 1 .. d : i \in 1 .. N /\ i # d + 1 /\ i \in Nat \ {0}
    BY <1>1
  <1>3. \A i \in 1 .. d : Pos(from, i) \in Bufs /\ Pos(from, i) # Slot(to)
    BY <1>1, <1>2, Slots
  <1> HIDE DEF d
  <1> QED BY <1>3 DEF d

(* Taking the first entry of a ring leaves those behind it alone. *)
LEMMA BehindSame ==
  ASSUME NEW ring \in [Bufs -> Bufs], NEW from \in Indices, NEW to \in Indices, from # to,
         Dist(from, to) <= N
  PROVE  \A i \in 1 .. Dist(Inc(from), to) :
           [ring EXCEPT ![Slot(from)] = 0][Pos(Inc(from), i)] = ring[Pos(Inc(from), i)]
  <1> DEFINE d == Dist(from, to)
  <1>1. /\ d \in Nat /\ Dist(Inc(from), to) = d - 1 /\ Slot(from) = Pos(from, 1) /\ d >= 1
        /\ N \in Nat /\ 1 \in 1 .. N
    BY Dists, Slots, RingAssumption DEF Indices
  <1>2. \A i \in 1 .. d - 1 : i + 1 \in 1 .. N /\ i + 1 # 1 /\ i \in Nat \ {0} /\ i + 1 \in Nat \ {0}
    BY <1>1
  <1>3. \A i \in 1 .. d - 1 : Pos(Inc(from), i) = Pos(from, i + 1) /\ Pos(from, i + 1) # Pos(from, 1)
    BY <1>1, <1>2, Slots
  <1>4. \A i \in 1 .. d - 1 : Pos(Inc(from), i) # Slot(from) /\ Pos(Inc(from), i) \in Bufs
    BY <1>1, <1>2, <1>3, Slots, Wraps
  <1> HIDE DEF d
  <1> QED BY <1>1, <1>4

(* The same after a step *)
LEMMA NextIncoming ==
  /\ Incoming' = Held(mem'[Rx], Unread')
  /\ Unread' = (First' \o queued') \o Offered(Rx)'
  /\ Offered(Rx) = Between(avail[Rx].ring, vq_available_idx[Rx], avail[Rx].idx)
  /\ Offered(Rx)' = Between(avail'[Rx].ring, vq_available_idx'[Rx], avail'[Rx].idx)
  /\ Outgoing' = Held(mem'[Tx], Returned(Tx)')
  /\ Returned(Tx) = Between(used[Tx].ring, host.read[Tx], used[Tx].idx)
  /\ Returned(Tx)' = Between(used'[Tx].ring, host'.read[Tx], used'[Tx].idx)
  <1>1. Incoming' = Held(mem'[Rx], Unread') /\ Outgoing' = Held(mem'[Tx], Returned(Tx)')
    BY DEF Incoming, Outgoing, Cells, Held
  <1>2. Unread' = (First' \o queued') \o Offered(Rx)'
    BY DEF Unread, First
  <1> QED BY <1>1, <1>2 DEF Offered, Returned

(* The same buffers with the same content *)
LEMMA IncomingSame ==
  ASSUME TInv, RxInv, TypeOK', Unread' = Unread,
         \A b \in Off(Rx) \cup Waiting \cup InHand : mem'[Rx][b] = mem[Rx][b]
  PROVE  Incoming' = Incoming
  <1>1. mem'[Rx] \in [Bufs -> Cell]
    BY RingNames, TypeForms DEF Types
  <1>2. mem[Rx] \in [Bufs -> Cell] /\ Unread \in Seq(Bufs) /\ Incoming = Held(mem[Rx], Unread)
    BY IncomingIs
  <1>3. \A i \in 1 .. Len(Unread) : mem'[Rx][Unread[i]] = mem[Rx][Unread[i]]
    BY UnreadIs
  <1>4. Held(mem'[Rx], Unread) = Held(mem[Rx], Unread)
    BY <1>1, <1>2, <1>3, HeldSame
  <1> QED BY <1>2, <1>4, NextIncoming

(* rpmsg_lite_rx_callback passes a buffer on to a queue, or hands it back,  *)
(* which drops a message that no endpoint waits for.                        *)
LEMMA RxTakeLink ==
  ASSUME TInv, RxInv, ServeInv, TypeOK', NEW c \in Contexts, RxTake(c)
  PROVE  \/ Incoming' = Incoming
         \/ \E d \in 1 .. Len(Incoming) :
              Incoming[d].ept \notin Endpoints /\ Incoming' = Without(Incoming, d)
  <1> DEFINE v == vq_available_idx[Rx]
             a == avail[Rx].idx
             ring == avail[Rx].ring
             b == ring[Slot(v)]
             held == mem[Rx][b].ept \in Endpoints
             o == Between(ring, Inc(v), a)
             fq == First \o queued
  <1>0. /\ TypeOK /\ Rx \in Rings /\ ring \in [Bufs -> Bufs] /\ v \in Indices /\ a \in Indices
        /\ vq_available_idx \in [Rings -> Indices]
    BY RingNames, RingTypes, TypeForms DEF TInv, Types
  <1>1. rx[c].pc = "got" /\ rx[c].head = v /\ v # a
    BY DEF RxTake, ServeInv
  <1>2. /\ vq_available_idx' = [vq_available_idx EXCEPT ![Rx] = Inc(v)]
        /\ queued' = IF held THEN Append(queued, b) ELSE queued
        /\ UNCHANGED <<avail, mem, task>>
    BY <1>1 DEF RxTake
  <1>3. vq_available_idx'[Rx] = Inc(v)
    BY <1>0, <1>2
  <1>4. Between(ring, v, a) = <<b>> \o o /\ b \in Bufs /\ o \in Seq(Bufs)
    BY <1>0, <1>1, BetweenTake
  <1>5. Offered(Rx) = <<b>> \o o /\ Offered(Rx)' = o
    BY <1>2, <1>3, <1>4, NextIncoming
  <1>6. First' = First
    BY <1>2 DEF First
  <1>7. /\ First \in Seq(Bufs) /\ queued \in Seq(Bufs) /\ Unread = (First \o queued) \o Offered(Rx)
        /\ Unread' = (First' \o queued') \o Offered(Rx)'
    BY UnreadIs, NextIncoming
  <1>8. mem' = mem
    BY <1>2
  <1> HIDE DEF b, o, ring, v, a
  <1>9. CASE held
    <2>1. Unread' = (First \o Append(queued, b)) \o o /\ Unread = (First \o queued) \o (<<b>> \o o)
      BY <1>2, <1>5, <1>6, <1>7, <1>9
    <2>2. Unread' = Unread
      <3>1. (First \o Append(queued, b)) \o o = (First \o queued) \o (<<b>> \o o)
        <4>1. First \in Seq(Bufs) /\ queued \in Seq(Bufs) /\ o \in Seq(Bufs) /\ b \in Bufs
          BY <1>4, <1>7
        <4> HIDE DEF fq
        <4>2. Append(queued, b) = queued \o <<b>> /\ <<b>> \in Seq(Bufs)
          BY <4>1, AppendIsConcat
        <4>3. First \o (queued \o <<b>>) = (First \o queued) \o <<b>> /\ First \o queued \in Seq(Bufs)
          BY <4>1, <4>2, ConcatAssociative, ConcatProperties
        <4>4. ((First \o queued) \o <<b>>) \o o = (First \o queued) \o (<<b>> \o o)
          BY <4>1, <4>2, <4>3, ConcatAssociative
        <4> QED BY ONLY <4>2, <4>3, <4>4
      <3> HIDE DEF fq
      <3> QED BY <2>1, <3>1
    <2> QED BY <1>8, <2>2, IncomingSame
  <1>10. CASE ~held
    <2> DEFINE d == Len(fq) + 1
    <2>1. Unread' = fq \o o /\ Unread = fq \o (<<b>> \o o) /\ fq \in Seq(Bufs)
      <3>1. fq \in Seq(Bufs)
        BY <1>7, ConcatProperties
      <3>2. queued' = queued
        BY <1>2, <1>10
      <3> QED BY <1>5, <1>6, <1>7, <3>1, <3>2
    <2> HIDE DEF fq
    <2>2. /\ mem[Rx] \in [Bufs -> Cell] /\ Incoming = Held(mem[Rx], Unread)
          /\ Incoming' = Held(mem[Rx], Unread') /\ Len(Incoming) = Len(Unread)
      BY <1>8, IncomingIs, NextIncoming
    <2>3. /\ d \in 1 .. Len(Unread) /\ Held(mem[Rx], Unread)[d] = mem[Rx][b]
          /\ Held(mem[Rx], Unread') = Without(Held(mem[Rx], Unread), d)
      BY <1>4, <2>1, <2>2, HeldWithout
    <2> HIDE DEF d
    <2>4. /\ d \in 1 .. Len(Incoming) /\ Incoming[d].ept \notin Endpoints
          /\ Incoming' = Without(Incoming, d)
      BY <1>10, <2>2, <2>3
    <2> QED BY <2>4
  <1> QED BY <1>9, <1>10

(* Taking a message out of a queue *)
LEMMA SelectLink ==
  ASSUME TInv, RxInv, TypeOK', Select
  PROVE  Incoming' = Incoming
  <1> USE DEF rings, locking, signals
  <1>1. /\ task.pc = "select" /\ queued # <<>> /\ task' = [pc |-> "callback", buf |-> Head(queued)]
        /\ queued' = Tail(queued) /\ UNCHANGED <<avail, vq_available_idx, mem>>
    BY DEF Select
  <1>2. First = <<>> /\ First' = <<Head(queued)>> /\ Offered(Rx)' = Offered(Rx)
    BY <1>1, NextIncoming DEF First
  <1>3. /\ queued \in Seq(Bufs) /\ Unread = (First \o queued) \o Offered(Rx)
        /\ Unread' = (First' \o queued') \o Offered(Rx)'
    BY UnreadIs, NextIncoming
  <1>4. <<>> \o queued = queued /\ queued = <<Head(queued)>> \o Tail(queued)
    <2>1. 0 \in Bufs /\ <<>> \in Seq(Bufs)
      BY Wraps
    <2> QED BY <1>1, <1>3, <2>1, Joins
  <1>5. Unread' = Unread
    BY <1>1, <1>2, <1>3, <1>4
  <1> QED BY <1>1, <1>5, IncomingSame

(* A callback gets the oldest message. *)
LEMMA CallbackLink ==
  ASSUME TInv, RxInv, oblfr_process_queue
  PROVE  Len(Incoming) > 0 /\ Incoming' = Without(Incoming, 1)
  <1> USE DEF rings, locking, signals
  <1> DEFINE b == task.buf
             r == queued \o Offered(Rx)
  <1>1. /\ task.pc = "callback" /\ task' = [task EXCEPT !.pc = "release"]
        /\ UNCHANGED <<avail, vq_available_idx, mem, queued>>
    BY DEF oblfr_process_queue
  <1>2. task \in TaskRec /\ b \in Bufs
    BY <1>1, TypeForms DEF RxInv, TInv, Types
  <1>3. First = <<b>> /\ First' = <<>> /\ Offered(Rx)' = Offered(Rx)
    BY <1>1, <1>2, NextIncoming DEF First, TaskRec
  <1>4. /\ queued \in Seq(Bufs) /\ Offered(Rx) \in Seq(Bufs) /\ Unread = (First \o queued) \o Offered(Rx)
        /\ Unread' = (First' \o queued') \o Offered(Rx)'
    BY UnreadIs, NextIncoming
  <1> HIDE DEF b
  <1>5. <<>> \in Seq(Bufs) /\ <<b>> \in Seq(Bufs)
    BY <1>2
  <1>6. Unread = <<b>> \o r /\ Unread' = r /\ r \in Seq(Bufs)
    <2>1. (<<b>> \o queued) \o Offered(Rx) = <<b>> \o r /\ r \in Seq(Bufs) /\ <<>> \o queued = queued
      BY <1>2, <1>4, <1>5, Joins
    <2> QED BY <1>1, <1>3, <1>4, <2>1
  <1> HIDE DEF r
  <1>7. <<>> \o (<<b>> \o r) = <<b>> \o r /\ <<>> \o r = r
    <2>1. <<b>> \o r \in Seq(Bufs)
      BY <1>5, <1>6, ConcatProperties
    <2> QED BY <1>6, <2>1, ConcatEmptySeq
  <1>8. /\ mem[Rx] \in [Bufs -> Cell] /\ Incoming = Held(mem[Rx], Unread)
        /\ Incoming' = Held(mem[Rx], Unread') /\ Len(Incoming) = Len(Unread)
    BY <1>1, IncomingIs, NextIncoming
  <1>9. LET u == <<>> \o (<<b>> \o r)
            d == Len(<<>>) + 1
        IN  d \in 1 .. Len(u) /\ Held(mem[Rx], <<>> \o r) = Without(Held(mem[Rx], u), d)
    BY <1>2, <1>5, <1>6, <1>8, HeldWithout
  <1>10. Len(<<>>) + 1 = 1
    OBVIOUS
  <1>11. 1 \in 1 .. Len(Unread) /\ Held(mem[Rx], Unread') = Without(Held(mem[Rx], Unread), 1)
    BY <1>6, <1>7, <1>9, <1>10
  <1>12. Len(Unread) \in Nat
    BY <1>4, UnreadIs
  <1> QED BY <1>8, <1>11, <1>12

(* Linux sends: the message goes behind all others. *)
LEMMA HostSendLink ==
  ASSUME TInv, RxInv, HostSend
  PROVE  \E e \in Endpoints \cup {NoEndpoint}, m \in Msgs :
           Incoming' = Append(Incoming, [ept |-> e, msg |-> m])
  <1> USE DEF rings, locking, signals
  <1> DEFINE v == vq_available_idx[Rx]
             a == avail[Rx].idx
             ring == avail[Rx].ring
  <1>0. /\ TypeOK /\ Rx \in Rings /\ host \in HostRec /\ Once(Rx)
        /\ avail \in [Rings -> RingRec] /\ mem \in [Rings -> [Bufs -> Cell]]
        /\ ring \in [Bufs -> Bufs] /\ v \in Indices /\ a \in Indices
    BY RingNames, RingTypes, TypeForms DEF TInv, Types, RxInv
  <1>1. PICK b \in host.free, m \in Msgs, e \in Endpoints \cup {NoEndpoint} :
          /\ mem' = [mem EXCEPT ![Rx][b] = [ept |-> e, msg |-> m]]
          /\ avail' = [avail EXCEPT ![Rx] = [ring |-> [@.ring EXCEPT ![Slot(avail[Rx].idx)] = b],
                                             idx |-> Inc(@.idx)]]
          /\ UNCHANGED <<vq_available_idx, queued, task>>
    BY DEF HostSend
  <1> DEFINE new == [ring EXCEPT ![Slot(a)] = b]
             x == [ept |-> e, msg |-> m]
  <1>2. b \in Bufs /\ x \in Cell
    BY <1>0 DEF HostRec, Cell
  <1>3. avail'[Rx].ring = new /\ avail'[Rx].idx = Inc(a) /\ vq_available_idx'[Rx] = v
    BY <1>0, <1>1
  <1>4. b \notin Off(Rx) /\ b \notin Waiting /\ b \notin InHand
    <2>1. b \in Away
      BY DEF Away
    <2> QED BY <2>1 DEF RxInv
  <1>5. Distinct(ring, v, a) /\ b \notin Window(ring, v, a)
    BY <1>4 DEF RxInv, Once, Off
  <1>6. Dist(v, a) < N
    BY <1>0, <1>2, <1>5, RingHolds
  <1>7. \A i \in 1 .. Dist(v, a) : new[Pos(v, i)] = ring[Pos(v, i)]
    BY <1>0, <1>2, <1>6, AheadSame
  <1>8. new \in [Bufs -> Bufs] /\ new[Slot(a)] = b
    BY <1>0, <1>2, Wraps
  <1>9. mem'[Rx] \in [Bufs -> Cell] /\ mem'[Rx][b] = x /\ \A y \in Bufs : y # b => mem'[Rx][y] = mem[Rx][y]
    <2>1. mem'[Rx] = [mem[Rx] EXCEPT ![b] = x] /\ mem[Rx] \in [Bufs -> Cell]
      BY <1>0, <1>1
    <2> HIDE DEF x
    <2> QED BY <1>2, <2>1
  <1> HIDE DEF new, x
  <1>10. Offered(Rx)' = Append(Offered(Rx), b)
    <2>1. Between(new, v, Inc(a)) = Append(Between(new, v, a), b)
      BY <1>0, <1>6, <1>8, BetweenAdd
    <2>2. Between(new, v, a) = Between(ring, v, a)
      BY <1>7, BetweenSame
    <2> QED BY <1>3, <2>1, <2>2, NextIncoming
  <1>11. First' = First
    BY <1>1 DEF First
  <1>12. /\ First \in Seq(Bufs) /\ queued \in Seq(Bufs) /\ Offered(Rx) \in Seq(Bufs)
         /\ Unread = (First \o queued) \o Offered(Rx) /\ Unread' = (First' \o queued') \o Offered(Rx)'
         /\ Unread \in Seq(Bufs)
    BY UnreadIs, NextIncoming
  <1>13. Unread' = Append(Unread, b)
    BY <1>1, <1>2, <1>10, <1>11, <1>12, Joins
  <1>14. \A i \in 1 .. Len(Unread) : mem'[Rx][Unread[i]] = mem[Rx][Unread[i]]
    <2> SUFFICES ASSUME NEW i \in 1 .. Len(Unread) PROVE mem'[Rx][Unread[i]] = mem[Rx][Unread[i]]
      OBVIOUS
    <2>1. Unread[i] \in Off(Rx) \cup Waiting \cup InHand /\ Unread[i] \in Bufs
      BY <1>12, UnreadIs, LenProperties
    <2> QED BY <1>4, <1>9, <2>1
  <1>15. Held(mem'[Rx], Append(Unread, b)) = Append(Held(mem[Rx], Unread), mem'[Rx][b])
    <2>1. mem[Rx] \in [Bufs -> Cell] /\ mem'[Rx] \in [Bufs -> Cell]
      BY <1>0, <1>9
    <2>2. Unread \in Seq(Bufs) /\ b \in Bufs
      BY <1>2, <1>12
    <2> QED BY ONLY <2>1, <2>2, <1>14, HeldAppend
  <1>16. Incoming' = Append(Incoming, x)
    BY <1>9, <1>13, <1>15, IncomingIs, NextIncoming
  <1> QED BY <1>16 DEF x

-----------------------------------------------------------------------------
(* What Linux reads is what the sender was given: the buffer in the used    *)
(* ring is filled before it is published.                                   *)
FillInv == \A s \in Senders : sender[s].pc = "publish" => mem[Tx][sender[s].buf].msg = sender[s].msg

(* Nobody writes into the buffer of a sender. *)
LEMMA FillKept ==
  ASSUME TxInv, FillInv, sender' = sender, \A b \in Owned : mem'[Tx][b] = mem[Tx][b]
  PROVE  FillInv'
  <1> SUFFICES ASSUME NEW s \in Senders, sender[s].pc = "publish"
               PROVE  mem'[Tx][sender[s].buf].msg = sender[s].msg
    BY DEF FillInv
  <1>1. sender[s].buf \in Bufs /\ sender[s].buf # None
    BY Wraps DEF TxInv
  <1>2. sender[s].buf \in Owned
    BY <1>1 DEF Owned
  <1> QED BY <1>2 DEF FillInv

(* The other ring's buffers are others. *)
LEMMA MemOther ==
  ASSUME TypeOK, NEW p \in Rings, NEW q \in Rings, p # q, NEW b, NEW x,
         mem' = [mem EXCEPT ![q][b] = x]
  PROVE  mem'[p] = mem[p] /\ mem'[q] = [mem[q] EXCEPT ![b] = x]
  <1>1. mem \in [Rings -> [Bufs -> Cell]]
    BY TypeForms DEF Types
  <1> QED BY <1>1

(* A sender fills its buffer before it publishes it. *)
LEMMA SenderFill ==
  ASSUME TInv, TxInv, FillInv, NEW s \in Senders, rpmsg_lite_send(s) \/ Sender(s)
  PROVE  FillInv'
  <1> USE DEF rings, locking, signals
  <1>0. sender \in [Senders -> SenderRec] /\ sender[s] \in SenderRec /\ mem \in [Rings -> [Bufs -> Cell]]
    BY TypeForms DEF TInv, Types
  <1>1. ASSUME mem' = mem, \A x \in Senders : x # s => sender'[x] = sender[x], sender'[s].pc # "publish"
        PROVE  FillInv'
    BY <1>1 DEF FillInv
  <1>2. CASE rpmsg_lite_send(s)
    BY <1>0, <1>1, <1>2 DEF rpmsg_lite_send
  <1>3. CASE Alloc(s)
    <2>1. mem' = mem /\ \A x \in Senders : x # s => sender'[x] = sender[x]
      BY <1>0, <1>3 DEF Alloc
    <2>2. sender'[s].pc = "alloced"
      <3>1. CASE Empty(Tx)
        <4>1. sender' = [sender EXCEPT ![s].pc = "alloced"]
          BY <1>3, <3>1 DEF Alloc
        <4> QED BY <1>0, <4>1 DEF SenderRec
      <3>2. CASE ~Empty(Tx)
        <4>1. sender' = [sender EXCEPT ![s].pc = "alloced",
                                       ![s].buf = avail[Tx].ring[Slot(vq_available_idx[Tx])]]
          BY <1>3, <3>2 DEF Alloc
        <4> QED BY <1>0, <4>1 DEF SenderRec
      <3> QED BY <3>1, <3>2
    <2> QED BY <1>1, <2>1, <2>2
  <1>4. CASE Alloced(s)
    <2>1. mem' = mem /\ sender' = [sender EXCEPT ![s] = Tried(sender[s])]
      BY <1>4 DEF Alloced
    <2>2. Tried(sender[s]).pc # "publish"
      <3>1. CASE sender[s].buf # None
        BY <1>0, <3>1 DEF Tried, SenderRec
      <3>2. CASE sender[s].buf = None /\ sender[s].left = 0
        BY <3>2, Blanks DEF Tried
      <3>3. CASE sender[s].buf = None /\ sender[s].left # 0
        BY <1>0, <3>3 DEF Tried, SenderRec
      <3> QED BY <3>1, <3>2, <3>3
    <2>3. sender'[s] = Tried(sender[s]) /\ \A x \in Senders : x # s => sender'[x] = sender[x]
      BY <1>0, <2>1
    <2> QED BY <1>1, <2>1, <2>2, <2>3
  <1>5. CASE Enqueue(s)
    <2> DEFINE b == sender[s].buf
               m == sender[s].msg
    <2>1. /\ sender[s].pc = "fill" /\ b \in Bufs /\ b # None
          /\ mem' = [mem EXCEPT ![Tx][b].msg = m] /\ sender' = [sender EXCEPT ![s].pc = "publish"]
      BY <1>5, Wraps DEF Enqueue, TInv, BufferInv
    <2>2. /\ sender'[s].pc = "publish" /\ sender'[s].buf = b /\ sender'[s].msg = m
          /\ \A x \in Senders : x # s => sender'[x] = sender[x]
      BY <1>0, <2>1 DEF SenderRec
    <2>3. mem'[Tx][b].msg = m /\ \A y \in Bufs : y # b => mem'[Tx][y] = mem[Tx][y]
      <3>1. Tx \in Rings /\ mem[Tx] \in [Bufs -> Cell] /\ mem[Tx][b] \in Cell
        BY <1>0, <2>1, RingNames
      <3>2. mem'[Tx] = [mem[Tx] EXCEPT ![b] = [mem[Tx][b] EXCEPT !.msg = m]]
        BY <1>0, <2>1, <3>1
      <3>3. [mem[Tx][b] EXCEPT !.msg = m].msg = m
        BY <3>1 DEF Cell
      <3> QED BY <2>1, <3>1, <3>2, <3>3
    <2>4. \A x \in Senders : x # s /\ sender[x].pc = "publish" => sender[x].buf \in Bufs /\ sender[x].buf # b
      BY <2>1 DEF TxInv
    <2> HIDE DEF b, m
    <2> QED BY <2>2, <2>3, <2>4 DEF FillInv
  <1>6. CASE Publish(s)
    <2>1. sender' = [sender EXCEPT ![s] = [Idle EXCEPT !.pc = "sent"]] /\ mem' = mem
      BY <1>6 DEF Publish
    <2>2. sender'[s].pc = "sent" /\ \A x \in Senders : x # s => sender'[x] = sender[x]
      BY <1>0, <2>1, Blanks
    <2> QED BY <1>1, <2>1, <2>2
  <1>7. CASE Sent(s)
    <2>1. sender' = [sender EXCEPT ![s] = Idle] /\ mem' = mem
      BY <1>7 DEF Sent
    <2>2. sender'[s].pc = "idle" /\ \A x \in Senders : x # s => sender'[x] = sender[x]
      BY <1>0, <2>1, Blanks
    <2> QED BY <1>1, <2>1, <2>2
  <1> QED BY <1>2, <1>3, <1>4, <1>5, <1>6, <1>7 DEF Sender

(* No step but the sender's own touches a buffer between its filling and    *)
(* its publication.                                                         *)
LEMMA NextFill ==
  ASSUME PlaceInv, FillInv, [Next]_vars
  PROVE  FillInv'
  <1> USE DEF rings, locking, signals
  <1>0. TInv /\ TypeOK /\ TxInv /\ Tx \in Rings /\ Rx \in Rings /\ Tx # Rx
    BY RingNames DEF PlaceInv, LInv, TInv
  <1>1. CASE UNCHANGED vars
    BY <1>0, <1>1, FillKept DEF vars
  <1>2. ASSUME NEW s \in Senders, rpmsg_lite_send(s) \/ Sender(s)
        PROVE  FillInv'
    BY <1>0, <1>2, SenderFill
  <1>3. CASE (\E c \in Contexts : Receive(c)) \/ platform_isr_handle
    <2>1. mem' = mem /\ sender' = sender
      BY <1>3 DEF Receive, RxPeek, RxTake, RxDone, platform_isr_handle
    <2> QED BY <1>0, <2>1, FillKept
  <1>4. CASE Task
    <2>1. mem' = mem /\ sender' = sender
      BY <1>4 DEF Task, Select, Poll, oblfr_process_queue, rpmsg_lite_release_rx_buffer, ReleasePublish, Released
    <2> QED BY <1>0, <2>1, FillKept
  <1>5. CASE HostSignal \/ HostDone
    <2>1. mem' = mem /\ sender' = sender
      BY <1>5 DEF HostSignal, HostDone
    <2> QED BY <1>0, <2>1, FillKept
  <1>6. CASE HostReceive
    <2> DEFINE b == used[Tx].ring[Slot(host.read[Tx])]
    <2>1. mem' = [mem EXCEPT ![Tx][b] = Blank] /\ sender' = sender /\ host.read[Tx] # used[Tx].idx
      BY <1>6 DEF HostReceive
    <2>2. b \in Ret(Tx)
      <3>1. used[Tx].ring \in [Bufs -> Bufs] /\ host.read[Tx] \in Indices /\ used[Tx].idx \in Indices
        BY <1>0, RingTypes
      <3>2. Distinct(used[Tx].ring, host.read[Tx], used[Tx].idx)
        BY <1>0 DEF TxInv, Once
      <3>3. b \in Window(used[Tx].ring, host.read[Tx], used[Tx].idx)
        BY <2>1, <3>1, <3>2, TakeFirst
      <3> HIDE DEF b
      <3> QED BY <3>3 DEF Ret
    <2> HIDE DEF b
    <2>3. mem'[Tx] = [mem[Tx] EXCEPT ![b] = Blank]
      <3>1. mem \in [Rings -> [Bufs -> Cell]]
        BY <1>0, TypeForms DEF Types
      <3> QED BY <1>0, <2>1, <3>1
    <2>4. mem[Tx] \in [Bufs -> Cell] /\ b \notin Owned /\ Owned \subseteq Bufs
      <3>1. mem[Tx] \in [Bufs -> Cell]
        BY <1>0, OutgoingIs
      <3> QED BY <1>0, <2>2, <3>1 DEF TxInv
    <2>5. \A y \in Owned : mem'[Tx][y] = mem[Tx][y]
      BY <2>3, <2>4
    <2> QED BY <1>0, <2>1, <2>5, FillKept
  <1>7. CASE HostReclaim
    <2> DEFINE b == used[Rx].ring[Slot(host.read[Rx])]
    <2>1. mem' = [mem EXCEPT ![Rx][b] = Blank] /\ sender' = sender
      BY <1>7 DEF HostReclaim
    <2> HIDE DEF b
    <2>2. mem'[Tx] = mem[Tx]
      BY <1>0, <2>1, MemOther
    <2> QED BY <1>0, <2>1, <2>2, FillKept
  <1>8. CASE HostSend
    <2>1. PICK b \in host.free, m \in Msgs, e \in Endpoints \cup {NoEndpoint} :
            mem' = [mem EXCEPT ![Rx][b] = [ept |-> e, msg |-> m]] /\ sender' = sender
      BY <1>8 DEF HostSend
    <2>2. mem'[Tx] = mem[Tx]
      BY <1>0, <2>1, MemOther
    <2> QED BY <1>0, <2>1, <2>2, FillKept
  <1> QED BY <1>1, <1>2, <1>3, <1>4, <1>5, <1>6, <1>7, <1>8 DEF Next, Host

(* Taking the first element out *)
LEMMA WithoutFirst ==
  ASSUME NEW c \in Seq(Cell), Len(c) > 0
  PROVE  c # <<>> /\ Without(c, 1) = Tail(c)
  <1>1. c # <<>> /\ Len(c) \in Nat /\ 1 \in 1 .. Len(c)
    OBVIOUS
  <1>2. Tail(c) \in Seq(Cell) /\ Len(Tail(c)) = Len(c) - 1 /\ \A i \in 1 .. Len(Tail(c)) : Tail(c)[i] = c[i + 1]
    BY <1>1, HeadTailProperties
  <1> DEFINE t == Tail(c)
             w == Without(c, 1)
  <1>3. /\ w \in Seq(Cell) /\ Len(w) = Len(c) - 1 /\ Len(c) - 1 \in Nat
        /\ \A i \in 1 .. Len(c) - 1 : ~(i < 1) => w[i] = c[i + 1]
    BY <1>1, WithoutType
  <1>4. t \in Seq(Cell) /\ Len(t) = Len(c) - 1 /\ \A i \in 1 .. Len(t) : t[i] = c[i + 1]
    BY <1>2
  <1> HIDE DEF t, w
  <1>5. \A i \in 1 .. Len(w) : w[i] = t[i]
    BY <1>1, <1>3, <1>4
  <1>6. w = t
    <2>1. Len(w) = Len(t)
      BY <1>3, <1>4
    <2> QED BY <1>3, <1>4, <1>5, <2>1, SeqEqual
  <1> QED BY <1>1, <1>6 DEF t, w

(* The same buffers handed back with the same content *)
LEMMA OutgoingSame ==
  ASSUME TInv, TypeOK', Returned(Tx)' = Returned(Tx), \A b \in Ret(Tx) : mem'[Tx][b] = mem[Tx][b]
  PROVE  Outgoing' = Outgoing
  <1>1. mem'[Tx] \in [Bufs -> Cell]
    BY RingNames, TypeForms DEF Types
  <1>2. mem[Tx] \in [Bufs -> Cell] /\ Returned(Tx) \in Seq(Bufs) /\ Outgoing = Held(mem[Tx], Returned(Tx))
    BY OutgoingIs
  <1>3. \A i \in 1 .. Len(Returned(Tx)) : mem'[Tx][Returned(Tx)[i]] = mem[Tx][Returned(Tx)[i]]
    BY OutgoingIs
  <1>4. Held(mem'[Tx], Returned(Tx)) = Held(mem[Tx], Returned(Tx))
    BY <1>1, <1>2, <1>3, HeldSame
  <1> QED BY <1>2, <1>4, NextIncoming

(* Filling and enqueueing a buffer changes nothing Linux has not read yet. *)
LEMMA EnqueueLink ==
  ASSUME LInv, TxInv, TypeOK', NEW s \in Senders, Enqueue(s)
  PROVE  Outgoing' = Outgoing
  <1> USE DEF rings, locking, signals
  <1> DEFINE ring == used[Tx].ring
             r == host.read[Tx]
             u == used[Tx].idx
             b == sender[s].buf
             new == [ring EXCEPT ![Slot(u)] = b]
  <1>0. /\ TInv /\ TypeOK /\ Tx \in Rings /\ ring \in [Bufs -> Bufs] /\ r \in Indices /\ u \in Indices
        /\ mem \in [Rings -> [Bufs -> Cell]]
    BY RingNames, RingTypes, TypeForms DEF LInv, TInv, Types
  <1>1. /\ b \in Bufs /\ b # None /\ used' = PutUsed(Tx, b) /\ host' = host
        /\ mem' = [mem EXCEPT ![Tx][b].msg = sender[s].msg]
    BY <1>0, Wraps DEF Enqueue, TInv, BufferInv
  <1>2. used'[Tx].ring = new /\ used'[Tx].idx = u
    BY <1>0, <1>1, UsedSteps
  <1>3. b \notin Ret(Tx) /\ Ret(Tx) \subseteq Bufs
    <2>1. b \in Owned
      BY <1>1 DEF Owned
    <2> QED BY <2>1 DEF TxInv
  <1>4. Distinct(ring, r, u) /\ b \notin Window(ring, r, u)
    BY <1>3 DEF TxInv, Ret, Once
  <1>5. Dist(r, u) < N
    BY <1>0, <1>1, <1>4, RingHolds
  <1>6. Between(new, r, u) = Between(ring, r, u)
    <2>1. \A i \in 1 .. Dist(r, u) : new[Pos(r, i)] = ring[Pos(r, i)]
      <3>1. ring \in [Bufs -> Bufs] /\ r \in Indices /\ u \in Indices /\ b \in Bufs /\ Dist(r, u) < N
        BY <1>0, <1>1, <1>5
      <3> HIDE DEF ring, r, u, b
      <3> QED BY ONLY <3>1, AheadSame DEF new
    <2> HIDE DEF new, ring, r, u
    <2> QED BY <2>1, BetweenSame
  <1>7. Returned(Tx)' = Returned(Tx)
    <2>1. /\ Returned(Tx)' = Between(used'[Tx].ring, host'.read[Tx], used'[Tx].idx)
          /\ Returned(Tx) = Between(ring, r, u)
      BY NextIncoming
    <2> HIDE DEF new
    <2> QED BY <1>1, <1>2, <1>6, <2>1
  <1>8. \A y \in Ret(Tx) : mem'[Tx][y] = mem[Tx][y]
    <2>1. \A y \in Bufs : y # b => mem'[Tx][y] = mem[Tx][y]
      BY <1>0, <1>1
    <2> QED BY <1>3, <2>1
  <1> QED BY <1>0, <1>7, <1>8, OutgoingSame

(* Publishing puts the sender's message behind all others. *)
LEMMA PublishLink ==
  ASSUME TInv, TxInv, FillInv, NEW s \in Senders, Publish(s)
  PROVE  \E x \in Cell : x.msg = sender[s].msg /\ Outgoing' = Append(Outgoing, x)
  <1> USE DEF rings, locking, signals
  <1> DEFINE ring == used[Tx].ring
             r == host.read[Tx]
             u == used[Tx].idx
             b == sender[s].buf
  <1>0. TypeOK /\ Tx \in Rings /\ ring \in [Bufs -> Bufs] /\ r \in Indices /\ u \in Indices
    BY RingNames, RingTypes DEF TInv
  <1>1. sender[s].pc = "publish" /\ used' = PublishUsed(Tx) /\ host' = host /\ mem' = mem
    BY DEF Publish
  <1>2. b \in Bufs /\ b # None /\ ring[Slot(u)] = b
    BY <1>1, Wraps DEF TxInv
  <1>3. used'[Tx].ring = ring /\ used'[Tx].idx = Inc(u)
    BY <1>0, <1>1, <1>2, UsedSteps
  <1>4. b \notin Ret(Tx)
    <2>1. b \in Owned
      BY <1>2 DEF Owned
    <2> QED BY <2>1 DEF TxInv
  <1>5. Distinct(ring, r, u) /\ b \notin Window(ring, r, u)
    BY <1>4 DEF TxInv, Ret, Once
  <1>6. Dist(r, u) < N
    BY <1>0, <1>2, <1>5, RingHolds
  <1>7. Between(ring, r, Inc(u)) = Append(Between(ring, r, u), b)
    BY <1>0, <1>2, <1>6, BetweenAdd
  <1>8. Returned(Tx)' = Append(Returned(Tx), b)
    <2>1. /\ Returned(Tx)' = Between(used'[Tx].ring, host'.read[Tx], used'[Tx].idx)
          /\ Returned(Tx) = Between(ring, r, u)
      BY NextIncoming
    <2> QED BY <1>1, <1>3, <1>7, <2>1
  <1>9. /\ mem[Tx] \in [Bufs -> Cell] /\ Returned(Tx) \in Seq(Bufs)
        /\ Outgoing = Held(mem[Tx], Returned(Tx)) /\ Outgoing' = Held(mem[Tx], Returned(Tx)')
    BY <1>1, OutgoingIs, NextIncoming
  <1> HIDE DEF b, ring, r, u
  <1>10. Held(mem[Tx], Append(Returned(Tx), b)) = Append(Held(mem[Tx], Returned(Tx)), mem[Tx][b])
    BY ONLY <1>2, <1>9, HeldAppend
  <1>11. mem[Tx][b] \in Cell /\ mem[Tx][b].msg = sender[s].msg
    BY <1>1, <1>2, <1>9 DEF FillInv, b
  <1> QED BY <1>8, <1>9, <1>10, <1>11

(* Linux reads the oldest message. *)
LEMMA HostReceiveLink ==
  ASSUME TInv, TxInv, TypeOK', HostReceive
  PROVE  Outgoing # <<>> /\ Outgoing' = Tail(Outgoing)
  <1> USE DEF rings, locking, signals
  <1> DEFINE ring == used[Tx].ring
             r == host.read[Tx]
             u == used[Tx].idx
             b == ring[Slot(r)]
             new == [ring EXCEPT ![Slot(r)] = 0]
             w == Between(ring, Inc(r), u)
  <1>0. /\ TypeOK /\ Tx \in Rings /\ ring \in [Bufs -> Bufs] /\ r \in Indices /\ u \in Indices
        /\ host \in HostRec /\ used \in [Rings -> RingRec] /\ used[Tx] \in RingRec
        /\ mem \in [Rings -> [Bufs -> Cell]] /\ mem'[Tx] \in [Bufs -> Cell]
    BY RingNames, RingTypes, TypeForms DEF TInv, Types
  <1>1. /\ r # u /\ host' = [host EXCEPT !.read[Tx] = Inc(r)]
        /\ used' = [used EXCEPT ![Tx].ring[Slot(r)] = 0] /\ mem' = [mem EXCEPT ![Tx][b] = Blank]
    BY DEF HostReceive
  <1>2. used'[Tx].ring = new /\ used'[Tx].idx = u
    BY <1>0, <1>1 DEF RingRec
  <1>3. host'.read[Tx] = Inc(r)
    BY <1>0, <1>1 DEF HostRec
  <1>4. Distinct(ring, r, u)
    BY DEF TxInv, Once
  <1>5. /\ Window(ring, Inc(r), u) = Window(ring, r, u) \ {b} /\ Dist(r, u) <= N
    BY <1>0, <1>1, <1>4, TakeFirst, RingHolds
  <1>6. Between(ring, r, u) = <<b>> \o w /\ b \in Bufs /\ w \in Seq(Bufs) /\ Inc(r) \in Indices
    BY <1>0, <1>1, BetweenTake, Wraps
  <1>7. Between(new, Inc(r), u) = w
    <2>1. \A i \in 1 .. Dist(Inc(r), u) : new[Pos(Inc(r), i)] = ring[Pos(Inc(r), i)]
      <3>1. ring \in [Bufs -> Bufs] /\ r \in Indices /\ u \in Indices /\ r # u /\ Dist(r, u) <= N
        BY <1>0, <1>1, <1>5
      <3> HIDE DEF ring, r, u
      <3> QED BY ONLY <3>1, BehindSame DEF new
    <2> HIDE DEF new, ring, r, u
    <2> QED BY <2>1, BetweenSame
  <1>8. Returned(Tx) = <<b>> \o w /\ Returned(Tx)' = w
    <2>1. /\ Returned(Tx)' = Between(used'[Tx].ring, host'.read[Tx], used'[Tx].idx)
          /\ Returned(Tx) = Between(ring, r, u)
      BY NextIncoming
    <2> HIDE DEF new, w, b
    <2> QED BY <1>2, <1>3, <1>6, <1>7, <2>1
  <1>9. \A i \in 1 .. Len(w) : w[i] \in Bufs /\ w[i] # b
    <2>1. /\ Len(w) = Dist(Inc(r), u)
          /\ \A i \in 1 .. Dist(Inc(r), u) : w[i] = ring[Pos(Inc(r), i)] /\ w[i] \in Bufs
      <3>1. ring \in [Bufs -> Bufs] /\ Inc(r) \in Indices /\ u \in Indices
        BY <1>0, <1>6
      <3>2. /\ Between(ring, Inc(r), u) \in Seq(Bufs)
            /\ Len(Between(ring, Inc(r), u)) = Dist(Inc(r), u)
            /\ \A i \in 1 .. Dist(Inc(r), u) :
                 /\ Between(ring, Inc(r), u)[i] = ring[Pos(Inc(r), i)]
                 /\ ring[Pos(Inc(r), i)] \in Bufs
        BY ONLY <3>1, BetweenIs
      <3> HIDE DEF ring, r, u
      <3> QED BY <3>2 DEF w
    <2>2. \A i \in 1 .. Dist(Inc(r), u) : ring[Pos(Inc(r), i)] \in Window(ring, Inc(r), u)
      BY DEF Window
    <2> HIDE DEF w, b, ring, r, u
    <2> QED BY <1>5, <2>1, <2>2
  <1>10. mem'[Tx] = [mem[Tx] EXCEPT ![b] = Blank]
    BY <1>0, <1>1
  <1> HIDE DEF w, b, ring, r, u, new
  <1>11. \A i \in 1 .. Len(w) : mem'[Tx][w[i]] = mem[Tx][w[i]]
    BY <1>0, <1>9, <1>10
  <1>12. Held(mem'[Tx], w) = Held(mem[Tx], w)
    <2>1. mem[Tx] \in [Bufs -> Cell] /\ mem'[Tx] \in [Bufs -> Cell]
      BY <1>0
    <2> QED BY ONLY <1>6, <1>11, <2>1, HeldSame
  <1>13. Outgoing \in Seq(Cell) /\ Outgoing = Held(mem[Tx], <<b>> \o w) /\ Outgoing' = Held(mem[Tx], w)
    BY <1>8, <1>12, OutgoingIs, NextIncoming
  <1>14. Len(Held(mem[Tx], <<b>> \o w)) > 0 /\ Held(mem[Tx], w) = Without(Held(mem[Tx], <<b>> \o w), 1)
    <2>1. mem[Tx] \in [Bufs -> Cell] /\ <<>> \in Seq(Bufs)
      BY <1>0
    <2>2. LET x == <<>> \o (<<b>> \o w)
              d == Len(<<>>) + 1
          IN  /\ x \in Seq(Bufs) /\ d \in 1 .. Len(x)
              /\ Held(mem[Tx], <<>> \o w) = Without(Held(mem[Tx], x), d)
      BY ONLY <1>6, <2>1, HeldWithout
    <2>3. <<b>> \in Seq(Bufs) /\ <<b>> \o w \in Seq(Bufs)
      BY <1>6, ConcatProperties
    <2>4. <<>> \o (<<b>> \o w) = <<b>> \o w /\ <<>> \o w = w
      BY <1>6, <2>3, ConcatEmptySeq
    <2>5. Len(<<>>) + 1 = 1
      OBVIOUS
    <2>6. 1 \in 1 .. Len(<<b>> \o w) /\ Held(mem[Tx], w) = Without(Held(mem[Tx], <<b>> \o w), 1)
      BY <2>2, <2>4, <2>5
    <2>7. Len(Held(mem[Tx], <<b>> \o w)) = Len(<<b>> \o w) /\ Len(<<b>> \o w) \in Nat
      BY <2>1, <2>3, HeldType
    <2> QED BY <2>6, <2>7
  <1> QED BY <1>13, <1>14, WithoutFirst

-----------------------------------------------------------------------------
(* The state of the abstract link, and its actions on it *)
Ports == Endpoints \cup {Linux}
Offers == [s \in Senders |-> IF Sending(s) THEN <<sender[s].msg>> ELSE <<>>]
Chan ==
  [p \in Ports |->
     Texts(IF p = Linux THEN Cells(Tx, Returned(Tx)) ELSE Addressed(Cells(Rx, Unread), p))]

(* The actions of MessageLink in terms of this state *)
LEMMA LinkForms ==
  /\ Link!Init <=> Offers = [s \in Senders |-> <<>>] /\ Chan = [p \in Ports |-> <<>>]
  /\ UNCHANGED Link!vars <=> Offers' = Offers /\ Chan' = Chan
  /\ \A s, m : Link!Offer(s, m) <=>
       /\ Offers[s] = <<>> /\ Offers' = [Offers EXCEPT ![s] = <<m>>] /\ Chan' = Chan
  /\ \A s : Link!Refuse(s) <=>
       /\ Offers[s] # <<>> /\ Offers' = [Offers EXCEPT ![s] = <<>>] /\ Chan' = Chan
  /\ \A s : Link!Send(s) <=>
       /\ Offers[s] # <<>> /\ Offers' = [Offers EXCEPT ![s] = <<>>]
       /\ Chan' = [Chan EXCEPT ![Linux] = Chan[Linux] \o Offers[s]]
  /\ \A e, m : Link!Post(e, m) <=>
       Chan' = [Chan EXCEPT ![e] = Append(Chan[e], m)] /\ Offers' = Offers
  /\ \A p : Link!Receive(p) <=>
       /\ Chan[p] # <<>> /\ Chan' = [Chan EXCEPT ![p] = Tail(Chan[p])] /\ Offers' = Offers
  /\ Link!Next <=>
       \/ \E s \in Senders : Link!Send(s) \/ Link!Refuse(s) \/ \E m \in Msgs : Link!Offer(s, m)
       \/ \E e \in Endpoints, m \in Msgs : Link!Post(e, m)
       \/ \E p \in Ports : Link!Receive(p)
  <1>1. Link!Init <=> Offers = [s \in Senders |-> <<>>] /\ Chan = [p \in Ports |-> <<>>]
    BY DEF Link!Init, Link!Ports, Offers, Chan, Ports
  <1>2. UNCHANGED Link!vars <=> Offers' = Offers /\ Chan' = Chan
    BY DEF Link!vars, Offers, Chan, Ports
  <1>3. \A s, m : Link!Offer(s, m) <=>
          /\ Offers[s] = <<>> /\ Offers' = [Offers EXCEPT ![s] = <<m>>] /\ Chan' = Chan
    BY DEF Link!Offer, Offers, Chan, Ports
  <1>4. \A s : Link!Refuse(s) <=>
          /\ Offers[s] # <<>> /\ Offers' = [Offers EXCEPT ![s] = <<>>] /\ Chan' = Chan
    BY DEF Link!Refuse, Offers, Chan, Ports
  <1>5. \A s : Link!Send(s) <=>
          /\ Offers[s] # <<>> /\ Offers' = [Offers EXCEPT ![s] = <<>>]
          /\ Chan' = [Chan EXCEPT ![Linux] = Chan[Linux] \o Offers[s]]
    BY DEF Link!Send, Offers, Chan, Ports
  <1>6. \A e, m : Link!Post(e, m) <=>
          Chan' = [Chan EXCEPT ![e] = Append(Chan[e], m)] /\ Offers' = Offers
    BY DEF Link!Post, Offers, Chan, Ports
  <1>7. \A p : Link!Receive(p) <=>
          /\ Chan[p] # <<>> /\ Chan' = [Chan EXCEPT ![p] = Tail(Chan[p])] /\ Offers' = Offers
    BY DEF Link!Receive, Offers, Chan, Ports
  <1>8. Link!Next <=>
          \/ \E s \in Senders : Link!Send(s) \/ Link!Refuse(s) \/ \E m \in Msgs : Link!Offer(s, m)
          \/ \E e \in Endpoints, m \in Msgs : Link!Post(e, m)
          \/ \E p \in Ports : Link!Receive(p)
    BY DEF Link!Next, Link!Ports, Ports
  <1> QED BY <1>1, <1>2, <1>3, <1>4, <1>5, <1>6, <1>7, <1>8

(* The channels by their ports *)
LEMMA ChanIs ==
  /\ Linux \notin Endpoints /\ NoEndpoint \notin Endpoints
  /\ Chan = [p \in Ports |-> Chan[p]] /\ Chan' = [p \in Ports |-> Chan'[p]]
  /\ Chan[Linux] = Texts(Outgoing) /\ Chan'[Linux] = Texts(Outgoing')
  /\ \A p \in Endpoints : /\ Chan[p] = Texts(Addressed(Incoming, p))
                          /\ Chan'[p] = Texts(Addressed(Incoming', p))
  <1>1. Linux \notin Endpoints /\ NoEndpoint \notin Endpoints
    BY UsersAssumption
  <1>2. Chan = [p \in Ports |-> Texts(IF p = Linux THEN Outgoing ELSE Addressed(Incoming, p))]
    BY DEF Chan, Outgoing, Incoming
  <1>3. Chan' = [p \in Ports |-> Texts(IF p = Linux THEN Outgoing' ELSE Addressed(Incoming', p))]
    BY DEF Chan, Outgoing, Incoming, Texts, Addressed
  <1>4. Linux \in Ports /\ \A p \in Endpoints : p \in Ports /\ p # Linux
    BY <1>1 DEF Ports
  <1> QED BY <1>1, <1>2, <1>3, <1>4

(* The same channels *)
LEMMA ChanSame ==
  ASSUME Outgoing' = Outgoing,
         \A p \in Endpoints : Texts(Addressed(Incoming', p)) = Texts(Addressed(Incoming, p))
  PROVE  Chan' = Chan
  <1>1. \A p \in Ports : Chan'[p] = Chan[p]
    BY ChanIs DEF Ports
  <1> QED BY <1>1, ChanIs

(* Dropping a message that is for no endpoint changes no channel. *)
LEMMA DropSame ==
  ASSUME TInv, RxInv, Outgoing' = Outgoing,
         \/ Incoming' = Incoming
         \/ \E d \in 1 .. Len(Incoming) :
              Incoming[d].ept \notin Endpoints /\ Incoming' = Without(Incoming, d)
  PROVE  Chan' = Chan
  <1>1. Incoming \in Seq(Cell)
    BY IncomingIs
  <1>2. CASE Incoming' = Incoming
    BY <1>2, ChanSame
  <1>3. CASE \E d \in 1 .. Len(Incoming) :
               Incoming[d].ept \notin Endpoints /\ Incoming' = Without(Incoming, d)
    <2>1. PICK d \in 1 .. Len(Incoming) :
            Incoming[d].ept \notin Endpoints /\ Incoming' = Without(Incoming, d)
      BY <1>3
    <2>2. \A p \in Endpoints : Incoming[d].ept # p
      BY <2>1
    <2>3. \A p \in Endpoints : Addressed(Without(Incoming, d), p) = Addressed(Incoming, p)
      BY <1>1, <2>2, AddressedDrop
    <2> QED BY <2>1, <2>3, ChanSame
  <1> QED BY <1>2, <1>3

(* A callback receives the message, or it was for no endpoint. *)
LEMMA ReceiveSteps ==
  ASSUME TInv, RxInv, Outgoing' = Outgoing, Offers' = Offers,
         Len(Incoming) > 0, Incoming' = Without(Incoming, 1)
  PROVE  Chan' = Chan \/ \E p \in Ports : Link!Receive(p)
  <1> DEFINE e == Incoming[1].ept
  <1>1. Incoming \in Seq(Cell) /\ 1 \in 1 .. Len(Incoming)
    <2>1. Incoming \in Seq(Cell)
      BY IncomingIs
    <2> QED BY <2>1
  <1>2. CASE e \notin Endpoints
    BY <1>1, <1>2, DropSame
  <1>3. CASE e \in Endpoints
    <2> DEFINE a == Addressed(Incoming, e)
    <2>1. /\ a # <<>> /\ Addressed(Without(Incoming, 1), e) = Tail(a)
      BY <1>1, AddressedTake
    <2>2. a \in Seq(Cell)
      BY <1>1, AddressedType
    <2> HIDE DEF a
    <2>3. Texts(a) # <<>> /\ Texts(Tail(a)) = Tail(Texts(a))
      BY <2>1, <2>2, TextsTail
    <2>4. Chan[e] = Texts(a) /\ Chan'[e] = Texts(Tail(a))
      BY <1>3, <2>1, ChanIs DEF a
    <2>5. \A p \in Endpoints : p # e => Chan'[p] = Chan[p]
      <3>1. \A p \in Endpoints : p # e => Addressed(Without(Incoming, 1), p) = Addressed(Incoming, p)
        BY <1>1, AddressedDrop
      <3> QED BY <3>1, ChanIs
    <2>6. Chan'[Linux] = Chan[Linux]
      BY ChanIs
    <2> HIDE DEF e
    <2>7. Chan' = [Chan EXCEPT ![e] = Tail(Chan[e])]
      <3>1. e \in Ports /\ e # Linux
        BY <1>3, ChanIs DEF Ports
      <3>2. \A p \in Ports : Chan'[p] = IF p = e THEN Tail(Chan[e]) ELSE Chan[p]
        BY <2>3, <2>4, <2>5, <2>6, <3>1 DEF Ports
      <3> QED BY <3>1, <3>2, ChanIs
    <2>8. Link!Receive(e) /\ e \in Ports
      BY <1>3, <2>3, <2>4, <2>7, LinkForms DEF Ports
    <2> QED BY <2>8
  <1> QED BY <1>2, <1>3

(* Linux sends to an endpoint, or to nobody. *)
LEMMA PostSteps ==
  ASSUME TInv, RxInv, Outgoing' = Outgoing, Offers' = Offers,
         NEW e \in Endpoints \cup {NoEndpoint}, NEW m \in Msgs,
         Incoming' = Append(Incoming, [ept |-> e, msg |-> m])
  PROVE  Chan' = Chan \/ (e \in Endpoints /\ Link!Post(e, m))
  <1> DEFINE x == [ept |-> e, msg |-> m]
  <1>1. Incoming \in Seq(Cell) /\ x \in Cell /\ x.ept = e /\ x.msg = m
    <2>1. Incoming \in Seq(Cell)
      BY IncomingIs
    <2> QED BY <2>1 DEF Cell
  <1>2. Incoming' = Append(Incoming, x)
    OBVIOUS
  <1> HIDE DEF x
  <1>3. \A p \in Endpoints :
          Addressed(Incoming', p) = IF p = e THEN Append(Addressed(Incoming, p), x) ELSE Addressed(Incoming, p)
    BY <1>1, <1>2, AddressedAppend
  <1>4. CASE e = NoEndpoint
    <2>1. \A p \in Endpoints : p # e
      BY <1>4, ChanIs
    <2>2. \A p \in Endpoints : Addressed(Incoming', p) = Addressed(Incoming, p)
      BY <1>3, <2>1
    <2> QED BY <2>2, ChanSame
  <1>5. CASE e \in Endpoints
    <2> DEFINE a == Addressed(Incoming, e)
    <2>1. a \in Seq(Cell)
      BY <1>1, AddressedType
    <2>2. Addressed(Incoming', e) = Append(a, x)
      BY <1>3, <1>5
    <2> HIDE DEF a
    <2>3. Texts(Append(a, x)) = Append(Texts(a), m)
      BY <1>1, <2>1, TextsAppend
    <2>4. Chan[e] = Texts(a) /\ Chan'[e] = Append(Texts(a), m)
      BY <1>5, <2>2, <2>3, ChanIs DEF a
    <2>5. \A p \in Endpoints : p # e => Chan'[p] = Chan[p]
      BY <1>3, ChanIs
    <2>6. Chan'[Linux] = Chan[Linux]
      BY ChanIs
    <2>7. Chan' = [Chan EXCEPT ![e] = Append(Chan[e], m)]
      <3>1. e \in Ports /\ e # Linux
        BY <1>5, ChanIs DEF Ports
      <3>2. \A p \in Ports : Chan'[p] = IF p = e THEN Append(Chan[e], m) ELSE Chan[p]
        BY <2>4, <2>5, <2>6, <3>1 DEF Ports
      <3> QED BY <3>1, <3>2, ChanIs
    <2> QED BY <1>5, <2>7, LinkForms
  <1> QED BY <1>4, <1>5

(* The same buffers *)
LEMMA UnreadSame ==
  ASSUME avail'[Rx] = avail[Rx], vq_available_idx'[Rx] = vq_available_idx[Rx], queued' = queued,
         First' = First
  PROVE  Unread' = Unread
  BY NextIncoming DEF Unread, First

(* The same, for the way to Linux *)
LEMMA ReturnedSame ==
  ASSUME used'[Tx] = used[Tx], host'.read[Tx] = host.read[Tx]
  PROVE  Returned(Tx)' = Returned(Tx)
  BY NextIncoming

(* The steps of the senders *)
LEMMA SenderLink ==
  ASSUME PlaceInv, FillInv, TypeOK', NEW s \in Senders, rpmsg_lite_send(s) \/ Sender(s)
  PROVE  [Link!Next]_(Link!vars)
  <1> USE DEF rings, locking, signals
  <1>0. /\ TInv /\ LInv /\ TxInv /\ RxInv /\ ServeInv /\ sender \in [Senders -> SenderRec]
        /\ sender[s] \in SenderRec
    BY TypeForms DEF PlaceInv, LInv, TInv, Types
  <1>1. Incoming' = Incoming
    <2>1. /\ avail'[Rx] = avail[Rx] /\ mem'[Rx] = mem[Rx] /\ vq_available_idx'[Rx] = vq_available_idx[Rx]
          /\ queued' = queued /\ task' = task
      BY <1>0, SenderLeavesRx
    <2>2. First' = First
      BY <2>1 DEF First
    <2>3. Unread' = Unread
      BY <2>1, <2>2, UnreadSame
    <2> QED BY <1>0, <2>1, <2>3, IncomingSame
  <1> DEFINE on == sender[s].pc \in {"alloc", "alloced", "fill", "publish"}
             next == sender'[s].pc \in {"alloc", "alloced", "fill", "publish"}
  <1>2. ASSUME \A x \in Senders : x # s => sender'[x] = sender[x]
        PROVE  Offers' = [Offers EXCEPT ![s] = IF next THEN <<sender'[s].msg>> ELSE <<>>]
    <2>1. Offers = [x \in Senders |-> IF sender[x].pc \in {"alloc", "alloced", "fill", "publish"}
                                        THEN <<sender[x].msg>> ELSE <<>>]
      BY DEF Offers, Sending
    <2>2. Offers' = [x \in Senders |-> IF sender'[x].pc \in {"alloc", "alloced", "fill", "publish"}
                                         THEN <<sender'[x].msg>> ELSE <<>>]
      BY DEF Offers, Sending
    <2>3. \A x \in Senders : x # s => Offers'[x] = Offers[x]
      BY <1>2, <2>1, <2>2
    <2>4. Offers'[s] = IF next THEN <<sender'[s].msg>> ELSE <<>>
      BY <2>2
    <2> HIDE DEF next
    <2>5. DOMAIN Offers = Senders /\ DOMAIN Offers' = Senders
      BY <2>1, <2>2
    <2> QED BY <2>1, <2>2, <2>3, <2>4
  <1>3. /\ Offers[s] = (IF on THEN <<sender[s].msg>> ELSE <<>>)
        /\ Offers = [x \in Senders |-> Offers[x]]
    BY DEF Offers, Sending
  <1>4. ASSUME \A x \in Senders : x # s => sender'[x] = sender[x], Outgoing' = Outgoing,
               next <=> on, on => sender'[s].msg = sender[s].msg
        PROVE  UNCHANGED Link!vars
    <2>1. Offers' = Offers
      BY <1>2, <1>3, <1>4
    <2>2. Chan' = Chan
      BY <1>1, <1>4, ChanSame
    <2> QED BY <2>1, <2>2, LinkForms
  <1>5. CASE rpmsg_lite_send(s)
    <2>1. PICK m \in Msgs, timeout \in Timeouts :
            sender' = [sender EXCEPT ![s] = [pc |-> "alloc", left |-> timeout, msg |-> m, buf |-> None]]
      BY <1>5 DEF rpmsg_lite_send
    <2>2. /\ sender[s].pc = "idle" /\ sender'[s].pc = "alloc" /\ sender'[s].msg = m
          /\ \A x \in Senders : x # s => sender'[x] = sender[x]
          /\ UNCHANGED <<used, mem, host>>
      BY <1>0, <1>5, <2>1 DEF rpmsg_lite_send
    <2>3. Outgoing' = Outgoing
      BY <1>0, <2>2, ReturnedSame, OutgoingSame
    <2>4. Chan' = Chan
      BY <1>1, <2>3, ChanSame
    <2>5. Offers[s] = <<>> /\ Offers' = [Offers EXCEPT ![s] = <<m>>]
      BY <1>2, <1>3, <2>2
    <2>6. Link!Offer(s, m)
      BY <2>4, <2>5, LinkForms
    <2> QED BY <2>6, LinkForms
  <1>6. CASE Alloc(s)
    <2>1. UNCHANGED <<used, mem, host>> /\ sender[s].pc = "alloc"
      BY <1>6 DEF Alloc
    <2>2. Outgoing' = Outgoing
      BY <1>0, <2>1, ReturnedSame, OutgoingSame
    <2>3. /\ sender'[s].pc = "alloced" /\ sender'[s].msg = sender[s].msg
          /\ \A x \in Senders : x # s => sender'[x] = sender[x]
      <3>1. CASE Empty(Tx)
        <4>1. sender' = [sender EXCEPT ![s].pc = "alloced"]
          BY <1>6, <3>1 DEF Alloc
        <4> QED BY <1>0, <4>1 DEF SenderRec
      <3>2. CASE ~Empty(Tx)
        <4>1. sender' = [sender EXCEPT ![s].pc = "alloced",
                                       ![s].buf = avail[Tx].ring[Slot(vq_available_idx[Tx])]]
          BY <1>6, <3>2 DEF Alloc
        <4> QED BY <1>0, <4>1 DEF SenderRec
      <3> QED BY <3>1, <3>2
    <2> QED BY <1>4, <2>1, <2>2, <2>3
  <1>7. CASE Alloced(s)
    <2>1. /\ sender[s].pc = "alloced" /\ sender' = [sender EXCEPT ![s] = Tried(sender[s])]
          /\ UNCHANGED <<used, mem, host>>
      BY <1>7 DEF Alloced
    <2>2. sender'[s] = Tried(sender[s]) /\ \A x \in Senders : x # s => sender'[x] = sender[x]
      BY <1>0, <2>1
    <2>3. Outgoing' = Outgoing
      BY <1>0, <2>1, ReturnedSame, OutgoingSame
    <2>4. CASE sender[s].buf # None \/ sender[s].left # 0
      <3>1. Tried(sender[s]).pc \in {"fill", "alloc"} /\ Tried(sender[s]).msg = sender[s].msg
        <4>1. CASE sender[s].buf # None
          BY <1>0, <4>1 DEF Tried, SenderRec
        <4>2. CASE sender[s].buf = None /\ sender[s].left # 0
          BY <1>0, <4>2 DEF Tried, SenderRec
        <4> QED BY <2>4, <4>1, <4>2
      <3>2. on /\ next
        BY <2>1, <2>2, <3>1
      <3> HIDE DEF on, next
      <3> QED BY <1>4, <2>2, <2>3, <3>1, <3>2
    <2>5. CASE sender[s].buf = None /\ sender[s].left = 0
      <3>1. sender'[s].pc = "idle"
        BY <2>2, <2>5, Blanks DEF Tried
      <3>2. Offers[s] # <<>> /\ Offers' = [Offers EXCEPT ![s] = <<>>]
        BY <1>2, <1>3, <2>1, <2>2, <3>1
      <3>3. Chan' = Chan
        BY <1>1, <2>3, ChanSame
      <3>4. Link!Refuse(s)
        BY <3>2, <3>3, LinkForms
      <3> QED BY <3>4, LinkForms
    <2> QED BY <2>4, <2>5
  <1>8. CASE Enqueue(s)
    <2>1. sender[s].pc = "fill" /\ sender' = [sender EXCEPT ![s].pc = "publish"]
      BY <1>8 DEF Enqueue
    <2>2. /\ sender'[s].pc = "publish" /\ sender'[s].msg = sender[s].msg
          /\ \A x \in Senders : x # s => sender'[x] = sender[x]
      BY <1>0, <2>1 DEF SenderRec
    <2>3. Outgoing' = Outgoing
      BY <1>0, <1>8, EnqueueLink
    <2> QED BY <1>4, <2>1, <2>2, <2>3
  <1>9. CASE Publish(s)
    <2> DEFINE m == sender[s].msg
    <2>1. /\ sender[s].pc = "publish" /\ sender' = [sender EXCEPT ![s] = [Idle EXCEPT !.pc = "sent"]]
      BY <1>9 DEF Publish
    <2>2. sender'[s].pc = "sent" /\ \A x \in Senders : x # s => sender'[x] = sender[x]
      BY <1>0, <2>1, Blanks
    <2>3. Offers[s] = <<m>> /\ Offers' = [Offers EXCEPT ![s] = <<>>]
      BY <1>2, <1>3, <2>1, <2>2
    <2>4. <<m>> # <<>> /\ m \in Msgs
      BY <1>0 DEF SenderRec
    <2>5. PICK x \in Cell : x.msg = m /\ Outgoing' = Append(Outgoing, x)
      BY <1>0, <1>9, PublishLink
    <2> HIDE DEF m
    <2>6. Outgoing \in Seq(Cell) /\ Texts(Outgoing) \in Seq(Msgs)
      BY <1>0, OutgoingIs, TextsIs
    <2>7. Texts(Append(Outgoing, x)) = Append(Texts(Outgoing), m)
      BY <2>5, <2>6, TextsAppend
    <2>8. Append(Texts(Outgoing), m) = Texts(Outgoing) \o <<m>>
      BY <2>4, <2>6, AppendIsConcat
    <2>9. Chan'[Linux] = Chan[Linux] \o Offers[s]
      BY <2>3, <2>5, <2>7, <2>8, ChanIs
    <2>10. Chan' = [Chan EXCEPT ![Linux] = Chan[Linux] \o Offers[s]]
      <3>1. \A p \in Endpoints : Chan'[p] = Chan[p] /\ p # Linux
        BY <1>1, ChanIs
      <3>2. \A p \in Ports : Chan'[p] = IF p = Linux THEN Chan[Linux] \o Offers[s] ELSE Chan[p]
        BY <2>9, <3>1 DEF Ports
      <3> QED BY <3>2, ChanIs DEF Ports
    <2>11. Link!Send(s)
      BY <2>3, <2>4, <2>10, LinkForms
    <2> QED BY <2>11, LinkForms
  <1>10. CASE Sent(s)
    <2>1. /\ sender[s].pc = "sent" /\ sender' = [sender EXCEPT ![s] = Idle]
          /\ UNCHANGED <<used, mem, host>>
      BY <1>10 DEF Sent
    <2>2. sender'[s].pc = "idle" /\ \A x \in Senders : x # s => sender'[x] = sender[x]
      BY <1>0, <2>1, Blanks
    <2>3. Outgoing' = Outgoing
      BY <1>0, <2>1, ReturnedSame, OutgoingSame
    <2> QED BY <1>4, <2>1, <2>2, <2>3
  <1> QED BY <1>5, <1>6, <1>7, <1>8, <1>9, <1>10 DEF Sender

(* The steps of the interrupt, of the rpmsg task, and of Linux on ring Rx *)
LEMMA OtherLink ==
  ASSUME PlaceInv, TypeOK',
         \/ \E c \in Contexts : Receive(c)
         \/ platform_isr_handle \/ Task \/ HostSignal \/ HostReclaim \/ HostDone \/ HostSend
  PROVE  [Link!Next]_(Link!vars)
  <1> USE DEF rings, locking, signals
  <1>0. /\ TInv /\ TypeOK /\ TxInv /\ RxInv /\ ServeInv /\ Tx \in Rings /\ Rx \in Rings /\ Tx # Rx
        /\ task \in TaskRec
    BY RingNames, TypeForms DEF PlaceInv, LInv, TInv, Types
  <1>1. /\ used'[Tx] = used[Tx] /\ mem'[Tx] = mem[Tx] /\ host'.read[Tx] = host.read[Tx]
        /\ sender' = sender
    BY <1>0, OthersLeaveTx
  <1>2. Outgoing' = Outgoing
    <2>1. Returned(Tx)' = Returned(Tx)
      BY <1>1, ReturnedSame
    <2> QED BY <1>0, <1>1, <2>1, OutgoingSame
  <1>3. Offers' = Offers
    BY <1>1 DEF Offers, Sending
  <1>4. ASSUME Chan' = Chan PROVE UNCHANGED Link!vars
    BY <1>3, <1>4, LinkForms
  <1>5. ASSUME Incoming' = Incoming PROVE UNCHANGED Link!vars
    BY <1>2, <1>4, <1>5, ChanSame
  <1>6. ASSUME UNCHANGED <<avail, mem, vq_available_idx, queued>>, First' = First
        PROVE  UNCHANGED Link!vars
    <2>1. Unread' = Unread
      BY <1>6, UnreadSame
    <2>2. Incoming' = Incoming
      BY <1>0, <1>6, <2>1, IncomingSame
    <2> QED BY <1>5, <2>2
  <1>7. ASSUME NEW c \in Contexts, RxTake(c) PROVE UNCHANGED Link!vars
    <2>1. \/ Incoming' = Incoming
          \/ \E d \in 1 .. Len(Incoming) :
               Incoming[d].ept \notin Endpoints /\ Incoming' = Without(Incoming, d)
      BY <1>0, <1>7, RxTakeLink
    <2>2. Chan' = Chan
      BY <1>0, <1>2, <2>1, DropSame
    <2> QED BY <1>4, <2>2
  <1>8. ASSUME NEW c \in Contexts, RxPeek(c) \/ RxDone(c) PROVE UNCHANGED Link!vars
    <2>1. UNCHANGED <<avail, mem, vq_available_idx, queued>>
      BY <1>8 DEF RxPeek, RxDone
    <2>2. First' = First
      <3>1. CASE RxPeek(c)
        BY <3>1 DEF RxPeek, First
      <3>2. CASE RxDone(c) /\ c # "poll"
        BY <3>2 DEF RxDone, First
      <3>3. CASE RxDone(c) /\ c = "poll"
        <4>1. task.pc = "poll" /\ task' = [task EXCEPT !.pc = "select"]
          BY <1>0, <3>3 DEF RxDone, TInv, CountInv, Polling
        <4>2. task'.pc = "select"
          BY <1>0, <4>1 DEF TaskRec
        <4> QED BY <4>1, <4>2 DEF First
      <3> QED BY <1>8, <3>1, <3>2, <3>3
    <2> QED BY <1>6, <2>1, <2>2
  <1>9. CASE platform_isr_handle
    <2>1. UNCHANGED <<avail, mem, vq_available_idx, queued, task>>
      BY <1>9 DEF platform_isr_handle
    <2> QED BY <1>6, <2>1 DEF First
  <1>10. CASE Select
    <2>1. Incoming' = Incoming
      BY <1>0, <1>10, SelectLink
    <2> QED BY <1>5, <2>1
  <1>11. CASE oblfr_process_queue
    <2>1. Len(Incoming) > 0 /\ Incoming' = Without(Incoming, 1)
      BY <1>0, <1>11, CallbackLink
    <2>2. Chan' = Chan \/ \E p \in Ports : Link!Receive(p)
      BY <1>0, <1>2, <1>3, <2>1, ReceiveSteps
    <2> QED BY <1>4, <2>2, LinkForms
  <1>12. CASE Poll \/ rpmsg_lite_release_rx_buffer \/ ReleasePublish \/ Released
    <2>1. UNCHANGED <<avail, mem, vq_available_idx, queued>>
      BY <1>12 DEF Poll, rpmsg_lite_release_rx_buffer, ReleasePublish, Released
    <2>2. task.pc # "callback" /\ task'.pc # "callback"
      BY <1>0, <1>12 DEF Poll, rpmsg_lite_release_rx_buffer, ReleasePublish, Released, TaskRec
    <2>3. First' = First
      BY <2>2 DEF First
    <2> QED BY <1>6, <2>1, <2>3
  <1>13. CASE HostSignal \/ HostDone
    <2>1. UNCHANGED <<avail, mem, vq_available_idx, queued, task>>
      BY <1>13 DEF HostSignal, HostDone
    <2> QED BY <1>6, <2>1 DEF First
  <1>14. CASE HostReclaim
    <2> DEFINE b == used[Rx].ring[Slot(host.read[Rx])]
    <2>1. /\ host.read[Rx] # used[Rx].idx /\ mem' = [mem EXCEPT ![Rx][b] = Blank]
          /\ UNCHANGED <<avail, vq_available_idx, queued, task>>
      BY <1>14 DEF HostReclaim
    <2>2. b \in Ret(Rx)
      <3>1. used[Rx].ring \in [Bufs -> Bufs] /\ host.read[Rx] \in Indices /\ used[Rx].idx \in Indices
        BY <1>0, RingTypes
      <3>2. Distinct(used[Rx].ring, host.read[Rx], used[Rx].idx)
        BY <1>0 DEF RxInv, Once
      <3>3. b \in Window(used[Rx].ring, host.read[Rx], used[Rx].idx)
        BY <2>1, <3>1, <3>2, TakeFirst
      <3> HIDE DEF b
      <3> QED BY <3>3 DEF Ret
    <2> HIDE DEF b
    <2>3. b \notin Off(Rx) \cup Waiting \cup InHand /\ Off(Rx) \cup Waiting \cup InHand \subseteq Bufs
      BY <1>0, <2>2 DEF RxInv, Away
    <2>4. mem[Rx] \in [Bufs -> Cell] /\ mem'[Rx] = [mem[Rx] EXCEPT ![b] = Blank]
      <3>1. mem \in [Rings -> [Bufs -> Cell]]
        BY <1>0, TypeForms DEF Types
      <3> QED BY <1>0, <2>1, <3>1
    <2>5. \A y \in Off(Rx) \cup Waiting \cup InHand : mem'[Rx][y] = mem[Rx][y]
      BY <2>3, <2>4
    <2>6. First' = First
      BY <2>1 DEF First
    <2>7. Unread' = Unread
      BY <2>1, <2>6, UnreadSame
    <2>8. Incoming' = Incoming
      BY <1>0, <2>5, <2>7, IncomingSame
    <2> QED BY <1>5, <2>8
  <1>15. CASE HostSend
    <2>1. PICK e \in Endpoints \cup {NoEndpoint}, m \in Msgs :
            Incoming' = Append(Incoming, [ept |-> e, msg |-> m])
      BY <1>0, <1>15, HostSendLink
    <2>2. Chan' = Chan \/ (e \in Endpoints /\ Link!Post(e, m))
      BY <1>0, <1>2, <1>3, <2>1, PostSteps
    <2> QED BY <1>4, <2>2, LinkForms
  <1>16. CASE Task
    BY <1>10, <1>11, <1>12, <1>16 DEF Task
  <1>17. CASE \E c \in Contexts : Receive(c)
    BY <1>7, <1>8, <1>17 DEF Receive
  <1> QED BY <1>9, <1>13, <1>14, <1>15, <1>16, <1>17

(* Linux reads a message. *)
LEMMA HostLink ==
  ASSUME PlaceInv, TypeOK', HostReceive
  PROVE  Link!Next
  <1>0. TInv /\ TypeOK /\ TxInv /\ RxInv /\ Rx \in Rings /\ Tx \in Rings /\ Tx # Rx
    BY RingNames DEF PlaceInv, LInv, TInv
  <1>1. Outgoing # <<>> /\ Outgoing' = Tail(Outgoing)
    BY <1>0, HostReceiveLink
  <1>2. Incoming' = Incoming
    <2> DEFINE b == used[Tx].ring[Slot(host.read[Tx])]
    <2>1. /\ avail' = [avail EXCEPT ![Tx] = [ring |-> [@.ring EXCEPT ![Slot(avail[Tx].idx)] = b],
                                             idx |-> Inc(@.idx)]]
          /\ mem' = [mem EXCEPT ![Tx][b] = Blank]
          /\ UNCHANGED <<vq_available_idx, queued, task>>
      BY DEF HostReceive
    <2> HIDE DEF b
    <2>2. avail \in [Rings -> RingRec] /\ mem \in [Rings -> [Bufs -> Cell]]
      BY <1>0, TypeForms DEF Types
    <2>3. avail'[Rx] = avail[Rx] /\ mem'[Rx] = mem[Rx]
      BY <1>0, <2>1, <2>2
    <2>4. First' = First
      BY <2>1 DEF First
    <2>5. Unread' = Unread
      BY <2>1, <2>3, <2>4, UnreadSame
    <2> QED BY <1>0, <2>3, <2>5, IncomingSame
  <1>3. Offers' = Offers
    <2>1. sender' = sender
      BY DEF HostReceive
    <2> QED BY <2>1 DEF Offers, Sending
  <1>4. Outgoing \in Seq(Cell)
    BY <1>0, OutgoingIs
  <1>5. Texts(Outgoing) # <<>> /\ Texts(Tail(Outgoing)) = Tail(Texts(Outgoing))
    BY <1>1, <1>4, TextsTail
  <1>6. Chan[Linux] # <<>> /\ Chan' = [Chan EXCEPT ![Linux] = Tail(Chan[Linux])]
    <2>1. \A p \in Endpoints : Chan'[p] = Chan[p] /\ p # Linux
      BY <1>2, ChanIs
    <2>2. Chan[Linux] # <<>> /\ Chan'[Linux] = Tail(Chan[Linux])
      BY <1>1, <1>5, ChanIs
    <2>3. \A p \in Ports : Chan'[p] = IF p = Linux THEN Tail(Chan[Linux]) ELSE Chan[p]
      BY <2>1, <2>2 DEF Ports
    <2> QED BY <2>2, <2>3, ChanIs
  <1>7. Link!Receive(Linux) /\ Linux \in Ports
    BY <1>3, <1>6, LinkForms DEF Ports
  <1> QED BY <1>7, LinkForms

(* At the start nothing is on offer or on its way. *)
LEMMA InitLink ==
  ASSUME Init
  PROVE  Link!Init /\ FillInv
  <1> USE DEF Init
  <1>0. /\ Tx \in Rings /\ Rx \in Rings /\ Tx # Rx /\ 0 \in Indices /\ N \in Indices
    BY RingNames, Wraps
  <1>1. \A s \in Senders : sender[s].pc = "idle"
    BY Blanks
  <1>2. Offers = [s \in Senders |-> <<>>]
    BY <1>1 DEF Offers, Sending
  <1>3. \A ring : Between(ring, 0, 0) = <<>>
    <2>1. Dist(0, 0) = 0 /\ 1 .. 0 = {}
      BY <1>0, Dists
    <2>2. \A ring : Between(ring, 0, 0) = [i \in {} |-> ring[Slot(0 + i - 1)]]
      BY <2>1 DEF Between
    <2> QED BY <2>2
  <1>4. Returned(Tx) = <<>> /\ Offered(Rx) = <<>>
    <2>1. /\ Returned(Tx) = Between(used[Tx].ring, 0, 0)
          /\ Offered(Rx) = Between(avail[Rx].ring, 0, 0)
      BY <1>0 DEF Returned, Offered
    <2> QED BY <1>3, <2>1
  <1>5. Unread = <<>>
    <2>1. Unread = (<<>> \o <<>>) \o <<>>
      BY <1>4 DEF Unread
    <2> QED BY <2>1
  <1>6. \A q : Cells(q, <<>>) = <<>>
    BY DEF Cells
  <1>7. Texts(<<>>) = <<>>
    BY DEF Texts
  <1>8. \A p \in Endpoints : Addressed(<<>>, p) = <<>>
    <2> SUFFICES ASSUME NEW p \in Endpoints PROVE Addressed(<<>>, p) = <<>>
      OBVIOUS
    <2>1. <<>> \in Seq(Cell) /\ {i \in 1 .. Len(<<>>) : <<>>[i].ept = p} = {}
      OBVIOUS
    <2> DEFINE f == [i \in 1 .. 0 |-> 0]
    <2>2. Enumerates(f, 0, {})
      <3>1. 1 .. 0 = {}
        OBVIOUS
      <3> QED BY <3>1 DEF Enumerates
    <2> HIDE DEF f
    <2> DEFINE c == <<>>
    <2>3. Addressed(c, p) = [k \in 1 .. 0 |-> c[f[k]]]
      <3>1. c \in Seq(Cell) /\ 0 \in Nat /\ Enumerates(f, 0, {i \in 1 .. Len(c) : c[i].ept = p})
        BY <2>1, <2>2
      <3> HIDE DEF c
      <3> QED BY ONLY <3>1, AddressedIs
    <2>4. 1 .. 0 = {}
      OBVIOUS
    <2> QED BY <2>3, <2>4
  <1>9. Outgoing = <<>> /\ Incoming = <<>>
    BY <1>4, <1>5, <1>6 DEF Outgoing, Incoming
  <1>10. Chan = [p \in Ports |-> <<>>]
    <2>1. \A p \in Ports : Chan[p] = <<>>
      BY <1>7, <1>8, <1>9, ChanIs DEF Ports
    <2> QED BY <2>1, ChanIs
  <1>11. FillInv
    BY <1>1 DEF FillInv
  <1> QED BY <1>2, <1>10, <1>11, LinkForms

(* LinkSpec: for every number of buffers, senders, endpoints and messages,  *)
(* and every width of the indices, the rings implement MessageLink.  A      *)
(* message a sender offers is read by Linux once, unchanged and in the      *)
(* order of publication, or refused; a message of Linux reaches the         *)
(* callback of its endpoint once, and in order, through the interrupt, the  *)
(* poll and the endpoints' queues; under the same proviso as OnePlace.      *)
THEOREM LinkSpecCorrect ==
  ASSUME OneWriter
  PROVE  Spec => LinkSpec
  <1>1. Init => PlaceInv /\ FillInv /\ Link!Init
    BY InitPlace, InitLink
  <1>2. PlaceInv /\ FillInv /\ [Next]_vars => PlaceInv' /\ FillInv' /\ [Link!Next]_(Link!vars)
    <2> SUFFICES ASSUME PlaceInv, FillInv, [Next]_vars
                 PROVE  PlaceInv' /\ FillInv' /\ [Link!Next]_(Link!vars)
      OBVIOUS
    <2>1. PlaceInv' /\ FillInv'
      BY NextPlace, NextFill
    <2>2. TypeOK'
      BY <2>1 DEF PlaceInv, LInv, TInv
    <2>3. CASE UNCHANGED vars
      <3>1. UNCHANGED <<avail, used, mem, vq_available_idx, queued, sender, task, host>>
        BY <2>3 DEF vars, rings
      <3>2. Offers' = Offers
        BY <3>1 DEF Offers, Sending
      <3>3. Chan' = Chan
        BY <3>1 DEF Chan, Texts, Cells, Addressed, Unread, Returned, Offered
      <3> QED BY <2>1, <3>2, <3>3, LinkForms
    <2>4. CASE Next
      <3>1. ASSUME NEW s \in Senders, rpmsg_lite_send(s) \/ Sender(s)
            PROVE  [Link!Next]_(Link!vars)
        BY <2>2, <3>1, SenderLink
      <3>2. ASSUME HostReceive PROVE [Link!Next]_(Link!vars)
        BY <2>2, <3>2, HostLink
      <3>3. ASSUME \/ \E c \in Contexts : Receive(c)
                   \/ platform_isr_handle \/ Task \/ HostSignal \/ HostReclaim \/ HostDone \/ HostSend
            PROVE  [Link!Next]_(Link!vars)
        BY <2>2, <3>3, OtherLink
      <3>4. [Link!Next]_(Link!vars)
        BY <2>4, <3>1, <3>2, <3>3 DEF Next, Host
      <3> QED BY <2>1, <3>4
    <2> QED BY <2>3, <2>4
  <1> QED BY <1>1, <1>2, PTL DEF Spec, LinkSpec, Link!Spec

=============================================================================
