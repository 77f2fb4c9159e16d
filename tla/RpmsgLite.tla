----------------------------- MODULE RpmsgLite -----------------------------
(***************************************************************************)
(* rpmsg-lite on the M0 (components/rpmsg/rpmsg-lite): two rings of        *)
(* buffers in memory shared with Linux on the D0, which owns the buffers.  *)
(* Ring Tx carries the messages of the M0, ring Rx those of Linux.  Linux  *)
(* offers buffers in avail; the M0 takes them from there and hands them    *)
(* back in used, Tx buffers with a message, Rx buffers once it is read.    *)
(*                                                                         *)
(* On the M0 run tasks that send, the rpmsg task that hands received       *)
(* messages to the endpoints' callbacks, and the interrupt that a kick of  *)
(* Linux raises; the D0 runs in parallel.  The M0 kicks through one pair   *)
(* of mailbox registers, so that a kick replaces one not yet read; a kick  *)
(* of Linux may get lost, which is why the idle rpmsg task polls ring Rx.  *)
(***************************************************************************)
EXTENDS Integers, Sequences, FiniteSets, Functions

CONSTANTS N,          \* RL_BUFFER_COUNT: buffers, and entries, of a ring
          IdxMod,     \* the 2^16 of the rings' indices
          MaxCount,   \* RL_ENV_MAX_MUTEX_COUNT
          Senders,    \* the tasks that send
          Endpoints,
          Msgs,
          Timeouts,   \* of the senders, in intervals of RL_MS_PER_INTERVAL
          Worlds      \* what the surroundings may do, see world

Tx == 0
Rx == 1
Rings == {Tx, Rx}
Bufs == 0 .. N - 1
Indices == 0 .. IdxMod - 1
RL_BLOCK == -1
None == -1
Unlimited == -1
NoEndpoint == "none"   \* the address of a message that no endpoint has
Linux == "linux"

ASSUME RingAssumption ==
  /\ N \in Nat \ {0} /\ IdxMod \in Nat /\ IdxMod > N /\ IdxMod % N = 0
  /\ MaxCount \in Nat \ {0}
ASSUME UsersAssumption ==
  /\ IsFiniteSet(Senders) /\ "task" \notin Senders /\ Msgs # {}
  /\ {NoEndpoint, Linux} \cap Endpoints = {}
  /\ Timeouts \subseteq Nat \cup {RL_BLOCK}
ASSUME WorldsAssumption ==
  Worlds \subseteq [stray : BOOLEAN, serves : BOOLEAN, windows : SUBSET {"free", "poll"},
                   sends : [Senders -> Nat \cup {Unlimited}],
                    posts : Nat \cup {Unlimited}]

VARIABLES world,     \* does Linux send to addresses without endpoint, does it go
                     \* on serving the kicks it sees, in which windows of the rpmsg
                     \* task may others run, and how many messages may every
                     \* sender and Linux still send?
          avail,     \* per ring, the available ring and its index
          used,      \* per ring, the used ring and its index
          mem,       \* per ring, the content of the buffers
          vq_available_idx,
          lock,      \* the count of the semaphore rpmsg_lite_dev->lock
          in_isr_counter,
          rx,        \* rpmsg_lite_rx_callback, as the interrupt and as the poll
          queued,    \* the Rx buffers in the endpoints' queues, in the order of arrival
          sender,    \* the senders: control point, timeout left, message and buffer
          task,      \* the rpmsg task: control point and buffer
          kick,      \* a kick of Linux for ring Rx is pending
          sig,       \* the ring a kick of the M0 names that Linux has not read
          overwritten, \* history: the rings whose last kick Linux never saw
          host       \* Linux: how far it has read the used rings, its free Rx
                     \* buffers, and the rings it was told to look at

rings == <<avail, used, mem, vq_available_idx>>
locking == <<lock, in_isr_counter>>
signals == <<kick, sig, overwritten>>
vars == <<world, rings, locking, rx, queued, sender, task, signals, host>>

(* The rings' indices run freely and wrap around. *)
Inc(i) == (i + 1) % IdxMod
Dist(from, to) == (to - from) % IdxMod
Slot(i) == i % N

Contexts == {"isr", "poll"}
NoRx == [pc |-> "idle", head |-> 0, freed |-> FALSE]
Idle == [pc |-> "idle", left |-> 0, msg |-> CHOOSE m \in Msgs : TRUE, buf |-> None]

Blank == [ept |-> NoEndpoint, msg |-> Idle.msg]

(* rpmsg_lite_remote_init, on rings that Linux has set up: the Tx buffers   *)
(* are offered to the M0, the Rx buffers are with Linux.                    *)
Init ==
  /\ world \in Worlds
  /\ avail = [q \in Rings |-> [ring |-> [b \in Bufs |-> b], idx |-> IF q = Tx THEN N ELSE 0]]
  /\ used = [q \in Rings |-> [ring |-> [b \in Bufs |-> 0], idx |-> 0]]
  /\ mem = [q \in Rings |-> [b \in Bufs |-> Blank]]
  /\ vq_available_idx = [q \in Rings |-> 0]
  /\ lock = 1 /\ in_isr_counter = 0
  /\ rx = [c \in Contexts |-> NoRx]
  /\ queued = <<>>
  /\ sender = [s \in Senders |-> Idle]
  /\ task = [pc |-> "select", buf |-> None]
  /\ kick = FALSE /\ sig = None /\ overwritten = {}
  /\ host = [read |-> [q \in Rings |-> 0], free |-> Bufs, look |-> {}]

-----------------------------------------------------------------------------
(* The virtqueue operations of the M0 *)
Empty(q) == vq_available_idx[q] = avail[q].idx

(* vq_ring_update_used in two steps: the entry, then the index. *)
PutUsed(q, b) == [used EXCEPT ![q].ring[Slot(used[q].idx)] = b]
PublishUsed(q) == [used EXCEPT ![q].idx = Inc(@)]

(* virtqueue_kick, down to oblfr_mailbox_send_signal *)
Kick(q) ==
  /\ sig' = q
  /\ overwritten' = (IF sig \in {None, q} THEN overwritten ELSE overwritten \cup {sig}) \ {q}
  /\ UNCHANGED kick

(* A lock is passed by without taking it, and without giving it back, while *)
(* platform_in_isr.                                                         *)
env_lock_mutex ==
  \/ in_isr_counter > 0 /\ UNCHANGED lock
  \/ in_isr_counter = 0 /\ lock > 0 /\ lock' = lock - 1
env_unlock_mutex ==
  lock' = IF in_isr_counter = 0 /\ lock < MaxCount THEN lock + 1 ELSE lock

Spend(n) == IF n = Unlimited THEN n ELSE n - 1

(* The interrupt handler is not interrupted; the windows of the rpmsg task  *)
(* in which nothing else runs are part of the world.                        *)
Polling == rx["poll"].pc # "idle"
TaskRuns == rx["isr"].pc = "idle"
SenderRuns == TaskRuns /\ (Polling => "poll" \in world.windows)
Interruptible ==
  /\ TaskRuns
  /\ Polling => "poll" \in world.windows
  /\ task.pc = "publish" => "free" \in world.windows

-----------------------------------------------------------------------------
(* Sending: rpmsg_lite_send, and rpmsg_lite_alloc_tx_buffer followed by     *)
(* rpmsg_lite_send_nocopy                                                   *)
rpmsg_lite_send(s) ==
  /\ SenderRuns /\ sender[s].pc = "idle"
  /\ world.sends[s] # 0 /\ world' = [world EXCEPT !.sends[s] = Spend(@)]
  /\ \E m \in Msgs, timeout \in Timeouts :
       sender' = [sender EXCEPT ![s] = [pc |-> "alloc", left |-> timeout, msg |-> m, buf |-> None]]
  /\ UNCHANGED <<rings, locking, rx, queued, task, signals, host>>

(* vq_tx_alloc, which may find no buffer *)
Alloc(s) ==
  /\ SenderRuns /\ sender[s].pc = "alloc"
  /\ env_lock_mutex
  /\ IF Empty(Tx)
       THEN sender' = [sender EXCEPT ![s].pc = "alloced"] /\ UNCHANGED vq_available_idx
       ELSE /\ sender' = [sender EXCEPT ![s].pc = "alloced",
                                        ![s].buf = avail[Tx].ring[Slot(vq_available_idx[Tx])]]
            /\ vq_available_idx' = [vq_available_idx EXCEPT ![Tx] = Inc(@)]
  /\ UNCHANGED <<world, avail, used, mem, in_isr_counter, rx, queued, task, signals, host>>

(* Without a buffer the sender gives up, or sleeps and tries again. *)
Tried(e) ==
  IF e.buf # None THEN [e EXCEPT !.pc = "fill"]
  ELSE IF e.left = 0 THEN Idle
  ELSE [e EXCEPT !.pc = "alloc", !.left = IF @ = RL_BLOCK THEN @ ELSE @ - 1]

(* Mutant: a sender that gives up does not give the lock back. *)
Alloced_kept(s) ==
  /\ SenderRuns /\ sender[s].pc = "alloced"
  /\ IF sender[s].buf = None /\ sender[s].left = 0 THEN UNCHANGED lock ELSE env_unlock_mutex
  /\ sender' = [sender EXCEPT ![s] = Tried(@)]
  /\ UNCHANGED <<world, rings, in_isr_counter, rx, queued, task, signals, host>>

(* Mutant: the time spent waiting is not counted. *)
Alloced_patient(s) ==
  /\ SenderRuns /\ sender[s].pc = "alloced"
  /\ env_unlock_mutex
  /\ sender' = [sender EXCEPT ![s] =
       IF @.buf = None /\ @.left # 0 THEN [@ EXCEPT !.pc = "alloc"] ELSE Tried(@)]
  /\ UNCHANGED <<world, rings, in_isr_counter, rx, queued, task, signals, host>>

Alloced(s) ==
  /\ SenderRuns /\ sender[s].pc = "alloced"
  /\ env_unlock_mutex
  /\ sender' = [sender EXCEPT ![s] = Tried(@)]
  /\ UNCHANGED <<world, rings, in_isr_counter, rx, queued, task, signals, host>>

(* Mutant: the buffer is enqueued and never filled. *)
Enqueue_unfilled(s) ==
  /\ SenderRuns /\ sender[s].pc = "fill"
  /\ env_lock_mutex
  /\ used' = PutUsed(Tx, sender[s].buf)
  /\ sender' = [sender EXCEPT ![s].pc = "publish"]
  /\ UNCHANGED <<world, avail, mem, vq_available_idx, in_isr_counter, rx, queued, task, signals, host>>

(* The buffer is filled without the lock, then enqueued under it. *)
Enqueue(s) ==
  /\ SenderRuns /\ sender[s].pc = "fill"
  /\ env_lock_mutex
  /\ mem' = [mem EXCEPT ![Tx][sender[s].buf].msg = sender[s].msg]
  /\ used' = PutUsed(Tx, sender[s].buf)
  /\ sender' = [sender EXCEPT ![s].pc = "publish"]
  /\ UNCHANGED <<world, avail, vq_available_idx, in_isr_counter, rx, queued, task, signals, host>>

(* Mutant: Linux is not told about the message. *)
Publish_silent(s) ==
  /\ SenderRuns /\ sender[s].pc = "publish"
  /\ used' = PublishUsed(Tx)
  /\ sender' = [sender EXCEPT ![s] = [Idle EXCEPT !.pc = "sent"]]
  /\ UNCHANGED <<world, avail, mem, vq_available_idx, locking, rx, queued, task, signals, host>>

Publish(s) ==
  /\ SenderRuns /\ sender[s].pc = "publish"
  /\ used' = PublishUsed(Tx)
  /\ Kick(Tx)
  /\ sender' = [sender EXCEPT ![s] = [Idle EXCEPT !.pc = "sent"]]
  /\ UNCHANGED <<world, avail, mem, vq_available_idx, locking, rx, queued, task, host>>

Sent(s) ==
  /\ SenderRuns /\ sender[s].pc = "sent"
  /\ env_unlock_mutex
  /\ sender' = [sender EXCEPT ![s] = Idle]
  /\ UNCHANGED <<world, rings, in_isr_counter, rx, queued, task, signals, host>>

-----------------------------------------------------------------------------
(* Receiving: env_isr and rpmsg_lite_rx_callback, in the interrupt or when  *)
(* the rpmsg task polls                                                     *)
env_isr(c) ==
  /\ rx' = [rx EXCEPT ![c].pc = "take"]
  /\ in_isr_counter' = in_isr_counter + 1

platform_isr_handle ==
  /\ Interruptible /\ kick
  /\ kick' = FALSE
  /\ env_isr("isr")
  /\ UNCHANGED <<world, rings, lock, queued, sender, task, sig, overwritten, host>>

RxRuns(c) == c = "poll" => TaskRuns

(* virtqueue_get_available_buffer: the index is read ... *)
RxPeek(c) ==
  /\ RxRuns(c) /\ rx[c].pc = "take" /\ ~Empty(Rx)
  /\ rx' = [rx EXCEPT ![c].pc = "got", ![c].head = vq_available_idx[Rx]]
  /\ UNCHANGED <<world, rings, locking, queued, sender, task, signals, host>>

(* Mutant: a buffer is handed back although an endpoint holds it. *)
RxTake_both(c) ==
  LET b == avail[Rx].ring[Slot(rx[c].head)]
      held == mem[Rx][b].ept \in Endpoints
  IN  /\ RxRuns(c) /\ rx[c].pc = "got"
      /\ vq_available_idx' = [vq_available_idx EXCEPT ![Rx] = Inc(rx[c].head)]
      /\ rx' = [rx EXCEPT ![c] = [pc |-> "take", head |-> 0, freed |-> TRUE]]
      /\ queued' = IF held THEN Append(queued, b) ELSE queued
      /\ used' = [PutUsed(Rx, b) EXCEPT ![Rx].idx = Inc(@)]
      /\ UNCHANGED <<world, avail, mem, locking, sender, task, signals, host>>

(* ... and stored, and the message goes into the queue of its endpoint,     *)
(* which holds the buffer, or the buffer is handed back at once.  A queue   *)
(* has room for all buffers of the ring.                                    *)
RxTake(c) ==
  LET b == avail[Rx].ring[Slot(rx[c].head)]
      held == mem[Rx][b].ept \in Endpoints
  IN  /\ RxRuns(c) /\ rx[c].pc = "got"
      /\ vq_available_idx' = [vq_available_idx EXCEPT ![Rx] = Inc(rx[c].head)]
      /\ rx' = [rx EXCEPT ![c] = [pc |-> "take", head |-> 0, freed |-> @.freed \/ ~held]]
      /\ queued' = IF held THEN Append(queued, b) ELSE queued
      /\ used' = IF held THEN used
                 ELSE [PutUsed(Rx, b) EXCEPT ![Rx].idx = Inc(@)]
      /\ UNCHANGED <<world, avail, mem, locking, sender, task, signals, host>>

RxDone(c) ==
  /\ RxRuns(c) /\ rx[c].pc = "take" /\ Empty(Rx)
  /\ IF rx[c].freed THEN Kick(Rx) ELSE UNCHANGED signals
  /\ rx' = [rx EXCEPT ![c] = NoRx]
  /\ in_isr_counter' = in_isr_counter - 1
  /\ task' = IF c = "poll" THEN [task EXCEPT !.pc = "select"] ELSE task
  /\ UNCHANGED <<world, rings, lock, queued, sender, host>>

-----------------------------------------------------------------------------
(* The rpmsg task: oblfr_rpmsg_task once the link is up *)
Select ==
  /\ TaskRuns /\ task.pc = "select" /\ queued # <<>>
  /\ task' = [pc |-> "callback", buf |-> Head(queued)]
  /\ queued' = Tail(queued)
  /\ UNCHANGED <<world, rings, locking, rx, sender, signals, host>>

(* Mutant: the idle task does not poll. *)
Poll_dropped ==
  /\ TaskRuns /\ task.pc = "select" /\ queued = <<>>
  /\ UNCHANGED vars

(* No message for a second: the M0 may have missed a kick. *)
Poll ==
  /\ TaskRuns /\ task.pc = "select" /\ queued = <<>>
  /\ env_isr("poll")
  /\ task' = [task EXCEPT !.pc = "poll"]
  /\ UNCHANGED <<world, rings, lock, queued, sender, signals, host>>

oblfr_process_queue ==
  /\ TaskRuns /\ task.pc = "callback"
  /\ task' = [task EXCEPT !.pc = "release"]
  /\ UNCHANGED <<world, rings, locking, rx, queued, sender, signals, host>>

rpmsg_lite_release_rx_buffer ==
  /\ TaskRuns /\ task.pc = "release"
  /\ env_lock_mutex
  /\ used' = PutUsed(Rx, task.buf)
  /\ task' = [task EXCEPT !.pc = "publish"]
  /\ UNCHANGED <<world, avail, mem, vq_available_idx, in_isr_counter, rx, queued, sender, signals, host>>

ReleasePublish ==
  /\ TaskRuns /\ task.pc = "publish"
  /\ used' = PublishUsed(Rx)
  /\ Kick(Rx)
  /\ task' = [pc |-> "released", buf |-> None]
  /\ UNCHANGED <<world, avail, mem, vq_available_idx, locking, rx, queued, sender, host>>

Released ==
  /\ TaskRuns /\ task.pc = "released"
  /\ env_unlock_mutex
  /\ task' = [task EXCEPT !.pc = "select"]
  /\ UNCHANGED <<world, rings, in_isr_counter, rx, queued, sender, signals, host>>

-----------------------------------------------------------------------------
(* Linux: rpmsg over virtio, told by the kicks which ring to look at *)
HostSignal ==
  /\ sig # None
  /\ sig' = None
  /\ host' = [host EXCEPT !.look = @ \cup {sig}]
  /\ UNCHANGED <<world, rings, locking, rx, queued, sender, task, kick, overwritten>>

(* A message is read and its buffer offered again; what Linux has read and  *)
(* nobody will read again is forgotten.                                     *)
HostReceive ==
  LET b == used[Tx].ring[Slot(host.read[Tx])]
  IN  /\ Tx \in host.look /\ host.read[Tx] # used[Tx].idx
      /\ host' = [host EXCEPT !.read[Tx] = Inc(@)]
      /\ avail' = [avail EXCEPT ![Tx] = [ring |-> [@.ring EXCEPT ![Slot(avail[Tx].idx)] = b],
                                         idx |-> Inc(@.idx)]]
      /\ used' = [used EXCEPT ![Tx].ring[Slot(host.read[Tx])] = 0]
      /\ mem' = [mem EXCEPT ![Tx][b] = Blank]
      /\ UNCHANGED <<world, vq_available_idx, locking, rx, queued, sender, task, signals>>

HostReclaim ==
  LET b == used[Rx].ring[Slot(host.read[Rx])]
  IN  /\ host.read[Rx] # used[Rx].idx
      /\ host' = [host EXCEPT !.read[Rx] = Inc(@), !.free = @ \cup {b}]
      /\ used' = [used EXCEPT ![Rx].ring[Slot(host.read[Rx])] = 0]
      /\ mem' = [mem EXCEPT ![Rx][b] = Blank]
      /\ UNCHANGED <<world, avail, vq_available_idx, locking, rx, queued, sender, task, signals>>

HostDone ==
  \E q \in host.look :
    /\ host.read[q] = used[q].idx
    /\ host' = [host EXCEPT !.look = @ \ {q}]
    /\ UNCHANGED <<world, rings, locking, rx, queued, sender, task, signals>>

(* The kick may be lost. *)
HostSend ==
  \E b \in host.free, m \in Msgs, e \in Endpoints \cup {NoEndpoint} :
    /\ e = NoEndpoint => world.stray
    /\ world.posts # 0 /\ world' = [world EXCEPT !.posts = Spend(@)]
    /\ \A c \in host.free : b <= c
    /\ host' = [host EXCEPT !.free = @ \ {b}]
    /\ mem' = [mem EXCEPT ![Rx][b] = [ept |-> e, msg |-> m]]
    /\ avail' = [avail EXCEPT ![Rx] = [ring |-> [@.ring EXCEPT ![Slot(avail[Rx].idx)] = b],
                                       idx |-> Inc(@.idx)]]
    /\ kick' \in {TRUE, kick}
    /\ UNCHANGED <<used, vq_available_idx, locking, rx, queued, sender, task, sig, overwritten>>

-----------------------------------------------------------------------------
Sender(s) ==
  Alloc(s) \/ Alloced(s) \/ Enqueue(s) \/ Publish(s) \/ Sent(s)
Receive(c) == RxPeek(c) \/ RxTake(c) \/ RxDone(c)
Task ==
  Select \/ Poll \/ oblfr_process_queue \/ rpmsg_lite_release_rx_buffer \/ ReleasePublish \/ Released
Host == HostSignal \/ HostReceive \/ HostReclaim \/ HostDone

Next ==
  \/ \E s \in Senders : rpmsg_lite_send(s) \/ Sender(s)
  \/ \E c \in Contexts : Receive(c)
  \/ platform_isr_handle \/ Task \/ Host \/ HostSend

Spec == Init /\ [][Next]_vars

(* Every task that is ready runs in the end, a task that waits for the      *)
(* lock gets it, and a Linux that serves the kicks serves all it sees.      *)
FairSpec ==
  /\ Spec
  /\ \A s \in Senders : SF_vars(Sender(s))
  /\ \A c \in Contexts : WF_vars(Receive(c))
  /\ SF_vars(Task)
  /\ WF_vars(world.serves /\ HostSignal) /\ WF_vars(world.serves /\ HostReceive)
-----------------------------------------------------------------------------
TypeOK ==
  /\ world \in [stray : BOOLEAN, serves : BOOLEAN, windows : SUBSET {"free", "poll"},
               sends : [Senders -> Int], posts : Int]
  /\ avail \in [Rings -> [ring : [Bufs -> Bufs], idx : Indices]]
  /\ used \in [Rings -> [ring : [Bufs -> Bufs], idx : Indices]]
  /\ mem \in [Rings -> [Bufs -> [ept : Endpoints \cup {NoEndpoint}, msg : Msgs]]]
  /\ vq_available_idx \in [Rings -> Indices]
  /\ lock \in 0 .. MaxCount /\ in_isr_counter \in Nat
  /\ rx \in [Contexts -> [pc : {"idle", "take", "got"}, head : Indices, freed : BOOLEAN]]
  /\ queued \in Seq(Bufs)
  /\ sender \in [Senders -> [pc : {"idle", "alloc", "alloced", "fill", "publish", "sent"},
                             left : Timeouts \cup Nat, msg : Msgs, buf : Bufs \cup {None}]]
  /\ task \in [pc : {"select", "poll", "callback", "release", "publish", "released"},
               buf : Bufs \cup {None}]
  /\ kick \in BOOLEAN /\ sig \in Rings \cup {None} /\ overwritten \subseteq Rings
  /\ host \in [read : [Rings -> Indices], free : SUBSET Bufs, look : SUBSET Rings]

(* The buffers Linux offers and those the M0 has handed back, in order. *)
Between(ring, from, to) == [i \in 1 .. Dist(from, to) |-> ring[Slot(from + i - 1)]]
Offered(q) == Between(avail[q].ring, vq_available_idx[q], avail[q].idx)
Returned(q) == Between(used[q].ring, host.read[q], used[q].idx)

(* The Rx buffers whose message no callback has seen, oldest first. *)
Unread ==
  (IF task.pc = "callback" THEN <<task.buf>> ELSE <<>>) \o queued \o Offered(Rx)

(* Every buffer is in one place: offered, in the hands of one task, in one  *)
(* queue, handed back, or with Linux.  No buffer is lost and none is used   *)
(* for two messages, although ring Rx is served by the interrupt and by the *)
(* rpmsg task, and the indices wrap around.                                 *)
Count(b, bufs) == Cardinality({i \in DOMAIN bufs : bufs[i] = b})
OnePlace ==
  \A b \in Bufs :
    /\ Count(b, Offered(Tx)) + Count(b, Returned(Tx))
       + Cardinality({s \in Senders : sender[s].buf = b}) = 1
    /\ Count(b, Offered(Rx)) + Count(b, Returned(Rx)) + Count(b, queued)
       + Cardinality({x \in {task.buf} : x = b}) + Cardinality(host.free \cap {b}) = 1

(* The semaphore is worth what its users left of it: it is taken exactly    *)
(* while one of them is between env_lock_mutex and env_unlock_mutex, which  *)
(* both ask platform_in_isr whether to do anything.  All variables keep     *)
(* their types; the rings' indices stay within their width.                 *)
Inside ==
  {s \in Senders : sender[s].pc \in {"alloced", "publish", "sent"}}
    \cup (IF task.pc \in {"publish", "released"} THEN {"task"} ELSE {})
LockExact == TypeOK /\ lock + Cardinality(Inside) = 1

(* The members of a set of numbers, from the least to the greatest. *)
Ascending(S) ==
  CHOOSE f \in [1 .. Cardinality(S) -> S] : \A i, j \in DOMAIN f : i < j => f[i] < f[j]

(* The rings implement MessageLink: channels without loss, duplication or   *)
(* reordering, from the senders, whose message is in the channel or still   *)
(* on offer, to Linux, and from Linux to the callback of each endpoint.     *)
Cells(q, bufs) == [i \in DOMAIN bufs |-> mem[q][bufs[i]]]
Addressed(cells, e) ==
  LET at == Ascending({i \in DOMAIN cells : cells[i].ept = e})
  IN  [n \in DOMAIN at |-> cells[at[n]]]
Texts(cells) == [i \in DOMAIN cells |-> cells[i].msg]
Sending(s) == sender[s].pc \in {"alloc", "alloced", "fill", "publish"}
Link ==
  INSTANCE MessageLink WITH
    Remote <- Linux,
    offer <- [s \in Senders |-> IF Sending(s) THEN <<sender[s].msg>> ELSE <<>>],
    chan <- [p \in Endpoints \cup {Linux} |->
               Texts(IF p = Linux THEN Cells(Tx, Returned(Tx))
                     ELSE Addressed(Cells(Rx, Unread), p))]
LinkSpec == Link!Spec

(* Every message of Linux reaches a callback, or is dropped for want of an  *)
(* endpoint, even when its kick was lost (the poll of oblfr_rpmsg_task).    *)
Delivered == \A b \in Bufs : b \in Range(Unread) ~> b \notin Range(Unread)

(* Every message the M0 has handed over is read by a Linux that serves its  *)
(* kicks; the only thing that can keep it waiting is a kick for the other   *)
(* ring which replaced its own in the mailbox registers.                    *)
Received ==
  \A b \in Bufs :
    world.serves /\ b \in Range(Returned(Tx)) ~> b \notin Range(Returned(Tx)) \/ Tx \in overwritten

(* A call with a timeout returns, whatever Linux does with the buffers. *)
SendsReturn ==
  \A s \in Senders :
    sender[s].pc # "idle" /\ sender[s].left # RL_BLOCK ~> sender[s].pc = "idle"
=============================================================================
