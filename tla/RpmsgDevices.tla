---------------------------- MODULE RpmsgDevices ----------------------------
(***************************************************************************)
(* The rpmsg devices of components/rpmsg/src/oblfr_rpmsg.c: named          *)
(* endpoints that an application adds and removes, that the M0 announces   *)
(* to Linux once the link is up, and that the rpmsg task serves from one   *)
(* queue set.                                                              *)
(*                                                                         *)
(* An application task, the rpmsg task, the interrupt and Linux interleave *)
(* on a device list without a lock.  Below lies rpmsg-lite, here as the    *)
(* two ordered channels that RpmsgLite implements.  A device stands for    *)
(* the memory of its entry and for its name.                               *)
(***************************************************************************)
EXTENDS Integers, Sequences, FiniteSets, Functions

CONSTANTS Devices,
          MaxTx,          \* bound: messages on their way to Linux
          MaxRx,          \* RL_BUFFER_COUNT: buffers for the messages of Linux
          Worlds          \* what the surroundings may do, see world

Anchor == "oblfr_rpmsg_queues"
NULL == "NULL"
NoAddr == 0
RL_ADDR_ANY == "any"
Down == "down"            \* the destination 0 that a DESTROY of Linux leaves
Garbage == "garbage"      \* a destination that malloc left
Ns == 53                  \* RL_NS_EPT_ADDR
Addrs == 1 .. Cardinality(Devices)

ASSUME DevicesAssumption ==
  /\ IsFiniteSet(Devices) /\ {Anchor, NULL, RL_ADDR_ANY} \cap Devices = {}
  /\ Ns \notin Addrs /\ MaxTx \in Nat \ {0} /\ MaxRx \in Nat \ {0}
ASSUME WorldsAssumption ==
  Worlds \subseteq [above : BOOLEAN, removes : BOOLEAN, stray : BOOLEAN, names : BOOLEAN,
                   careful : BOOLEAN]

VARIABLES world,   \* does the application run at a higher priority than the rpmsg
                   \* task, does it remove devices, does Linux send to addresses it
                   \* was not told of, does it announce its own endpoints, and do
                   \* both keep away from calls in progress, see Quiet and Welcome?
          link,    \* rpmsg_lite_is_link_up
          next,    \* the list of devices
          memory,  \* the entries allocated
          valid,   \* the devices whose handle the application has
          addr,    \* the address of each device's endpoint, NoAddr for none
          dst,     \* device->dst
          queue,   \* each device's queue: where the messages came from
          inset,   \* the queues that belong to the queue set
          set,     \* xQueueSet: a queue for every message put into it
          lost,    \* the buffers that were in a queue when it was destroyed
          ns,      \* is the name service bound?
          task,    \* the rpmsg task: control point, device, and queue selected
          app,     \* the application: control point and device
          tx,      \* the messages to Linux, oldest first
          rx,      \* the messages of Linux, oldest first
          channels,\* the channels Linux knows: device and address
          heard    \* history: the devices whose callback has seen a message

device == <<next, memory, valid, addr, dst>>
queues == <<queue, inset, set, lost>>
host == <<link, channels>>
vars == <<world, host, device, queues, ns, task, app, tx, rx, heard>>

(* The address of Linux's side of a device, and of none of them. *)
Stranger == "stranger"
Sources == Devices \cup {Stranger}

Create(d, a) == [kind |-> "create", from |-> a, dev |-> d]
Destroy(d, a) == [kind |-> "destroy", from |-> a, dev |-> d]
Data(d, a) == [kind |-> "data", from |-> a, dev |-> d]

Init ==
  /\ world \in Worlds
  /\ link = FALSE /\ channels = {}
  /\ next = [d \in Devices \cup {Anchor} |-> NULL]
  /\ memory = {} /\ valid = {}
  /\ addr = [d \in Devices |-> NoAddr]
  /\ dst = [d \in Devices |-> Garbage]
  /\ queue = [d \in Devices |-> <<>>]
  /\ inset = {} /\ set = <<>> /\ lost = 0
  /\ ns = FALSE
  /\ task = [pc |-> "down", cur |-> NULL, sel |-> NULL]
  /\ app = [pc |-> "idle", dev |-> NULL]
  /\ tx = <<>> /\ rx = <<>>
  /\ heard = {}

-----------------------------------------------------------------------------
(* LIST_INSERT_HEAD and LIST_REMOVE, and the devices LIST_FOREACH visits,   *)
(* the fewest that are closed under the link                                *)
Closed(S) == \A x \in S \cup {Anchor} : next[x] \in S \cup {NULL}
Linked ==
  {d \in Devices : \A S \in SUBSET Devices : Closed(S) => d \in S}

(* Mutant: the list is cut off behind the new device. *)
LIST_INSERT_HEAD_cut(d) == next' = [next EXCEPT ![Anchor] = d, ![d] = NULL]

LIST_INSERT_HEAD(d) == next' = [next EXCEPT ![Anchor] = d, ![d] = next[Anchor]]

(* Mutant: the device stays in the list. *)
LIST_REMOVE_missed(d) == UNCHANGED next

LIST_REMOVE(d) ==
  next' = [x \in DOMAIN next |-> IF x \in Linked \cup {Anchor} /\ next[x] = d THEN next[d] ELSE next[x]]

(* rpmsg_lite_create_ept with RL_ADDR_ANY takes the lowest free address. *)
FreeAddr == CHOOSE a \in Addrs : a \notin Range(addr) /\ \A b \in 1 .. a - 1 : b \in Range(addr)

(* Linux has buffers for a message; if not, the caller waits. *)
Announce(msg) == Len(tx) < MaxTx /\ tx' = Append(tx, msg)

Removing == app.pc \in {"destroy", "unlink", "unset", "unbind", "free"}

(* A task of higher priority that is in a call is not interrupted by the    *)
(* rpmsg task.                                                              *)
TaskRuns == world.above => app.pc = "idle"

(* Nobody hands back the buffers of the messages in the queue. *)
rpmsg_queue_destroy(d) ==
  /\ queue' = [queue EXCEPT ![d] = <<>>]
  /\ lost' = lost + Len(queue[d])

-----------------------------------------------------------------------------
(* oblfr_rpmsg_device_add *)
oblfr_rpmsg_device_add(d) ==
  /\ app.pc = "idle" /\ d \notin memory
  /\ memory' = memory \cup {d}
  /\ addr' = [addr EXCEPT ![d] = FreeAddr]
  /\ \E garbage \in {RL_ADDR_ANY, Garbage} : dst' = [dst EXCEPT ![d] = garbage]
  /\ queue' = [queue EXCEPT ![d] = <<>>]
  /\ app' = [pc |-> "insert", dev |-> d]
  /\ UNCHANGED <<world, host, next, valid, inset, set, lost, ns, task, tx, rx, heard>>

AddInsert ==
  /\ app.pc = "insert"
  /\ LIST_INSERT_HEAD(app.dev)
  /\ app' = [app EXCEPT !.pc = "set"]
  /\ UNCHANGED <<world, host, memory, valid, addr, dst, queues, ns, task, tx, rx, heard>>

(* Mutant: the result of xQueueAddToSet is ignored. *)
AddToSet_unchecked ==
  /\ app.pc = "set"
  /\ inset' = inset \cup {app.dev}
  /\ app' = [app EXCEPT !.pc = "check"]
  /\ UNCHANGED <<world, host, device, queue, set, lost, ns, task, tx, rx, heard>>

(* Only an empty queue can join the set. *)
AddToSet ==
  /\ app.pc = "set" /\ queue[app.dev] = <<>>
  /\ inset' = inset \cup {app.dev}
  /\ app' = [app EXCEPT !.pc = "check"]
  /\ UNCHANGED <<world, host, device, queue, set, lost, ns, task, tx, rx, heard>>

(* The entry stays allocated. *)
AddFailed ==
  /\ app.pc = "set" /\ queue[app.dev] # <<>>
  /\ addr' = [addr EXCEPT ![app.dev] = NoAddr]
  /\ rpmsg_queue_destroy(app.dev)
  /\ LIST_REMOVE(app.dev)
  /\ app' = [pc |-> "idle", dev |-> NULL]
  /\ UNCHANGED <<world, host, memory, valid, dst, inset, set, ns, task, tx, rx, heard>>

AddCheck ==
  /\ app.pc = "check"
  /\ app' = [app EXCEPT !.pc = IF link THEN "announce" ELSE "reset"]
  /\ UNCHANGED <<world, host, device, queues, ns, task, tx, rx, heard>>

AddAnnounce ==
  /\ app.pc = "announce"
  /\ Announce(Create(app.dev, addr[app.dev]))
  /\ app' = [app EXCEPT !.pc = "reset"]
  /\ UNCHANGED <<world, host, device, queues, ns, task, rx, heard>>

AddReset ==
  /\ app.pc = "reset"
  /\ dst' = [dst EXCEPT ![app.dev] = RL_ADDR_ANY]
  /\ valid' = valid \cup {app.dev}
  /\ app' = [pc |-> "idle", dev |-> NULL]
  /\ UNCHANGED <<world, host, next, memory, addr, queues, ns, task, tx, rx, heard>>

-----------------------------------------------------------------------------
(* oblfr_rpmsg_device_remove.  The application is careful if it waits until *)
(* nothing is on its way to a device and the rpmsg task waits, for messages *)
(* or, at a lower priority, for the link.                                   *)
Quiet ==
  /\ task.pc = "select" \/ (task.pc = "down" /\ world.above)
  /\ rx = <<>> /\ set = <<>>

oblfr_rpmsg_device_remove(d) ==
  /\ world.removes /\ (world.careful => Quiet)
  /\ app.pc = "idle" /\ d \in valid
  /\ app' = [pc |-> IF link THEN "destroy" ELSE "unlink", dev |-> d]
  /\ UNCHANGED <<world, host, device, queues, ns, task, tx, rx, heard>>

(* Mutant: Linux is not told. *)
RemoveAnnounce_silent ==
  /\ app.pc = "destroy"
  /\ app' = [app EXCEPT !.pc = "unlink"]
  /\ UNCHANGED <<world, host, device, queues, ns, task, tx, rx, heard>>

RemoveAnnounce ==
  /\ app.pc = "destroy"
  /\ Announce(Destroy(app.dev, addr[app.dev]))
  /\ app' = [app EXCEPT !.pc = "unlink"]
  /\ UNCHANGED <<world, host, device, queues, ns, task, rx, heard>>

RemoveUnlink ==
  /\ app.pc = "unlink"
  /\ LIST_REMOVE(app.dev)
  /\ app' = [app EXCEPT !.pc = "unset"]
  /\ UNCHANGED <<world, host, memory, valid, addr, dst, queues, ns, task, tx, rx, heard>>

RemoveFromSet ==
  /\ app.pc = "unset"
  /\ inset' = IF queue[app.dev] = <<>> THEN inset \ {app.dev} ELSE inset
  /\ app' = [app EXCEPT !.pc = "unbind"]
  /\ UNCHANGED <<world, host, device, queue, set, lost, ns, task, tx, rx, heard>>

RemoveEndpoint ==
  /\ app.pc = "unbind"
  /\ addr' = [addr EXCEPT ![app.dev] = NoAddr]
  /\ app' = [app EXCEPT !.pc = "free"]
  /\ UNCHANGED <<world, host, next, memory, valid, dst, queues, ns, task, tx, rx, heard>>

RemoveFree ==
  /\ app.pc = "free"
  /\ rpmsg_queue_destroy(app.dev)
  /\ valid' = valid \ {app.dev}
  /\ memory' = memory \ {app.dev}
  /\ heard' = heard \ {app.dev}
  /\ app' = [pc |-> "idle", dev |-> NULL]
  /\ UNCHANGED <<world, host, next, addr, dst, inset, set, ns, task, tx, rx>>

-----------------------------------------------------------------------------
(* oblfr_rpmsg_device_send, also as oblfr_rpmsg_device_send_buffer; without *)
(* a buffer the call fails when its time is up.                             *)
Sendable(d) == d \in valid /\ dst[d] # RL_ADDR_ANY /\ link

oblfr_rpmsg_device_send(d) ==
  /\ app.pc = "idle" /\ Sendable(d)
  /\ Announce(Data(d, addr[d]))
  /\ UNCHANGED <<world, host, device, queues, ns, task, app, rx, heard>>

-----------------------------------------------------------------------------
(* oblfr_rpmsg_task *)
TaskLinkUp ==
  /\ TaskRuns /\ task.pc = "down" /\ link
  /\ task' = [task EXCEPT !.pc = "bind"]
  /\ UNCHANGED <<world, host, device, queues, ns, app, tx, rx, heard>>

(* Mutant: the devices added before the link came up are not announced. *)
rpmsg_ns_bind_only ==
  /\ TaskRuns /\ task.pc = "bind"
  /\ ns' = TRUE
  /\ task' = [task EXCEPT !.pc = "select"]
  /\ UNCHANGED <<world, host, device, queues, app, tx, rx, heard>>

rpmsg_ns_bind ==
  /\ TaskRuns /\ task.pc = "bind"
  /\ ns' = TRUE
  /\ task' = [task EXCEPT !.pc = "announce", !.cur = next[Anchor]]
  /\ UNCHANGED <<world, host, device, queues, app, tx, rx, heard>>

TaskAnnounce ==
  /\ TaskRuns /\ task.pc = "announce" /\ task.cur # NULL
  /\ Announce(Create(task.cur, addr[task.cur]))
  /\ task' = [task EXCEPT !.cur = next[task.cur]]
  /\ UNCHANGED <<world, host, device, queues, ns, app, rx, heard>>

TaskAnnounced ==
  /\ TaskRuns /\ task.pc = "announce" /\ task.cur = NULL
  /\ task' = [task EXCEPT !.pc = "select"]
  /\ UNCHANGED <<world, host, device, queues, ns, app, tx, rx, heard>>

Select ==
  /\ TaskRuns /\ task.pc = "select" /\ set # <<>>
  /\ set' = Tail(set)
  /\ task' = [pc |-> "find", cur |-> next[Anchor], sel |-> Head(set)]
  /\ UNCHANGED <<world, host, device, queue, inset, lost, ns, app, tx, rx, heard>>

FindNext ==
  /\ TaskRuns /\ task.pc = "find" /\ task.cur \notin {NULL, task.sel}
  /\ task' = [task EXCEPT !.cur = next[task.cur]]
  /\ UNCHANGED <<world, host, device, queues, ns, app, tx, rx, heard>>

(* "Received message on unknown queue" *)
Unknown == task.pc = "find" /\ task.cur = NULL

(* Mutant: the sender's address is not kept. *)
oblfr_process_queue_anonymous ==
  /\ TaskRuns /\ task.pc = "find" /\ task.cur # NULL /\ task.cur = task.sel
  /\ queue' = [queue EXCEPT ![task.cur] = Tail(@)]
  /\ heard' = heard \cup {task.cur}
  /\ task' = [task EXCEPT !.pc = "callback"]
  /\ UNCHANGED <<world, host, device, inset, set, lost, ns, app, tx, rx>>

oblfr_process_queue ==
  /\ TaskRuns /\ task.pc = "find" /\ task.cur # NULL /\ task.cur = task.sel
  /\ queue[task.cur] # <<>>
  /\ queue' = [queue EXCEPT ![task.cur] = Tail(@)]
  /\ dst' = [dst EXCEPT ![task.cur] = Head(queue[task.cur])]
  /\ heard' = heard \cup {task.cur}
  /\ task' = [task EXCEPT !.pc = "callback"]
  /\ UNCHANGED <<world, host, next, memory, valid, addr, inset, set, lost, ns, app, tx, rx>>

(* The callback may answer. *)
Callback ==
  /\ TaskRuns /\ task.pc = "callback"
  /\ \/ Sendable(task.cur) /\ Announce(Data(task.cur, addr[task.cur]))
     \/ UNCHANGED tx
  /\ task' = [pc |-> "select", cur |-> NULL, sel |-> NULL]
  /\ UNCHANGED <<world, host, device, queues, ns, app, rx, heard>>

-----------------------------------------------------------------------------
(* The interrupt: rpmsg_lite_rx_callback finds the endpoint by its address *)
Owner(a) == {d \in Devices : addr[d] = a}

rpmsg_queue_rx_cb ==
  /\ rx # <<>> /\ Head(rx).to # Ns
  /\ \E d \in Owner(Head(rx).to) :
       /\ queue' = [queue EXCEPT ![d] = Append(@, Head(rx).src)]
       /\ set' = IF d \in inset THEN Append(set, d) ELSE set
  /\ rx' = Tail(rx)
  /\ UNCHANGED <<world, host, device, inset, lost, ns, task, app, tx, heard>>

NoEndpoint ==
  /\ rx # <<>>
  /\ IF Head(rx).to = Ns THEN ~ns ELSE Owner(Head(rx).to) = {}
  /\ rx' = Tail(rx)
  /\ UNCHANGED <<world, host, device, queues, ns, task, app, tx, heard>>

(* Only a device without destination is told, and takes over the address    *)
(* of a new endpoint.                                                       *)
ipc_rpmsg_ns_callback ==
  /\ rx # <<>> /\ Head(rx).to = Ns /\ ns
  /\ LET d == Head(rx).src
     IN  dst' = IF d \in Linked /\ dst[d] = RL_ADDR_ANY
                  THEN [dst EXCEPT ![d] = IF Head(rx).up THEN d ELSE Down]
                  ELSE dst
  /\ rx' = Tail(rx)
  /\ UNCHANGED <<world, host, next, memory, valid, addr, queues, ns, task, app, tx, heard>>

-----------------------------------------------------------------------------
(* Linux: brings the link up by its first kick of ring Tx, reads what the   *)
(* M0 sends, and sends to the channels it knows                             *)
HostLinkUp ==
  /\ ~link /\ link' = TRUE
  /\ UNCHANGED <<world, channels, device, queues, ns, task, app, tx, rx, heard>>

HostRead ==
  /\ tx # <<>>
  /\ tx' = Tail(tx)
  /\ LET m == Head(tx)
         known == \E c \in channels : c.dev = m.dev
     IN  channels' = CASE m.kind = "create" /\ ~known ->
                            channels \cup {[dev |-> m.dev, addr |-> m.from]}
                       [] m.kind = "destroy" -> {c \in channels : c.dev # m.dev}
                       [] OTHER -> channels
  /\ UNCHANGED <<world, link, device, queues, ns, task, app, rx, heard>>

Held ==
  FoldFunction(LAMBDA q, n : Len(q) + n, lost, queue) + (IF task.pc = "callback" THEN 1 ELSE 0)

Post(to, src, up) ==
  /\ link /\ Len(rx) + Held < MaxRx
  /\ world.careful => ~Removing
  /\ rx' = Append(rx, [to |-> to, src |-> src, up |-> up])
  /\ UNCHANGED <<world, host, device, queues, ns, task, app, tx, heard>>

(* A careful Linux spares an application that the rpmsg task may overtake   *)
(* the messages for a device that is still being added, or to an address    *)
(* that another has now, and sends strays only once the devices are         *)
(* announced.                                                               *)
Welcome(c) == world.careful => world.above \/ (c.dev \in valid /\ addr[c.dev] = c.addr)
HostSend == \E c \in channels : Welcome(c) /\ Post(c.addr, c.dev, FALSE)

HostStray ==
  \E a \in Addrs :
    /\ world.stray
    /\ world.careful => task.pc \in {"select", "find", "callback"}
    /\ Post(a, Stranger, FALSE)

HostName ==
  \E c \in channels, up \in BOOLEAN : world.names /\ Post(Ns, c.dev, up)

-----------------------------------------------------------------------------
Add == AddInsert \/ AddToSet \/ AddFailed \/ AddCheck \/ AddAnnounce \/ AddReset
Remove == RemoveAnnounce \/ RemoveUnlink \/ RemoveFromSet \/ RemoveEndpoint \/ RemoveFree
Call ==
  \E d \in Devices :
    oblfr_rpmsg_device_add(d) \/ oblfr_rpmsg_device_remove(d) \/ oblfr_rpmsg_device_send(d)
Task ==
  \/ TaskLinkUp \/ rpmsg_ns_bind \/ TaskAnnounce \/ TaskAnnounced
  \/ Select \/ FindNext \/ oblfr_process_queue \/ Callback
Interrupt == rpmsg_queue_rx_cb \/ NoEndpoint \/ ipc_rpmsg_ns_callback
Host == HostSend \/ HostStray \/ HostName

Next == Call \/ Add \/ Remove \/ Task \/ Interrupt \/ HostLinkUp \/ HostRead \/ Host

Spec == Init /\ [][Next]_vars

(* A call that is not blocked moves on, the rpmsg task runs when it is      *)
(* ready, messages of Linux are noticed (by the interrupt or by the poll of *)
(* the rpmsg task), and Linux comes up and reads.                           *)
FairSpec ==
  /\ Spec
  /\ SF_vars(Add) /\ SF_vars(Remove) /\ SF_vars(Task) /\ WF_vars(Interrupt)
  /\ WF_vars(HostLinkUp) /\ WF_vars(HostRead)
-----------------------------------------------------------------------------
Message == [kind : {"create", "destroy", "data"}, from : Addrs, dev : Devices]
TypeOK ==
  /\ world \in Worlds /\ link \in BOOLEAN /\ ns \in BOOLEAN
  /\ channels \subseteq [dev : Devices, addr : Addrs]
  /\ next \in [Devices \cup {Anchor} -> Devices \cup {NULL}]
  /\ memory \subseteq Devices /\ valid \subseteq memory /\ heard \subseteq memory
  /\ addr \in [Devices -> Addrs \cup {NoAddr}]
  /\ dst \in [Devices -> Sources \cup {RL_ADDR_ANY, Down, Garbage}]
  /\ queue \in [Devices -> Seq(Sources)]
  /\ inset \subseteq Devices /\ set \in Seq(Devices) /\ lost \in Nat
  /\ task \in [pc : {"down", "bind", "announce", "select", "find", "callback"},
               cur : Devices \cup {NULL}, sel : Devices \cup {NULL}]
  /\ app \in [pc : {"idle", "insert", "set", "check", "announce", "reset",
                    "destroy", "unlink", "unset", "unbind", "free"}, dev : Devices \cup {NULL}]
  /\ tx \in Seq(Message)
  /\ rx \in Seq([to : Addrs \cup {Ns}, src : Sources, up : BOOLEAN])

(* The walks of the rpmsg task over the unlocked list stay on devices that  *)
(* exist, and reach endpoints that exist (the LIST_FOREACHs of              *)
(* oblfr_rpmsg_task, against oblfr_rpmsg_device_add and _remove); all       *)
(* variables keep their types.                                              *)
WalkAlive ==
  /\ TypeOK
  /\ task.cur # NULL => task.cur \in memory
  /\ task.pc = "announce" /\ task.cur # NULL => addr[task.cur] # NoAddr

(* Every message put into a queue wakes the rpmsg task up for this queue,   *)
(* which then finds the device in its list: no message waits unnoticed and  *)
(* no buffer is held for ever.                                              *)
SetExact ==
  /\ \A d \in valid :
       Cardinality({i \in DOMAIN set : set[i] = d})
         + (IF task.pc = "find" /\ task.sel = d THEN 1 ELSE 0) = Len(queue[d])
  /\ ~Unknown

(* When nothing is under way, the channels that Linux has are the devices   *)
(* of the application, each at its address, in whatever order link, list    *)
(* walk, additions and removals came; and at any time Linux hears of a      *)
(* device before it gets data of it, and gets none of one it knows is gone. *)
Settled ==
  link /\ app.pc = "idle" /\ tx = <<>> /\ task.pc \notin {"down", "bind", "announce"}
AnnouncedFirst ==
  tx # <<>> /\ Head(tx).kind = "data" =>
    [dev |-> Head(tx).dev, addr |-> Head(tx).from] \in channels
HostView ==
  /\ Settled => channels = {[dev |-> d, addr |-> addr[d]] : d \in valid}
  /\ AnnouncedFirst

(* A device that has received a message can answer: its destination is      *)
(* known from then on (set by oblfr_process_queue, reset by                 *)
(* oblfr_rpmsg_device_add, and touched by ipc_rpmsg_ns_callback).           *)
CanAnswer == \A d \in heard \cap valid : dst[d] # RL_ADDR_ANY

(* A device that is added becomes a channel of Linux, also when the link    *)
(* comes up in the middle of oblfr_rpmsg_device_add.                        *)
Announced ==
  \A d \in Devices :
    d \in valid ~> d \notin valid \/ \E c \in channels : c.dev = d

(* The callback of a device with messages gets called, however many come in *)
(* for the others.                                                          *)
Served ==
  \A d \in Devices :
    queue[d] # <<>> ~> queue[d] = <<>> \/ (task.pc = "callback" /\ task.cur = d)
=============================================================================
