# A TLA+ verification of OBLFR

OBLFR is a firmware framework for Bouffalo Lab microcontrollers (BL616, BL702,
BL808). Its own code is a set of components under `src/components`: a key/value
database in flash, software timers, buttons, indicators, a mailbox and an rpmsg
service between the two cores of the BL808. This directory models the components
whose correctness depends on the order in which things happen, checks them with
TLC on small instances and proves safety invariants of every one of them with TLAPS.

Run a model with `tlc -config <X>.cfg <module>` and the proofs of a module with
`tlapm <module>Proofs.tla`; those of Button, Indicator and Mailbox take a minute
or two each, those of Kved, Timer, RpmsgLite and RpmsgDevices several. `PROJECT.json`
lists the runs, maps every definition to its source lines and gives, for every property, a
mutation of the code that breaks it.

## 1. Inventory

| component | state | operations | interacts with | hard behaviour |
|---|---|---|---|---|
| **kved** `nvkvs/kved/kved.c` | two index sectors and two string sectors in flash; in RAM the sectors in use, entry counters, first free slot, next string place | init, deinit, read, write, delete, compact; internally recovery and sector switch | flash backend, a FreeRTOS mutex, nvkvs on top | power lost between any two flash words; flash can only clear bits; counter rollover; two copies of the database during a switch |
| **flash backends** `nvkvs/src/oblfr_kved_{flash,memory,file}.c` | the words of the sectors | read, program, erase | SDK flash driver, RAM | results of the driver are dropped |
| **nvkvs** `nvkvs/src/oblfr_nvkvs.c` | a context around kved | typed get, set, delete, iterate | kved | buffer sizes, conversion of types |
| **timer** `timer/oblfr_timer.c` | a sorted list of timers, its lock, the compare value and interrupt of the hardware timer, a notification | create, start once, start periodic, restart, stop, delete, is_active, deinit; interrupt and timer task | owners' tasks, hardware timer; users: button, indicator | the lock is given up between a periodic callback and its re-insertion; callbacks run under the lock; links left in removed timers |
| **button** `button/src/oblfr_button.c` | a list of buttons; per button the debounced level, debounce counter, state, ticks, repeat | create, delete, register callback; one scan per timer tick | timer, GPIO | narrow counters, long sequences of presses, a list without a lock |
| **indicator** `indicator/src/oblfr_indicator.c` | per indicator the step of each blink list, the active one, a mutex, a one-shot timer | create, delete, start, stop; the runner, as timer callback and in the caller | FreeRTOS timer service, GPIO | a step advanced outside the mutex, a lock that times out |
| **mailbox** `mailbox/src/oblfr_mailbox.c` | interrupt masks, pending bits of both cores, list of signal handlers, its lock | forward an interrupt, EOI, dispatch a signal, register, delete, mask, send | D0 core (Linux), peripherals, rpmsg | two cores, words of pending bits that are read and cleared at different times |
| **rpmsg devices** `rpmsg/src/oblfr_rpmsg.c` | a list of devices, each with queue, endpoint and destination; a queue set | add, remove, send; the rpmsg task; the name service callback | rpmsg-lite, application tasks | devices freed under the task's walk, a list without a lock, a link that comes up in the middle of a call |
| **rpmsg-lite** `rpmsg/rpmsg-lite` | two rings shared with Linux, indices, a lock, an interrupt counter | send, receive, release, kick; interrupt and poll | mailbox, rpmsg devices, Linux | rings served by an interrupt and a task, kicks lost or overwritten, a lock that interrupts pass by |
| **rest** | | system start, wifi port, board support, examples, build tools | | straight-line code, or not this project's |

What makes the modelled components correct:

- kved is a dictionary: a call changes its own key only, has taken effect when it
  returns `KVED_OK`, and losing power keeps every entry; of two signed index sectors
  the newer is always chosen; the database is never formatted again; the counters
  agree with the flash; strings never overlap.
- The timer list holds exactly the running timers, sorted; a stopped timer does not
  fire; a started one does; calls return.
- A button reports debounced, alternating press and release events and the number of
  clicks, and comes to rest.
- The mailbox loses no interrupt and forwards none twice, dispatches a signal to its
  handler and acknowledges it.
- The indicator shows the unfinished blink list of the highest priority, goes on as long
  as there is one, and never reads outside a list.
- rpmsg-lite is an ordered channel in each direction that loses and duplicates nothing,
  although kicks get lost; every buffer is in one place; a send with a timeout returns.
- Linux knows exactly the devices the application has, each under its address; every
  message reaches the callback of its device, which can then answer.

`PROJECT.json` lists under `hazards` every place where one of these could go wrong
and a test would hardly show it, with the property that covers it.

## 2. Modules and the code

### Kved, KvStore, KvedRefinement, KvedProofs

`Kved` models `kved.c` on top of the flash backend. **A step is one flash operation**
(one word programmed or one sector erased) together with the RAM updates that follow
it. The control point `pc` says before which operation the running call is, so power
may fail between any two (`PowerCut`, at the control points in `CutPoints`). The
exception is the copying of one entry during a switch, which is one step because the
target sectors are still unsigned and a partial copy is erased before it is used.

- `main[s]` is an index sector: signature, counter and slots (key, type, value).
  `str[s]` is the word array of a string sector: start signature, one header per entry,
  end signature, data. Flash words are abstracted to what the code tells apart; writing
  a word ANDs it with what is there (`And`), so a different word written over a used
  one is `GARBLED`, and the erased word `FREE` is the value `UINT64_MAX`, which a
  client may store too. A string occupies one data word; the code leaves one more free.
- `ctrl` is the RAM control block. `PowerOff` forgets it and the locals.
- `old`, `i`, `nxt`, `sidx` are locals of the running call that survive a flash operation.
- kved_init is `kved_sector_consistency_check`, `InitIndexSector`, `InitFormatIndex`,
  `InitStringSector`, `InitFormatString`, `kved_string_consistency_check`,
  `kved_data_consistency_check` and `ConsistencyCheckDone`; a write is
  `kved_data_write` and the `Write...` actions; a switch the `Switch...` actions.
- Calls are sequential: with `CONFIG_FREERTOS` the mutex makes them so, without it
  there is one caller. `lock` is the mutex.

`KvStore` is the abstract specification: a dictionary whose calls take effect in one
step between invocation and return, which loses nothing in a restart, and which fails
only for the documented reasons. `KvedRefinement` maps Kved to it in two ways. In
`DurableStore` the abstract dictionary is what the flash alone determines, so no state
in RAM can hide a loss. In `SessionStore` it is what kved_data_read returns in the
running session. `Persistent` says that between calls the two agree.

### Timer, TimerProofs

`next` and `prev` are the links of the BSD list the code uses; `LIST_REMOVE` works by
the links stored in the removed timer, so stale ones do their damage. Every timer has
an owner that makes the API calls; owners, timer task, interrupt and
oblfr_timer_deinit interleave. What the code does under the list lock without giving
it up is one step; each place where it locks anew is a control point. So a start is
four steps: ask whether the timer is active, set its fields, insert it, set the compare
value. Time is relative: `when[t]` is the time left.

The constants say which callers are modelled. `Careful` owners start a timer that is
not running and stop or restart one that is. The owners of the timers in `Below` run
only while the timer task rests, as a task of lower priority than the timer task does on
the single core. `CallbackStops` lets a callback stop its own timer.

### Button, ButtonProofs

One scan (`oblfr_button_handler`) is one step with any level read from the pin. `ticks`
has `TickBits` bits and `debounce_cnt` three, and both wrap around as in the code.
Every branch of the state machine is a definition of its own. `scan` flips with every
scan so that a scan that changes nothing is still a step; `hist` is history for the
properties.

### Mailbox, MailboxProofs

`d0` and `m0` are the words of pending bits at either core. A forwarded peripheral's
interrupt is switched off and its bit set at the D0 (`Send_IPC_IRQ`); the D0 serves it
and sends the bit back (`EndOfInterrupt`); IPC_M0_IRQHandler switches it on again. The
handler is two steps, reading the status and acting on the first known bit, then
clearing all the bits it has read, because the D0 runs in between. M0 tasks register,
delete and mask handlers under `lock`; they do not run while the handler does. The
comparison with the operation in the handler look-up is the assignment the code has
(`Matches`, `Overwritten`). What the D0 does is outside this repository and is modelled
from the protocol the M0 expects. With `Paced` it raises a bit only when its earlier
ones are cleared.

### RpmsgLite, MessageLink, RpmsgLiteProofs

`RpmsgLite` models the two rings, word by word where the order of writes matters. `avail`
and `used` are the two halves of each ring with their free-running indices, `mem` the
content of the buffers, `vq_available_idx` how far the M0 has taken buffers. A used entry
is written in one step and published by its index in the next (`PutUsed`, `PublishUsed`);
taking an Rx buffer is a read of the index and a store (`RxPeek`, `RxTake`), because the
interrupt and the poll of the rpmsg task both do it. `env_lock_mutex` and
`env_unlock_mutex` ask `in_isr_counter`, as in the code, and so does the poll's `env_isr`
raise it. The second lock, platform_lock around the mailbox registers, is taken only with
the first one held, and is left out. Allocation followed by rpmsg_lite_send_nocopy is
the same sequence of steps as rpmsg_lite_send. `sig` is the mailbox as the M0 uses it for
kicks: the ring number in its registers, which the next kick replaces (`overwritten`
remembers that). The link is up. The endpoints' queues are one sequence `queued`, in the
order in which the queue set reports them.

Linux owns the buffers; it is modelled from the virtio protocol the code follows and
is external. `world` fixes for each behaviour what the surroundings do: whether Linux
sends to unknown addresses (`stray`), whether it goes on serving (`serves`), where the
rpmsg task may be interrupted (`windows`), how many messages are sent.

`MessageLink` is what this promises: per sender a message on offer, and one ordered
channel to Linux and one to every endpoint. `Link` maps the rings to it: a channel is the
part of a ring between what one side has published and the other has read, then the
queues and the message in the callback.

### RpmsgDevices, RpmsgDevicesProofs

An application task, the rpmsg task, the interrupt and Linux, on the list, the queues and
the queue set of oblfr_rpmsg.c. Adding a device is six steps and removing one five, one
for each thing another task can see; `oblfr_rpmsg_task` waits for the link, binds the
name service, walks the list to announce, and then selects from the queue set and walks
the list to find the device. A device is named by the memory of its entry; `addr` is the
address of its endpoint, which rpmsg_lite_create_ept reuses; `dst` before line 160 is
what malloc left. Below, rpmsg-lite is the two ordered channels `tx` and `rx` that
`MessageLink` promises and `RpmsgLite` implements. `channels` is what Linux has been told.

`world.above` says that the application has a higher priority than the rpmsg task,
which then does not run during its calls; both have 5 by default, where either may
happen. In a `careful` world the application removes a device only in a quiet
moment (`Quiet`), and Linux sends nothing to a device that is being removed; where the
rpmsg task may overtake the application, it sends only over channels whose device has
been added and still has the address (`Welcome`). `Linked`, what LIST_FOREACH visits, is the
least set of devices that is closed under the links. The branch
"Received message on unknown queue" is no action: `SetExact` shows it is not reached.

### Indicator, IndicatorProofs

A caller's start or stop is taking the mutex, the update, and the check whether to run
the list at once; `_blink_list_runner` is reading the active list and its step, advancing
the step, taking the mutex or giving up on it after 100 ms, and acting on the step read.
It runs in the timer service and in callers. `windows` says at which of these points
(`Guarded`) other tasks may run; a step outside the list finds any kind of step there, as
memory has it. Steps are abstracted to their kind; a step that holds for 0 ms (`flash`)
goes on without the timer.

## 3. Runs

| run | config | checks | shows |
|---|---|---|---|
| `kved_restart` | MCKvedNum | TypeOK, NewestWins, StatsExact, Persistent, SectorKept, DurableStore | with power lost anywhere but between the value and the key of a new entry, kved is a durable dictionary |
| `kved_strings` | MCKvedStr | StringSpace, SessionStore | within a session, strings and numbers survive every write, deletion, compaction and switch |
| `kved_torn_write` | MCKvedTorn | OldValueKept, violated | see section 6 |
| `kved_string_restart` | MCKvedStrRestart | Persistent, violated | see section 6 |
| `timer_list` | MCTimer | ListIntact, NoLostLock | three timers with owners that preempt the timer task anywhere, deinit, callbacks that call the timers |
| `timer_calls` | MCTimerCalls | ListIntact, FiresOnlyArmed, Fires, CallsReturn | every call, with one owner below and one above the timer task; started timers fire, stopped ones do not, calls return |
| `timer_stop_race` | MCTimerStopRace | FiresOnlyArmed, violated | see section 6 |
| `button` | MCButton | TypeOK, Debounces, ClicksExact, Settles | every sequence of levels |
| `mailbox` | MCMailbox | OnePlace, TableExact, DispatchExact, Reenabled, SignalAcked | interrupts and signals against a D0 that raises one bit at a time |
| `rpmsg_link` | MCRpmsgLite | OnePlace, LockExact, LinkSpec, Delivered, Received, SendsReturn | the rings implement MessageLink and nothing gets stuck |
| `rpmsg_devices` | MCRpmsgDevices | WalkAlive, SetExact, HostView, CanAnswer, Announced, Served | devices come, go and talk while the link comes up |
| `indicator` | MCIndicator | StepsInList, PriorityKept, Driven, StopHolds, KeepsBlinking | three blink lists, a caller and the timer service |

Every module has a type invariant `TypeOK`. It is checked on its own for Kved and Button, and
elsewhere as the first conjunct of an invariant: ListIntact, OnePlace (Mailbox), LockExact,
WalkAlive, PriorityKept. HostView includes that Linux hears of a device before its data.

**Bounds.** *kved*: two keys and two entries make the index fill up, a key be updated
into the last slot, the table be full, and every switch copy live and drop deleted
entries; `CntMax = 3` makes the counter roll over after three switches, so every order
of old and new counter occurs; the two numbers are an ordinary one and `UINT64_MAX`.
Keys are symmetric where every key has the same types. *Timer*: three timers give an
insertion in front of, between and behind others and a removal in the middle; timeouts
1 and 2 give equal and different expiries; `MaxDelay` stands for the 1000 ms cap of the
compare value, below and at a timeout; `MaxLate` bounds how long the timer task may be
kept from running, and beyond it time stands still. *Button*: debounce, click and
long-press limits differ pairwise where the code has different constants; five bits of
ticks wrap around during a press that is held; three presses are a single, a double and a
longer click. *Mailbox*: two forwarded peripherals and one that is not, two services,
two tasks; the repository uses a single operation, and it is odd. *timer_calls* has one
timeout, beyond the cap: the two timers expire together or one after the other by
when they are started, and three timers with different timeouts are left to `timer_list`.
*RpmsgLite*: rings of two buffers run empty and full, and indices modulo 4 wrap around
after four messages; a world has unlimited messages in one ring at a time, or a few in
both, where the kicks of one ring overwrite those of the other; two senders compete for
two buffers; timeouts are none and one interval. *RpmsgDevices*: two devices make a
list with a second element, reuse an address and compete for the two Rx buffers; one
message on its way to Linux (`MaxTx`) lets announcements block. The worlds are `Above`
(with strays), `Named` (Linux announces endpoints of its own) and `Beside` (the rpmsg task
may overtake the application). *Indicator*: a list that ends after a step of 0 ms, one that
loops and one that ends, of falling priority; one caller; nothing runs in the guarded
stretches, or the mutex may be held beyond the 100 ms. StepsInList and KeepsBlinking
speak of the first case only (`Calm`), the other properties of both.

`timer_list` does not check for deadlock: with `CallbackStops` a callback waits for the
lock its own task holds, and everything stops there (section 6). It also stops after
oblfr_timer_deinit. `rpmsg_devices` may stop when all Rx buffers were in queues
that were destroyed (`AddFailed`).

**Fairness.** *Timer*: time passes, the interrupt recurs and a notified task runs (weak
fairness); the timer task and an owner in a call get the list lock in the end (strong
fairness): FreeRTOS hands a semaphore to a task that waits for it, and in `timer_calls`
no callback blocks while the lock is held. Again and again the timer task rests: the
compare value is at least a millisecond ahead, in which it is assumed to finish its list. Owners need not call anything. *Button*: the scan
timer is periodic and goes on (weak fairness of `Next`); nothing is assumed of the
levels, and `Settles` itself has the pin released for good as its premise.
*Mailbox*: interrupts are taken, handlers finish, the D0 serves what it gets (weak
fairness), and sends its EOI although other bits keep getting in between (strong
fairness). The D0 need not send signals and tasks need not call. *RpmsgLite*: tasks that
are ready run, and one that waits for the lock gets it (strong fairness); the callback
of the interrupt finishes; Linux takes kicks and reads only in worlds where it `serves`,
and nothing is assumed of the interrupt, so Delivered rests on the poll alone.
*RpmsgDevices*: calls in progress and the rpmsg task go on (strong fairness, they wait for
Linux to free a buffer), messages of Linux are noticed, the link comes up, Linux reads.
*Indicator*: strong fairness of a caller in a call, of the runners and of the timer; callers
need not call. *Kved* has no liveness property.

## 4. Proofs

Every theorem holds for all values of the constants that satisfy the module's named
`ASSUME`s (TLC evaluates them in every run) and the hypotheses named below. A hypothesis
is a definition of its own that says which surroundings the code needs; the instances of
section 3 satisfy it, and section 6 says what happens without it.

| theorem | states | for |
|---|---|---|
| KvedProofs | `[]TypeOK`, `[]NewestWins`, `SectorKept` | all keys, values, strings, sizes, cut points |
| | `[]StatsExact` | the same, `WholeEntries` |
| | `[]Persistent`, `DurableStore` | the same, `WholeEntries`, `NumbersOnly` |
| | `[]StringSpace` | all keys, values, strings and sizes, `OneSession` |
| | `SessionStore` | the same, `OneSession`, `OneType` |
| ButtonProofs | `[]TypeOK`, `Debounces`, `ClicksExact` | all limits and widths of ticks |
| IndicatorProofs | `[]PriorityKept`, `StopHolds`, `[]StepsInList` | all lists, `Undisturbed` |
| | `[]Driven` | the same, `OneCaller` |
| MailboxProofs | `[]OnePlace` | all devices and services, `Paced` |
| | `[]TableExact`, `DispatchExact` | the same, `OneOddOp` |
| TimerProofs | `[]TypeOK`, `[]NoLostLock` | all timers, timeouts, owners, disciplined or not |
| | `[]ListIntact` | `Disciplined` |
| | `[]FiresOnlyArmed` | `Disciplined`, no oblfr_timer_deinit |
| RpmsgLiteProofs | `[]LockExact` | all N, indices, senders, `Spared` |
| | `[]OnePlace`, `LinkSpec` | the same, `OneWriter` |
| RpmsgDevicesProofs | `[](Firm => P)` for WalkAlive, SetExact, HostView, CanAnswer | all devices and worlds |

Few of these invariants are inductive next to the types (TableExact and Driven are, under
their hypotheses); the strengthenings are the argument of the proofs.

**Kved.** `IInv == TypeOK /\ CallInv /\ SectorInv`. NewestWins and SectorKept each speak of
the moment the second signature is written or the first cleared, and hold there because
of what was established many steps before. `SectorInv` says for each group of control
points which sectors are signed and how their counters are related: both are signed only
at the end of a switch or after power was lost there, and then one counter is the
successor of the other; while formatting, none is signed; once a sector is selected it is
signed, except that at `sw_sig` the original still is; from `sw_sig` on the new sector
carries the successor counter; a signed sector's counter is never the erased word.
`CallInv` ties the call to its control point: who is in kved_init, who is writing, and that
an entry is appended only for a key that was accepted. `CntMax` has to be at least 3: with
two counter values a counter that rolled over looks like its predecessor.

What the sectors hold needs two hypotheses, because the code fails without them (section 6):
`WholeEntries`, power does not fail between the value and the key of an entry, and
`NumbersOnly`, the clients write no strings. The run `kved_restart` satisfies both.
`EInv` is about keys: a signed sector is filled from the front and erased behind
(`FormInv`); the counters of `ctrl` agree with the sector in use from the moment they are
read, through every step of a write or a switch (`CountInv`); a write goes on only where
there is room, or will be after the switch (`RoomInv`); `old` is the only entry of the
call's key (`OldInv`); the copy has the keys the switch has passed, once each (`CopyInv`); no
key has two entries, except while one replaces the other, and until kved_init has removed
one that power loss left (`UniqueInv`). StatsExact is CountInv between calls; the counting
is in lemmas about one entry that changes (`NumStep`, `KeyWritten`, `EntryDropped`).
`DInv` is about values: entries are numbers (`NumInv`), the new entry holds what the call
wants, the copy holds what the original does, with the new value for the call's key
(`DataInv`), and the string sector of the copy is signed before the check (`TextInv`), so
that a switch never ends in KVED_CORRUPT_TABLE.
DurableStore then goes step by step: the dictionary is the `Content` of the one sector
that a restart would choose (`Home`, from NewestWins), an entry that is superseded does not
count (`ContentSame`), and it changes in three actions only: when the key of a new entry is
written, at a deletion by the client, and when the signature of a copy makes it count
(`CopySame`). kved_init, the removal of the old entry and the rest of a switch leave it alone.
That KVED_TABLE_FULL is returned only to a full dictionary is a bijection from slots to
keys (`TableFull`).

Strings are proved for one session, which ends with the power (`OneSession`: after a
restart kved takes the wrong string sector and forgets where the strings end, section 6).
`SInv` is about places: which signatures each string sector has at every step of a format or a
switch (`SealInv`), that the headers and texts written are the first ones, that
next_free_index and next_free_sector stand right behind them, and that there is a text for
every entry of the index at most, but for the one whose entry is being written (`PlaceInv`).
StringSpace follows: a free entry has a free header and a free text. `RInv` is about what is
read and adds that every key is written with one type (`OneType`: the code reads a stored
value by the type of the caller, or of the old entry, section 6). Every string entry leads
to a header in use and a text of the client (`SoundInv`), and the entries that a write or a
switch has made mean what the caller wrote, or what the original meant, although the copy
has new indices and places (`MeantInv`). SessionStore goes through all actions with
`SessionInv`: the dictionary gives every key the meaning of its first entry (`Seen`), which a
text behind those in use does not change (`SeenTexts`), nor an entry of another key or
behind the first (`SeenSame`). For a new key the dictionary changes when its word is written, for
an old one when its entry is removed, and for one replaced in a switch when kved adopts the
copy; at a deletion it loses the key, and every other step leaves it alone.

**Button.** `DebounceInv`: the counter never runs ahead of the number of equal readings, and
runs only while they differ from the debounced level. `ClickInv`: what each state of the
machine knows about the presses it has reported, in particular that `repeat` counts them
and `ticks` never exceeds the time held, although both wrap around.

**Indicator.** `Undisturbed`: nothing runs between the runner's look at the step and its
mutex. The active list is then always the one `_blink_list_switch` would choose; `MutexInv`,
`CallInv` and `RunnerInv` say who holds the mutex and that a runner on its way works for the
active list. `CalmInv` adds that at most one task is in a guarded stretch, that what it has
in hand is a step of its list, and that steps not in hand are in their lists. Driven has
one caller as hypothesis because with two it is false.

**Mailbox.** `SignalInv` follows a signal: its bit, its acknowledgement on the way, the
registers it is read from. `PacedInv` says that with a D0 that raises one bit at a time the
handler has read all that is pending; then the bits it clears are the one it has served, and
`PlaceInv` (the four places of an interrupt exclude each other) is inductive. With one odd
operation (`OneOddOp`) a walk over the handler table changes nothing, which is what
TableExact and DispatchExact rest on.

**Timer.** `LockInv` gives the control points of those who hold the lock; it needs no
discipline, and NoLostLock follows. `Disciplined` is: timers are started when they do not
run, and stopped or restarted when they do, by tasks below the timer task, if periodic. Then
(`ChainInv`) there is a sequence of timers from the head on that agrees with `next` and
`prev`, has exactly the timers that are armed and not in the hands of the timer task, each
once, and is sorted by the time left. `OwnerInv` and `TaskInv` say what calls and task know
at each control point: stale links of removed timers exist, but only outside the chain.
The induction ends where oblfr_timer_deinit takes the list apart. The search for the place of
an insertion is a least position.

**RpmsgLite.** `CountInv`: in_isr_counter is the number of contexts in the receive callback.
`Spared`: no other context of the M0 runs while the rpmsg task polls; then the semaphore is
taken exactly while one user is inside (`LockInv`). For OnePlace, `OneWriter` adds that Linux
sends to known endpoints if the interrupt may hit the release of a buffer. `TxInv` and
`RxInv` describe each ring by the windows of its indices: the buffers on offer and those on
their way back, each once, disjoint from each other and from those somebody holds, together
all. Indices are modular, so windows are sets of positions at a distance below `N`, and the
lemmas on `Dist` and `Pos` carry the wrap-around; that a ring never overflows is counting
(`RingHolds`). `ServeInv` says that the interrupt and the poll do not take from the ring at
the same time.
LinkSpec, that the rings implement `MessageLink`, adds `FillInv`: a buffer about to be
published holds its sender's message, which nobody overwrites, since buffers are in one
place. The channel to an endpoint is the `Addressed` part of the content of the unread
buffers, the cells at the positions with that address in rising order; the lemmas say what
one cell more at the end (`AddressedAppend`) and one less at its place (`AddressedDrop`,
`AddressedTake`) do to it. The abstract steps then are: a call offers its message or gives
up, and raising the used index sends it (`SenderLink`); Linux reading takes one (`HostLink`); Linux
raising the available index posts one, and the end of a callback receives it (`OtherLink`). A buffer for
no endpoint comes and goes without having been in any channel, and every other step moves
buffers between places of the same channel, which is a stutter.

**RpmsgDevices.** `Firm` is: the application and Linux are careful, and there are no stray
messages where the rpmsg task may overtake the application. All worlds of the run are
firm. Which devices have an endpoint, are linked, in the queue set and known to Linux is a function
of the call in progress (`Bound`, `Listed`, `Grouped`, `Known`). `OrderInv`: there are ranks
by which the list is strictly falling, so that a walk visits what is linked, once, and what
a walk still has to do are the smaller ranks; an insertion at the head raises the anchor.
`SetInv` counts the entries of the queue set. `HostInv` treats Linux's channels as place 0
of the messages on their way to it: what they say about a device agrees unless a DESTROY is
in between, data come after an announcement that still holds, and a known device has been told of
or is `Fresh`: not announced since the link came up, nowhere mentioned, and ahead of the
task's walk. A rpmsg task beside the application may walk over the device being added
(`Passed`) and announce it before the application does, so that Linux may know more devices
(`Public`) than it has to. `OvertakeInv` says why no more goes wrong: during a removal the
task waits in its select, and nothing has been sent to a device being added, whose queue
is still empty.

Where a proof needs induction over data (walks, searches, first positions), it takes a least
counterexample instead (`Least`, from the well-foundedness of the naturals).

Only model-checked:

- liveness, out of the prover's reach: Settles, Reenabled, SignalAcked, KeepsBlinking, Fires,
  CallsReturn, Delivered, Received, SendsReturn, Announced, Served.

## 5. Not modelled

- The kved iterator and queries, which change nothing; sector addresses; strings longer
  than one word; failing flash operations, which the backend reports to nobody.
- The memory backend (the same operations in RAM), the file backend (not compiled).
- nvkvs: conversions of types and buffer sizes around single kved calls.
- The lists of buttons and of indicators: creation and deletion, which share a list with
  the timer task without any lock.
- rpmsg: failing allocations, two application tasks at once (the device list has no lock, so
  two of them can lose an entry, `oblfr_rpmsg.c:136`), and the start before the
  link is up inside rpmsg-lite; its master role, static API, other ports and
  deinitialisation, which this firmware does not use. The name service's match by prefix
  (`oblfr_rpmsg.c:57`) is modelled as a match by name.
- wifi (a port of a binary library, with some 38,000 lines of generated register
  headers), board support, examples and boot loaders (straight-line set-up), build tools.
- In the mailbox: counters, clocks and pins, the content of outgoing signals other than
  the kicks of rpmsg-lite.

The map covers the components whose behaviour depends on order and state. It is a small
share of all the lines under `src/`, most of which are register definitions, third-party
ports and straight-line set-up.

## 6. Deviations

Found by a run, with the trace TLC prints:

1. `kved_torn_write`: power is lost between the value and the key of a new entry.
   kved_init counts the free slots (`kved.c:1203`) before the consistency check
   (`kved.c:1230`) invalidates the half-written one, so `first_free_index` still points
   at it. The next update writes there; the AND-ing flash keeps the zeroed key; the old
   entry is then deleted, and neither value is left. `kved/README.md:13` says that old
   values are not lost. `kved_restart` excludes just this cut point.
2. `kved_string_restart`: kved_init takes string sector A whenever it is signed
   (`kved.c:1210`), but a switch never invalidates the old string sector. After a switch
   from A to B and a restart, the index of B is read with the strings of A.
   `kved_strings` therefore stays within one session.
3. `timer_stop_race`: a stop that gets the lock while the timer task has a periodic timer
   out of the list (`oblfr_timer.c:140`) removes nothing, returns `OBLFR_OK`, and the
   timer goes on firing. Owners below the timer task cannot get there (`timer_calls`);
   by default app_main, at priority 5, is above it.

Seen with other instances of the same models, or in the code while modelling it:

- kved: on a full table kved_data_write calls kved_dump, which takes the mutex the call
  holds (`kved.c:656`): with `CONFIG_FREERTOS` step `kved_dump` has no successor. The
  place of the next string is not recomputed at start (`kved.c:1067`), so the first
  string of a session overwrites a stored one. The type of a stored entry is not looked at
  when a value is compared (`kved.c:636`), and a switch stores the new value as the old
  entry's type (`kved.c:490`): a key written first as a number and then as a string, or
  the other way round, is read as something else (`OneType`).
- timer: stopping a timer that has expired unlinks it by stale links
  (`oblfr_timer.c:291`; `Careful = FALSE` breaks ListIntact); is_active is false for the
  last timer of the list (`:319`), so that a restart refuses it; for any other timer the
  link that the removal leaves behind makes the start inside the restart refuse it
  (`:275`), and the timer is lost, as a timer stopped in front of another cannot be
  started again; the time left of an overdue head wraps around, and the interrupt
  comes after the capped delay (`:74`); a timer started while deinit walks the list
  stays in it (`:202`); a callback that calls the API waits for ever (`:135`).
- button: with `DEBOUNCE_TICKS = 8`, allowed by the comment at `oblfr_button.c:88`, the
  three-bit counter never gets there; the first hold events come in a burst (`:162`);
  short presses are compared with the global limit in one state and with the button's
  own in another (`:150`).
- mailbox: IPC_M0_IRQHandler acts on the first known bit and clears all it has read
  (`oblfr_mailbox.c:230`, `:236`). Of two EOIs that arrive together one is lost, and its
  peripheral stays off (`Paced = FALSE` breaks Reenabled and OnePlace).
- mailbox: `s->op = op` in the look-up (`oblfr_mailbox.c:183`) makes every odd operation
  match and overwrites the operations of the handlers it passes; the EOI of a signal goes
  out before its bit is cleared (`:204`, `:236`), so a D0 that answers at once loses
  a signal; a signal that finds the list locked is acknowledged and dropped (`:178`);
  an outgoing signal overwrites one the D0 has not read (`:332`).
- rpmsg-lite: the poll raises in_isr_counter in a task (`oblfr_rpmsg.c:417`). A sender that
  preempts it passes the lock by, or gives none back after having taken one
  (`rpmsg_platform.c:116`): with `"poll"` in `windows` LockExact fails, and so do OnePlace
  and LinkSpec, since the interrupt may also take a buffer between the poll's read and
  store of the index (`virtqueue.c:358`). With `"free"` and strays the interrupt hands a
  buffer back in the middle of the task's release (`virtqueue.c:633`) and one of the two
  entries is lost (OnePlace). Without an end to stray messages the loop of
  rpmsg_lite_rx_callback need not end. A kick for ring Tx that is overwritten by one for
  ring Rx leaves a message unread until the next send (the premise of Received).
- rpmsg devices: without `careful`, a removal frees the device the rpmsg task is at
  (WalkAlive, `oblfr_rpmsg.c:188`), destroys a queue that is still in the set, with the
  buffers in it (SetExact, `:189`), and may be overtaken by an announcement when the link
  comes up after the test at `:180` (HostView); a message that arrives before `:160` is
  answered by nobody, as the destination is reset (CanAnswer), and before that the
  destination is what malloc left. When xQueueAddToSet fails, the entry is never freed and
  its messages keep their buffers (`:137`); if the rpmsg task is announcing this device, Linux
  keeps a channel without device (HostView). A removed device's address is given to the
  next one, which gets the late messages of the first (`rpmsg_lite.c:463`); if that one is
still being added, its destination is then reset behind the message (CanAnswer), which is
why `Welcome` speaks of the address. An announcement
  that an endpoint of Linux is gone sets the destination to 0, which the send functions
  accept (`:65`).
- indicator: the runner advances the step before it has the mutex (`oblfr_indicator.c:275`).
  If others run there, a stopped list comes back (-1 + 1 is its first step; StopHolds,
  PriorityKept), although `oblfr_indicator.h` says that a list can be stopped "at any
  time, no matter it is executing or waiting to be executed". A runner that gives up on the mutex at a LOOP step
  leaves the step behind the end of the list, where the next one reads (`:277`,
  StepsInList without `Calm`). With two callers a list can stay active with nobody to show
  it, when a start and a stop of another list fall between its update and its check
  (`:413`, Driven). `off_level` is used the other way round than its comment says, and
  oblfr_indicator_delete deletes a mutex that it holds and a runner may wait for.

## 7. Plan

Done: Kved with its abstract specification, Timer, Button, Mailbox,
RpmsgLite with its abstract specification, RpmsgDevices on top of it, Indicator, and
proofs of their safety properties.

1. *Button list*: creation and deletion against the scan in the timer task, with the
   indicator's list as a second instance.
2. *nvkvs* and the memory backend over Kved; the kved iterator as an operator checked
   against the set of used slots; the layout of the sectors for every sector size.
