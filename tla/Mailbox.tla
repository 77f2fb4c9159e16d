------------------------------ MODULE Mailbox ------------------------------
(***************************************************************************)
(* The mailbox between the M0 core, which runs this firmware, and the D0   *)
(* core, which runs Linux (components/mailbox).  The M0 forwards           *)
(* peripheral interrupts to the D0 and switches them off until the D0 says *)
(* that it has served them (EOI); the D0 sends signals, which the M0       *)
(* dispatches to registered handlers and acknowledges.                     *)
(*                                                                         *)
(* Each core sees one word of pending bits: a device's bit, MBOX_TX for    *)
(* signals of the M0 and MBOX_RX for signals of the D0.  The cores run in  *)
(* parallel; on the M0 an interrupt handler is not interrupted.  What the  *)
(* D0 does is outside this repository.                                     *)
(***************************************************************************)
EXTENDS Naturals, Sequences

CONSTANTS Devices,    \* peripherals, by the number of their bit
          Forwarded,  \* those whose forwarding is configured
          Services, Ops,
          Tasks,      \* tasks of the M0 that call the API
          Paced       \* does the D0 wait until the M0 has cleared all earlier bits?

MBOX_TX == 5
MBOX_RX == 6

ASSUME DevicesAssumption == Devices \subseteq 0 .. 4 /\ Forwarded \subseteq Devices
ASSUME SignalsAssumption == Services \subseteq Nat /\ Ops \subseteq Nat /\ Paced \in BOOLEAN

Signals == Services \X Ops
NoSignal == <<0, 0>>
None == "none"

VARIABLES asserted,   \* the peripherals that request an interrupt
          enabled,    \* the peripheral interrupts the M0 takes
          d0, m0,     \* the bits pending at either core
          isr,        \* IPC_M0_IRQHandler: control point and irqStatus
          signals,    \* oblfr_mbox_signals: service, op, and the handler as registered
          lock,       \* the task that holds oblfr_mbox_signals_lock
          task,       \* the tasks: control point, call and arguments
          inbox,      \* the registers with the signal of the D0
          serving,    \* the peripherals the D0 is serving
          sent,       \* the D0 waits for the EOI of its signal
          registered, \* history: the handlers added and not deleted
          ran         \* history: the handler IPC_M0_IRQHandler has called

irqs == <<asserted, enabled, serving>>
table == <<signals, lock, task, registered>>
vars == <<irqs, d0, m0, isr, table, inbox, sent, ran>>

Idle == [pc |-> "idle", op |-> None, sig |-> NoSignal]

Init ==
  /\ asserted = {} /\ enabled = Forwarded /\ serving = {}
  /\ d0 = {} /\ m0 = {} /\ isr = [pc |-> "idle", status |-> {}]
  /\ signals = <<>> /\ lock = None /\ task = [t \in Tasks |-> Idle] /\ registered = {}
  /\ inbox = NoSignal /\ sent = FALSE /\ ran = NoSignal

-----------------------------------------------------------------------------
(* The peripherals and their handlers *)
Request(d) ==
  /\ d \in Forwarded \ asserted
  /\ asserted' = asserted \cup {d}
  /\ UNCHANGED <<enabled, serving, d0, m0, isr, table, inbox, sent, ran>>

(* Mutant: the interrupt stays on while the D0 serves it. *)
Send_IPC_IRQ_enabled(d) ==
  /\ isr.pc = "idle" /\ d \in asserted \cap enabled
  /\ d0' = d0 \cup {d}
  /\ UNCHANGED <<irqs, m0, isr, table, inbox, sent, ran>>

Send_IPC_IRQ(d) ==
  /\ isr.pc = "idle" /\ d \in asserted \cap enabled
  /\ enabled' = enabled \ {d}
  /\ d0' = d0 \cup {d}
  /\ UNCHANGED <<asserted, serving, m0, isr, table, inbox, sent, ran>>

-----------------------------------------------------------------------------
(* The walk through the list of signals.  The condition                     *)
(* (s->service == service) & (s->op = op) overwrites the op of every entry  *)
(* it looks at, and is true for the service if the lowest bit of op is set. *)

(* Mutant: the service is not compared. *)
Matches_any(s, sig) == sig[2] % 2 = 1

Matches(s, sig) == s.service = sig[1] /\ sig[2] % 2 = 1
Looked(sig) == {n \in DOMAIN signals : \A j \in 1 .. n - 1 : ~Matches(signals[j], sig)}
Match(sig) == {n \in Looked(sig) : Matches(signals[n], sig)}
Overwritten(sig) ==
  [n \in DOMAIN signals |-> IF n \in Looked(sig) THEN [signals[n] EXCEPT !.op = sig[2]]
                            ELSE signals[n]]

(* Mutant: a signal that finds the list locked is not acknowledged. *)
oblfr_mailbox_signal_handler_silent ==
  IF lock # None
    THEN UNCHANGED <<d0, signals, ran>>
    ELSE /\ signals' = Overwritten(inbox)
         /\ ran' = IF Match(inbox) = {} THEN NoSignal
                   ELSE signals[CHOOSE n \in Match(inbox) : TRUE].handler
         /\ d0' = d0 \cup {MBOX_RX}

(* A signal that finds the list locked by a task is dropped. *)
oblfr_mailbox_signal_handler ==
  /\ IF lock # None
       THEN UNCHANGED <<signals, ran>>
       ELSE /\ signals' = Overwritten(inbox)
            /\ ran' = IF Match(inbox) = {} THEN NoSignal
                      ELSE signals[CHOOSE n \in Match(inbox) : TRUE].handler
  /\ d0' = d0 \cup {MBOX_RX}

(* The bit the handler acts on: the lowest one it knows. *)
Known == m0 \cap (Forwarded \cup {MBOX_TX, MBOX_RX})
Lowest(S) == {b \in S : \A c \in S : b <= c}

(* Mutant: the EOI of a peripheral does not switch its interrupt on. *)
ReenableIRQ_off(d) == UNCHANGED <<enabled, d0, signals, ran>>

ReenableIRQ(d) ==
  /\ enabled' = enabled \cup {d}
  /\ UNCHANGED <<d0, signals, ran>>

IPC_M0_IRQHandler ==
  /\ isr.pc = "idle" /\ m0 # {}
  /\ isr' = [pc |-> "clear", status |-> m0]
  /\ \/ MBOX_RX \in Lowest(Known) /\ oblfr_mailbox_signal_handler /\ UNCHANGED enabled
     \/ Lowest(Known) \in {{}, {MBOX_TX}} /\ UNCHANGED <<enabled, d0, signals, ran>>
     \/ \E d \in Lowest(Known) \ {MBOX_TX, MBOX_RX} : ReenableIRQ(d)
  /\ UNCHANGED <<asserted, serving, m0, lock, task, registered, inbox, sent>>

(* At the end all the bits that were read are cleared. *)
ClearStatus ==
  /\ isr.pc = "clear"
  /\ m0' = m0 \ isr.status
  /\ isr' = [pc |-> "idle", status |-> {}] /\ ran' = NoSignal
  /\ UNCHANGED <<irqs, d0, table, inbox, sent>>

-----------------------------------------------------------------------------
(* The API.  A task runs while no handler does. *)
Runs(t, pc) == isr.pc = "idle" /\ task[t].pc = pc
Goto(t, pc) == task' = [task EXCEPT ![t].pc = pc]
Call(t, op, sig) ==
  /\ Runs(t, "idle")
  /\ task' = [task EXCEPT ![t] = [pc |-> "lock", op |-> op, sig |-> sig]]
  /\ UNCHANGED <<irqs, d0, m0, isr, signals, lock, registered, inbox, sent, ran>>

oblfr_mailbox_add_signal_handler(t) == \E sig \in Signals : Call(t, "add", sig)
oblfr_mailbox_del_signal_handler(t) == \E sig \in Signals : Call(t, "del", sig)
(* oblfr_mailbox_mask_signal, _unmask_signal and _dump change nothing.      *)
oblfr_mailbox_mask_signal(t) == Call(t, "mask", NoSignal)

oblfr_mailbox_signal_lock(t) ==
  /\ Runs(t, "lock") /\ lock = None
  /\ Goto(t, "locked") /\ lock' = t
  /\ UNCHANGED <<irqs, d0, m0, isr, signals, registered, inbox, sent, ran>>

(* After two seconds the call gives up. *)
LockTimeout(t) ==
  /\ Runs(t, "lock") /\ lock # None
  /\ task' = [task EXCEPT ![t] = Idle]
  /\ UNCHANGED <<irqs, d0, m0, isr, signals, lock, registered, inbox, sent, ran>>

Unlock(t) ==
  /\ lock' = None /\ task' = [task EXCEPT ![t] = Idle]
  /\ UNCHANGED <<irqs, d0, m0, isr, inbox, sent, ran>>

(* A signal that is already registered is refused, as is every signal when  *)
(* there is no memory.                                                      *)
AddRefused(t) ==
  /\ Runs(t, "locked") /\ task[t].op = "add"
  /\ signals' = Overwritten(task[t].sig)
  /\ UNCHANGED registered
  /\ Unlock(t)

(* Mutant: a signal may be registered twice. *)
AddSignal_unchecked(t) ==
  LET sig == task[t].sig
  IN  /\ Runs(t, "locked") /\ task[t].op = "add"
      /\ signals' = <<[service |-> sig[1], op |-> sig[2], handler |-> sig]>> \o Overwritten(sig)
      /\ registered' = registered \cup {sig}
      /\ Unlock(t)

AddSignal(t) ==
  LET sig == task[t].sig
  IN  /\ Runs(t, "locked") /\ task[t].op = "add" /\ Match(sig) = {}
      /\ signals' = <<[service |-> sig[1], op |-> sig[2], handler |-> sig]>> \o Overwritten(sig)
      /\ registered' = registered \cup {sig}
      /\ Unlock(t)

Without(n) == [j \in 1 .. Len(signals) - 1 |-> signals[IF j < n THEN j ELSE j + 1]]
Deleted(sig) == {n \in DOMAIN signals : /\ <<signals[n].service, signals[n].op>> = sig
                                        /\ \A j \in 1 .. n - 1 :
                                             <<signals[j].service, signals[j].op>> # sig}

(* Here the comparison is the intended one; the call succeeds in any case.  *)
DelSignal(t) ==
  LET sig == task[t].sig
  IN  /\ Runs(t, "locked") /\ task[t].op = "del"
      /\ signals' = IF Deleted(sig) = {} THEN signals ELSE Without(CHOOSE n \in Deleted(sig) : TRUE)
      /\ registered' = registered \ {sig}
      /\ Unlock(t)

Inspect(t) ==
  /\ Runs(t, "locked") /\ task[t].op = "mask"
  /\ UNCHANGED <<signals, registered>>
  /\ Unlock(t)

(* The registers are written, and the bit set, whether or not the D0 has    *)
(* read the last signal; its content is not modelled.                       *)
oblfr_mailbox_send_signal(t) ==
  /\ Runs(t, "idle")
  /\ d0' = d0 \cup {MBOX_TX}
  /\ UNCHANGED <<irqs, m0, isr, table, inbox, sent, ran>>

-----------------------------------------------------------------------------
(* The D0 *)
MayRaise == Paced => m0 = {} /\ isr.pc = "idle"
Raise(b) == MayRaise /\ m0' = m0 \cup {b}

Serve(d) ==
  /\ d \in d0 \cap Devices
  /\ d0' = d0 \ {d} /\ serving' = serving \cup {d}
  /\ UNCHANGED <<asserted, enabled, m0, isr, table, inbox, sent, ran>>

EndOfInterrupt(d) ==
  /\ d \in serving
  /\ Raise(d)
  /\ serving' = serving \ {d} /\ asserted' = asserted \ {d}
  /\ UNCHANGED <<enabled, d0, isr, table, inbox, sent, ran>>

SendSignal ==
  /\ ~sent /\ sent' = TRUE
  /\ inbox' \in Signals
  /\ Raise(MBOX_RX)
  /\ UNCHANGED <<irqs, d0, isr, table, ran>>

(* The EOI of a signal of the D0, and the D0's own of a signal of the M0.   *)
Acknowledged ==
  /\ MBOX_RX \in d0
  /\ d0' = d0 \ {MBOX_RX} /\ sent' = FALSE
  /\ inbox' = NoSignal   \* not read again before the next SendSignal
  /\ UNCHANGED <<irqs, m0, isr, table, ran>>
Acknowledge ==
  /\ MBOX_TX \in d0
  /\ d0' = d0 \ {MBOX_TX} /\ Raise(MBOX_TX)
  /\ UNCHANGED <<irqs, isr, table, inbox, sent, ran>>

(* A bit that belongs to no forwarded peripheral. *)
Stray(d) ==
  /\ d \in Devices \ Forwarded
  /\ Raise(d)
  /\ UNCHANGED <<irqs, d0, isr, table, inbox, sent, ran>>

-----------------------------------------------------------------------------
TaskCall(t) ==
  \/ oblfr_mailbox_add_signal_handler(t) \/ oblfr_mailbox_del_signal_handler(t)
  \/ oblfr_mailbox_mask_signal(t) \/ oblfr_mailbox_send_signal(t)
TaskStep(t) ==
  \/ oblfr_mailbox_signal_lock(t) \/ LockTimeout(t) \/ AddRefused(t) \/ AddSignal(t)
  \/ DelSignal(t) \/ Inspect(t)

Next ==
  \/ \E d \in Devices : Request(d) \/ Send_IPC_IRQ(d) \/ Serve(d) \/ EndOfInterrupt(d) \/ Stray(d)
  \/ IPC_M0_IRQHandler \/ ClearStatus
  \/ \E t \in Tasks : TaskCall(t) \/ TaskStep(t)
  \/ SendSignal \/ Acknowledged \/ Acknowledge

Spec == Init /\ [][Next]_vars

(* Interrupts are taken, handlers run to their end, and the D0 serves and   *)
(* acknowledges what it is sent; it need not send anything.                 *)
FairSpec ==
  /\ Spec
  /\ WF_vars(IPC_M0_IRQHandler) /\ WF_vars(ClearStatus)
  /\ \A d \in Devices : WF_vars(Send_IPC_IRQ(d)) /\ WF_vars(Serve(d)) /\ SF_vars(EndOfInterrupt(d))
  /\ WF_vars(Acknowledged)
-----------------------------------------------------------------------------
(* Types: no interrupt is ever switched on that is not forwarded, either.   *)
TypeOK ==
  /\ asserted \subseteq Forwarded /\ enabled \subseteq Forwarded /\ serving \subseteq Forwarded
  /\ d0 \subseteq Forwarded \cup {MBOX_TX, MBOX_RX}
  /\ m0 \subseteq Devices \cup {MBOX_TX, MBOX_RX}
  /\ isr \in [pc : {"idle", "clear"}, status : SUBSET (Devices \cup {MBOX_TX, MBOX_RX})]
  /\ signals \in Seq([service : Services, op : Ops, handler : Signals])
  /\ lock \in Tasks \cup {None} /\ registered \subseteq Signals
  /\ task \in [Tasks -> [pc : {"idle", "lock", "locked"}, op : {None, "add", "del", "mask"},
                         sig : Signals \cup {NoSignal}]]
  /\ inbox \in Signals \cup {NoSignal}
  /\ ran \in Signals \cup {NoSignal} /\ sent \in BOOLEAN

(* Where a peripheral interrupt can be.  The bits that the handler has read *)
(* are as good as cleared.                                                  *)
Back == IF isr.pc = "clear" THEN m0 \ isr.status ELSE m0
Places == [on |-> enabled, d0 |-> d0, serving |-> serving, back |-> Back]

(* A peripheral interrupt is in one place only: on at the M0, on its way to *)
(* the D0, being served, or on its way back.  So the D0 is never asked to   *)
(* serve an interrupt twice, and none is forgotten while it is off          *)
(* (Send_IPC_IRQ and IPC_M0_IRQHandler); no other interrupt is switched on  *)
(* or forwarded (the first conjunct, with the types of the variables).      *)
OnePlace ==
  /\ TypeOK
  /\ \A d \in Forwarded :
       \E p \in DOMAIN Places : \A q \in DOMAIN Places : d \in Places[q] <=> q = p

(* The list holds the registered handlers, each once and under its own      *)
(* service and operation, also when calls and signals come together         *)
(* (oblfr_mailbox_add_signal_handler, _del_signal_handler, the lock).       *)
TableExact ==
  /\ {signals[n].handler : n \in DOMAIN signals} = registered
  /\ \A n, j \in DOMAIN signals : signals[n].handler = signals[j].handler => n = j
  /\ \A n \in DOMAIN signals : <<signals[n].service, signals[n].op>> = signals[n].handler

(* A signal that finds the list unlocked goes to the handler registered for *)
(* it, and to none if there is none (oblfr_mailbox_signal_handler).         *)
DispatchExact ==
  [][IPC_M0_IRQHandler /\ Lowest(Known) = {MBOX_RX} /\ lock = None
       => ran' = IF inbox \in registered THEN inbox ELSE NoSignal]_vars

(* A forwarded interrupt is switched on again: the peripheral goes on       *)
(* working under Linux (the EOI in IPC_M0_IRQHandler).                      *)
Reenabled == \A d \in Forwarded : []<>(d \in enabled)

(* Every signal of the D0 is acknowledged, so that it can send the next,    *)
(* also one that is dropped because a task has the list locked              *)
(* (oblfr_mailbox_signal_handler, label err).                               *)
SignalAcked == []<>~sent
=============================================================================
