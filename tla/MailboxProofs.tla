--------------------------- MODULE MailboxProofs ---------------------------
(***************************************************************************)
(* Proofs about Mailbox, for any number of peripherals, services and tasks.*)
(***************************************************************************)
EXTENDS Mailbox, SequenceTheorems, Least

Bits == Devices \cup {MBOX_TX, MBOX_RX}
Entry == [service : Services, op : Ops, handler : Signals]
Activity == [pc : {"idle", "lock", "locked"}, op : {None, "add", "del", "mask"},
          sig : Signals \cup {NoSignal}]

(* A signal of the D0 that it still waits for is on its way to the handler  *)
(* or acknowledged, not both, and its registers are filled.                 *)
SignalInv ==
  /\ MBOX_RX \in Back \/ MBOX_RX \in d0 => sent
  /\ ~(MBOX_RX \in Back /\ MBOX_RX \in d0)
  /\ sent => inbox \in Signals

(* A task that adds or deletes a handler names a signal. *)
TaskInv == \A t \in Tasks : task[t].op \in {"add", "del"} => task[t].sig \in Signals

(* The inductive invariant of the types; the handler reads the registers    *)
(* only while they hold a signal.                                           *)
IInv == TypeOK /\ SignalInv /\ TaskInv

-----------------------------------------------------------------------------
(* Peripherals have other bits than the two of the signals. *)
LEMMA BitNumbers ==
  /\ MBOX_RX \notin Devices /\ MBOX_TX \notin Devices /\ MBOX_RX # MBOX_TX
  /\ Forwarded \subseteq Devices /\ Devices \subseteq Nat /\ Bits \subseteq Nat
  BY DevicesAssumption DEF MBOX_RX, MBOX_TX, Bits

(* The list after a walk through it is the same list of handlers, with      *)
(* other operations.                                                        *)
LEMMA OverwrittenType ==
  ASSUME NEW sig \in Signals, signals \in Seq(Entry)
  PROVE  /\ Overwritten(sig) \in Seq(Entry)
         /\ DOMAIN Overwritten(sig) = DOMAIN signals /\ Len(Overwritten(sig)) = Len(signals)
         /\ \A n \in DOMAIN signals :
              /\ Overwritten(sig)[n].service = signals[n].service
              /\ Overwritten(sig)[n].handler = signals[n].handler
              /\ Overwritten(sig)[n].op \in {signals[n].op, sig[2]}
  <1>1. sig[2] \in Ops
    BY DEF Signals
  <1>2. \A n \in DOMAIN signals : signals[n] \in Entry
    BY ElementOfSeq
  <1>3. \A e \in Entry : /\ [e EXCEPT !.op = sig[2]] \in Entry
                         /\ [e EXCEPT !.op = sig[2]].service = e.service
                         /\ [e EXCEPT !.op = sig[2]].handler = e.handler
                         /\ [e EXCEPT !.op = sig[2]].op = sig[2]
    BY <1>1 DEF Entry
  <1>4. \A n \in DOMAIN signals : Overwritten(sig)[n] \in {signals[n], [signals[n] EXCEPT !.op = sig[2]]}
    BY DEF Overwritten
  <1>5. \A n \in DOMAIN signals :
          /\ Overwritten(sig)[n] \in Entry
          /\ Overwritten(sig)[n].service = signals[n].service
          /\ Overwritten(sig)[n].handler = signals[n].handler
          /\ Overwritten(sig)[n].op \in {signals[n].op, sig[2]}
    <2> TAKE n \in DOMAIN signals
    <2>1. CASE Overwritten(sig)[n] = signals[n]
      BY <1>2, <2>1
    <2>2. CASE Overwritten(sig)[n] = [signals[n] EXCEPT !.op = sig[2]]
      <3> DEFINE e == signals[n]
      <3>1. e \in Entry
        BY <1>2
      <3> HIDE DEF e
      <3>2. Overwritten(sig)[n] = [e EXCEPT !.op = sig[2]]
        BY <2>2 DEF e
      <3>3. Overwritten(sig)[n] \in Entry /\ Overwritten(sig)[n].service = e.service
            /\ Overwritten(sig)[n].handler = e.handler /\ Overwritten(sig)[n].op = sig[2]
        BY <1>3, <3>1, <3>2
      <3> QED BY <3>3 DEF e
    <2> QED BY <1>4, <2>1, <2>2
  <1>6. DOMAIN Overwritten(sig) = DOMAIN signals /\ DOMAIN signals = 1 .. Len(signals) /\ Len(signals) \in Nat
    BY DEF Overwritten
  <1>7. Overwritten(sig) \in [1 .. Len(signals) -> Entry]
    <2>1. Overwritten(sig) = [n \in DOMAIN signals |-> Overwritten(sig)[n]]
      BY DEF Overwritten
    <2> QED BY <1>5, <1>6, <2>1
  <1>8. Overwritten(sig) \in Seq(Entry) /\ Len(Overwritten(sig)) = Len(signals)
    BY <1>6, <1>7
  <1> QED BY <1>5, <1>6, <1>8

(* Taking an entry out of the list leaves the others, in their order. *)
LEMMA WithoutType ==
  ASSUME signals \in Seq(Entry), NEW n \in DOMAIN signals
  PROVE  /\ Without(n) \in Seq(Entry) /\ Len(Without(n)) = Len(signals) - 1
         /\ \A j \in DOMAIN Without(n) :
              /\ j \in 1 .. Len(signals) - 1
              /\ Without(n)[j] = signals[IF j < n THEN j ELSE j + 1]
  <1>1. DOMAIN signals = 1 .. Len(signals) /\ Len(signals) \in Nat /\ n \in Nat /\ 1 <= n /\ n <= Len(signals)
    OBVIOUS
  <1>2. \A j \in 1 .. Len(signals) - 1 : (IF j < n THEN j ELSE j + 1) \in 1 .. Len(signals)
    BY <1>1
  <1>3. Without(n) \in [1 .. Len(signals) - 1 -> Entry]
    <2>1. \A j \in 1 .. Len(signals) - 1 : signals[IF j < n THEN j ELSE j + 1] \in Entry
      BY <1>1, <1>2, ElementOfSeq
    <2> QED BY <2>1 DEF Without
  <1>4. Without(n) \in Seq(Entry) /\ Len(Without(n)) = Len(signals) - 1
    <2>1. Len(signals) - 1 \in Nat
      BY <1>1
    <2> QED BY <1>3, <2>1
  <1> QED BY <1>1, <1>3, <1>4 DEF Without

(* A list with an entry put before it. *)
LEMMA ConsType ==
  ASSUME NEW e \in Entry, NEW s \in Seq(Entry)
  PROVE  /\ <<e>> \o s \in Seq(Entry) /\ Len(<<e>> \o s) = Len(s) + 1
         /\ (<<e>> \o s)[1] = e
         /\ \A n \in DOMAIN (<<e>> \o s) : n # 1 => n - 1 \in DOMAIN s /\ (<<e>> \o s)[n] = s[n - 1]
         /\ \A n \in DOMAIN s : n + 1 \in DOMAIN (<<e>> \o s) /\ (<<e>> \o s)[n + 1] = s[n]
  <1>1. <<e>> \in Seq(Entry) /\ Len(<<e>>) = 1 /\ <<e>>[1] = e
    OBVIOUS
  <1>2. <<e>> \o s \in Seq(Entry) /\ Len(<<e>> \o s) = Len(s) + 1
    BY <1>1, ConcatProperties
  <1>3. \A n \in 1 .. Len(s) + 1 : (<<e>> \o s)[n] = IF n <= 1 THEN <<e>>[n] ELSE s[n - 1]
    BY <1>1, ConcatProperties
  <1>4. Len(s) \in Nat /\ DOMAIN s = 1 .. Len(s) /\ DOMAIN (<<e>> \o s) = 1 .. Len(s) + 1
    BY <1>2
  <1>5. \A n \in DOMAIN s : n + 1 \in DOMAIN (<<e>> \o s) /\ (<<e>> \o s)[n + 1] = s[n]
    BY <1>3, <1>4
  <1>6. \A n \in DOMAIN (<<e>> \o s) : n # 1 => n - 1 \in DOMAIN s /\ (<<e>> \o s)[n] = s[n - 1]
    BY <1>3, <1>4
  <1> QED BY <1>1, <1>2, <1>3, <1>4, <1>5, <1>6


-----------------------------------------------------------------------------
(* The mailbox starts in the invariant (oblfr_mailbox_init). *)
LEMMA InitIInv == Init => IInv
  <1> SUFFICES ASSUME Init PROVE IInv
    OBVIOUS
  <1>1. task \in [Tasks -> Activity] /\ TaskInv
    BY DEF Init, Idle, Activity, TaskInv, None
  <1>2. TypeOK
    <2>1. signals \in Seq(Entry)
      BY DEF Init
    <2>2. isr \in [pc : {"idle", "clear"}, status : SUBSET (Devices \cup {MBOX_TX, MBOX_RX})]
      BY DEF Init
    <2>3. sent \in BOOLEAN
      BY Zenon DEF Init
    <2>4. lock \in Tasks \cup {None}
      BY DEF Init
    <2> QED BY <1>1, <2>1, <2>2, <2>3, <2>4 DEF Init, TypeOK, Activity, Entry
  <1>3. SignalInv
    BY DEF Init, SignalInv, Back
  <1> QED BY <1>1, <1>2, <1>3 DEF IInv

(* The peripherals, and what the D0 does, keep the invariant. *)
LEMMA DeviceSteps ==
  ASSUME IInv, NEW d \in Devices, Request(d) \/ Send_IPC_IRQ(d) \/ Serve(d) \/ EndOfInterrupt(d) \/ Stray(d)
  PROVE  IInv'
  <1> USE DEF IInv
  <1>1. UNCHANGED <<table, isr, inbox, sent, ran>>
    BY DEF Request, Send_IPC_IRQ, Serve, EndOfInterrupt, Stray
  <1>2. /\ (MBOX_RX \in d0') <=> (MBOX_RX \in d0)
        /\ (MBOX_RX \in m0') <=> (MBOX_RX \in m0)
    <2>1. MBOX_RX # d
      BY BitNumbers
    <2> QED BY <2>1 DEF Request, Send_IPC_IRQ, Serve, EndOfInterrupt, Stray, Raise
  <1>3. SignalInv'
    BY <1>1, <1>2 DEF SignalInv, Back
  <1>4. TaskInv'
    BY <1>1 DEF TaskInv, table
  <1>5. /\ asserted' \subseteq Forwarded /\ enabled' \subseteq Forwarded /\ serving' \subseteq Forwarded
        /\ d0' \subseteq Forwarded \cup {MBOX_TX, MBOX_RX} /\ m0' \subseteq Devices \cup {MBOX_TX, MBOX_RX}
    <2> USE DEF TypeOK
    <2>1. CASE Request(d)
      BY <2>1 DEF Request
    <2>2. CASE Send_IPC_IRQ(d)
      BY <2>2 DEF Send_IPC_IRQ
    <2>3. CASE Serve(d)
      BY <2>3, BitNumbers DEF Serve
    <2>4. CASE EndOfInterrupt(d)
      BY <2>4, BitNumbers DEF EndOfInterrupt, Raise
    <2>5. CASE Stray(d)
      BY <2>5 DEF Stray, Raise, irqs
    <2> QED BY <2>1, <2>2, <2>3, <2>4, <2>5
  <1>6. TypeOK'
    BY <1>1, <1>5 DEF TypeOK, table
  <1> QED BY <1>3, <1>4, <1>6

(* So do the signals of the D0 and its acknowledgements. *)
LEMMA SignalSteps ==
  ASSUME IInv, SendSignal \/ Acknowledged \/ Acknowledge
  PROVE  IInv'
  <1> USE DEF IInv
  <1>1. UNCHANGED <<irqs, isr, table, ran>>
    BY DEF SendSignal, Acknowledged, Acknowledge
  <1>2. /\ d0' \subseteq Forwarded \cup {MBOX_TX, MBOX_RX} /\ m0' \subseteq Devices \cup {MBOX_TX, MBOX_RX}
        /\ inbox' \in Signals \cup {NoSignal}
    BY DEF TypeOK, SendSignal, Acknowledged, Acknowledge, Raise
  <1>5. sent' \in BOOLEAN
    BY Zenon DEF TypeOK, SendSignal, Acknowledged, Acknowledge
  <1>3. TypeOK' /\ TaskInv'
    BY <1>1, <1>2, <1>5 DEF TypeOK, TaskInv, table, irqs
  <1>4. SignalInv'
    <2>1. CASE SendSignal
      BY <1>1, <2>1 DEF SendSignal, SignalInv, Back, Raise
    <2>2. CASE Acknowledged
      BY <1>1, <2>2 DEF Acknowledged, SignalInv, Back
    <2>3. CASE Acknowledge
      BY <1>1, <2>3, BitNumbers DEF Acknowledge, SignalInv, Back, Raise
    <2> QED BY <2>1, <2>2, <2>3
  <1> QED BY <1>3, <1>4

(* IPC_M0_IRQHandler: it acts on bits that it knows, and acknowledges the   *)
(* signal that it reads.                                                    *)
LEMMA HandlerSteps ==
  ASSUME IInv, IPC_M0_IRQHandler \/ ClearStatus
  PROVE  IInv'
  <1> USE DEF IInv
  <1>1. CASE ClearStatus
    <2>1. /\ isr.pc = "clear" /\ m0' = m0 \ isr.status /\ isr' = [pc |-> "idle", status |-> {}]
          /\ ran' = NoSignal /\ UNCHANGED <<asserted, enabled, serving, d0, signals, lock, task, registered, inbox, sent>>
      BY <1>1 DEF ClearStatus, irqs, table
    <2>2. Back' = Back
      BY <2>1 DEF Back
    <2> QED BY <2>1, <2>2 DEF TypeOK, TaskInv, SignalInv
  <1>2. CASE IPC_M0_IRQHandler
    <2>1. /\ isr.pc = "idle" /\ isr' = [pc |-> "clear", status |-> m0]
          /\ UNCHANGED <<asserted, serving, m0, lock, task, registered, inbox, sent>>
      BY <1>2 DEF IPC_M0_IRQHandler
    <2>2. Back = m0 /\ Back' = {}
      BY <2>1 DEF Back
    <2>3. isr' \in [pc : {"idle", "clear"}, status : SUBSET (Devices \cup {MBOX_TX, MBOX_RX})] /\ TaskInv'
      BY <2>1 DEF TypeOK, TaskInv
    <2>4. CASE MBOX_RX \in Lowest(Known) /\ oblfr_mailbox_signal_handler /\ UNCHANGED enabled
      <3>1. MBOX_RX \in m0 /\ inbox \in Signals /\ sent
        BY <2>2, <2>4 DEF Lowest, Known, SignalInv
      <3>2. d0' = d0 \cup {MBOX_RX}
        BY <2>4 DEF oblfr_mailbox_signal_handler
      <3>3. signals' \in Seq(Entry) /\ ran' \in Signals \cup {NoSignal}
        <4>1. CASE lock # None
          BY <2>4, <4>1 DEF oblfr_mailbox_signal_handler, TypeOK, Entry
        <4>2. CASE lock = None
          <5>1. signals' = Overwritten(inbox)
                /\ ran' = IF Match(inbox) = {} THEN NoSignal
                          ELSE signals[CHOOSE n \in Match(inbox) : TRUE].handler
            BY <2>4, <4>2 DEF oblfr_mailbox_signal_handler
          <5>2. signals \in Seq(Entry)
            BY DEF TypeOK, Entry
          <5>3. \A n \in DOMAIN signals : signals[n].handler \in Signals
            <6>1. \A n \in DOMAIN signals : signals[n] \in Entry
              BY <5>2, ElementOfSeq
            <6>2. \A e \in Entry : e.handler \in Signals
              BY DEF Entry
            <6> QED BY <6>1, <6>2
          <5>4. Match(inbox) # {} => (CHOOSE n \in Match(inbox) : TRUE) \in DOMAIN signals
            BY DEF Match, Looked
          <5> QED BY <3>1, <5>1, <5>2, <5>3, <5>4, OverwrittenType
        <4> QED BY <4>1, <4>2
      <3>4. TypeOK'
        BY <2>1, <2>3, <2>4, <3>2, <3>3 DEF TypeOK, Entry
      <3>5. SignalInv'
        BY <2>1, <2>2, <3>1 DEF SignalInv
      <3> QED BY <2>3, <3>4, <3>5
    <2>5. CASE UNCHANGED <<d0, signals, ran>> /\ enabled' \subseteq Forwarded
      <3>1. TypeOK'
        BY <2>1, <2>3, <2>5 DEF TypeOK
      <3>2. SignalInv'
        BY <2>1, <2>2, <2>5 DEF SignalInv
      <3> QED BY <2>3, <3>1, <3>2
    <2>6. ASSUME NEW d \in Lowest(Known) \ {MBOX_TX, MBOX_RX}, ReenableIRQ(d)
          PROVE  enabled' \subseteq Forwarded /\ UNCHANGED <<d0, signals, ran>>
      BY <2>6 DEF ReenableIRQ, Lowest, Known, TypeOK
    <2>7. UNCHANGED enabled => enabled' \subseteq Forwarded
      BY DEF TypeOK
    <2> QED BY <1>2, <2>4, <2>5, <2>6, <2>7 DEF IPC_M0_IRQHandler
  <1> QED BY <1>1, <1>2

(* The calls of the API keep the invariant. *)
LEMMA TaskSteps ==
  ASSUME IInv, NEW t \in Tasks, TaskCall(t) \/ TaskStep(t)
  PROVE  IInv'
  <1> USE DEF IInv
  <1>0. /\ signals \in Seq(Entry) /\ task \in [Tasks -> Activity] /\ registered \subseteq Signals
        /\ Idle \in Activity /\ Idle.op \notin {"add", "del"}
    BY DEF TypeOK, Entry, Activity, Idle, None
  <1>1. UNCHANGED <<asserted, enabled, serving, m0, isr, inbox, sent, ran>>
    BY DEF TaskCall, TaskStep, oblfr_mailbox_add_signal_handler, oblfr_mailbox_del_signal_handler,
           oblfr_mailbox_mask_signal, oblfr_mailbox_send_signal, oblfr_mailbox_signal_lock, LockTimeout,
           AddRefused, AddSignal, DelSignal, Inspect, Call, Unlock, irqs
  <1>2. ASSUME d0' \subseteq Forwarded \cup {MBOX_TX, MBOX_RX}, MBOX_RX \in d0' <=> MBOX_RX \in d0,
               signals' \in Seq(Entry), lock' \in Tasks \cup {None}, registered' \subseteq Signals,
               NEW c \in Activity, task' = [task EXCEPT ![t] = c], c.op \in {"add", "del"} => c.sig \in Signals
        PROVE  IInv'
    <2>1. TypeOK'
      BY <1>0, <1>1, <1>2 DEF TypeOK, Entry, Activity
    <2>2. TaskInv'
      BY <1>0, <1>2 DEF TaskInv
    <2>3. SignalInv'
      BY <1>1, <1>2 DEF SignalInv, Back
    <2> QED BY <2>1, <2>2, <2>3
  <1>3. CASE oblfr_mailbox_send_signal(t)
    <2>1. d0' = d0 \cup {MBOX_TX} /\ UNCHANGED <<signals, lock, task, registered>>
      BY <1>3 DEF oblfr_mailbox_send_signal, table
    <2>2. d0' \subseteq Forwarded \cup {MBOX_TX, MBOX_RX} /\ (MBOX_RX \in d0' <=> MBOX_RX \in d0)
      BY <2>1, BitNumbers DEF TypeOK
    <2>3. task' = [task EXCEPT ![t] = task[t]] /\ task[t] \in Activity
      BY <1>0, <2>1
    <2> QED BY <1>0, <1>2, <2>1, <2>2, <2>3 DEF TypeOK, TaskInv
  <1>4. CASE ~oblfr_mailbox_send_signal(t)
    <2>1. d0' = d0
      BY <1>4 DEF TaskCall, TaskStep, oblfr_mailbox_add_signal_handler, oblfr_mailbox_del_signal_handler,
             oblfr_mailbox_mask_signal, oblfr_mailbox_signal_lock, LockTimeout,
             AddRefused, AddSignal, DelSignal, Inspect, Call, Unlock
    <2>2. d0' \subseteq Forwarded \cup {MBOX_TX, MBOX_RX} /\ (MBOX_RX \in d0' <=> MBOX_RX \in d0)
      BY <2>1 DEF TypeOK
    <2>3. ASSUME NEW op \in {"add", "del", "mask"}, NEW sig \in Signals \cup {NoSignal},
                 op \in {"add", "del"} => sig \in Signals, Call(t, op, sig)
          PROVE  IInv'
      <3> DEFINE c == [pc |-> "lock", op |-> op, sig |-> sig]
      <3>1. c \in Activity /\ c.op = op /\ c.sig = sig
        BY DEF Activity
      <3>2. task' = [task EXCEPT ![t] = c] /\ UNCHANGED <<signals, lock, registered>>
        BY <2>3 DEF Call
      <3> HIDE DEF c
      <3> QED BY <1>0, <1>2, <2>2, <2>3, <3>1, <3>2 DEF TypeOK
    <2>4. CASE oblfr_mailbox_signal_lock(t)
      <3> DEFINE c == [task[t] EXCEPT !.pc = "locked"]
      <3>1. c \in Activity /\ c.op = task[t].op /\ c.sig = task[t].sig
        BY <1>0 DEF Activity
      <3>2. task' = [task EXCEPT ![t] = c] /\ lock' = t /\ UNCHANGED <<signals, registered>>
        BY <1>0, <2>4 DEF oblfr_mailbox_signal_lock, Goto
      <3> HIDE DEF c
      <3> QED BY <1>0, <1>2, <2>2, <3>1, <3>2 DEF TaskInv
    <2>5. CASE LockTimeout(t)
      <3>1. task' = [task EXCEPT ![t] = Idle] /\ UNCHANGED <<signals, lock, registered>>
        BY <2>5 DEF LockTimeout
      <3> QED BY <1>0, <1>2, <2>2, <3>1 DEF TypeOK
    <2>6. ASSUME signals' \in Seq(Entry), registered' \subseteq Signals, Unlock(t)
          PROVE  IInv'
      <3>1. task' = [task EXCEPT ![t] = Idle] /\ lock' = None
        BY <2>6 DEF Unlock
      <3> QED BY <1>0, <1>2, <2>2, <2>6, <3>1
    <2>7. CASE AddRefused(t)
      <3>1. task[t].sig \in Signals
        BY <2>7 DEF AddRefused, TaskInv
      <3> QED BY <1>0, <2>6, <2>7, <3>1, OverwrittenType DEF AddRefused
    <2>8. CASE AddSignal(t)
      <3> DEFINE sig == task[t].sig
                 e == [service |-> sig[1], op |-> sig[2], handler |-> sig]
      <3>1. sig \in Signals
        BY <2>8 DEF AddSignal, TaskInv
      <3>2. e \in Entry
        BY <3>1 DEF Entry, Signals
      <3>3. signals' = <<e>> \o Overwritten(sig) /\ registered' = registered \cup {sig} /\ Unlock(t)
        BY <2>8 DEF AddSignal
      <3> HIDE DEF e
      <3> QED BY <1>0, <2>6, <3>1, <3>2, <3>3, OverwrittenType, ConsType
    <2>9. CASE DelSignal(t)
      <3> DEFINE sig == task[t].sig
                 n == CHOOSE n \in Deleted(sig) : TRUE
      <3>1. /\ signals' = IF Deleted(sig) = {} THEN signals ELSE Without(n)
            /\ registered' = registered \ {sig} /\ Unlock(t)
        BY <2>9 DEF DelSignal
      <3>2. Deleted(sig) # {} => n \in DOMAIN signals
        BY DEF Deleted
      <3> HIDE DEF n
      <3> QED BY <1>0, <2>6, <3>1, <3>2, WithoutType
    <2>10. CASE Inspect(t)
      BY <1>0, <2>6, <2>10 DEF Inspect
    <2> QED BY <1>4, <2>3, <2>4, <2>5, <2>7, <2>8, <2>9, <2>10
            DEF TaskCall, TaskStep, oblfr_mailbox_add_signal_handler, oblfr_mailbox_del_signal_handler,
                oblfr_mailbox_mask_signal
  <1> QED BY <1>3, <1>4

(* Every step keeps the types, and what they rest on. *)
LEMMA NextIInv == IInv /\ [Next]_vars => IInv'
  <1> SUFFICES ASSUME IInv, [Next]_vars PROVE IInv'
    OBVIOUS
  <1>1. CASE UNCHANGED vars
    BY <1>1 DEF vars, irqs, table, IInv, TypeOK, SignalInv, Back, TaskInv
  <1>2. CASE Next
    BY <1>2, DeviceSteps, SignalSteps, HandlerSteps, TaskSteps DEF Next
  <1> QED BY <1>1, <1>2

(* The invariant holds in every state, with or without a patient D0. *)
THEOREM InductiveInvariant == Spec => []IInv
  <1> QED BY InitIInv, NextIInv, PTL DEF Spec

-----------------------------------------------------------------------------
(* A D0 that waits has one bit pending at most, and the handler has read it.*)
PacedInv ==
  /\ \A b, c \in m0 : b = c
  /\ isr.pc = "clear" => isr.status = m0

(* The four places of an interrupt exclude each other and leave no other. *)
Exactly(d) ==
  /\ d \in enabled => d \notin d0 /\ d \notin serving /\ d \notin Back
  /\ d \in d0 => d \notin serving /\ d \notin Back
  /\ d \in serving => d \notin Back
  /\ d \in enabled \/ d \in d0 \/ d \in serving \/ d \in Back
PlaceInv == \A d \in Forwarded : Exactly(d)

(* The invariant that a patient D0 adds.  An interrupt on its way back must *)
(* not be cleared unseen, which needs the handler to have read all bits.    *)
PacedIInv == PacedInv /\ PlaceInv

(* Every interrupt starts at the M0. *)
LEMMA InitPaced == Init => PacedIInv
  BY DEF Init, PacedIInv, PacedInv, PlaceInv, Exactly, Back

(* Every step moves at most one interrupt, from one place to the next. *)
LEMMA PacedStep ==
  ASSUME Paced, IInv, PacedIInv, [Next]_vars
  PROVE  PacedIInv'
  <1> USE DEF PacedIInv
  <1>1. CASE UNCHANGED <<enabled, d0, serving, m0, isr>>
    BY <1>1 DEF PacedInv, PlaceInv, Exactly, Back
  (* The bits of signals are in no place that counts. *)
  <1>2. ASSUME \A d \in Forwarded : (d \in d0') <=> (d \in d0), UNCHANGED <<enabled, serving, isr>>,
               \A d \in Forwarded : (d \in m0') <=> (d \in m0), PacedInv'
        PROVE  PacedIInv'
    BY <1>2 DEF PlaceInv, Exactly, Back
  <1>3. ASSUME NEW b, Raise(b), UNCHANGED isr
        PROVE  PacedInv' /\ m0 = {} /\ m0' = {b} /\ isr.pc = "idle"
    BY <1>3 DEF Raise, MayRaise, PacedInv
  <1>4. ASSUME NEW d \in Devices, Send_IPC_IRQ(d)
        PROVE  PacedIInv'
    <2>1. d \in Forwarded /\ d \in enabled /\ enabled' = enabled \ {d} /\ d0' = d0 \cup {d}
          /\ UNCHANGED <<serving, m0, isr>>
      BY <1>4 DEF Send_IPC_IRQ, IInv, TypeOK
    <2>2. Back' = Back /\ PacedInv'
      BY <2>1 DEF Back, PacedInv
    <2> QED BY <2>1, <2>2 DEF PlaceInv, Exactly
  <1>5. ASSUME NEW d \in Devices, Serve(d)
        PROVE  PacedIInv'
    <2>1. d \in Forwarded /\ d \in d0 /\ d0' = d0 \ {d} /\ serving' = serving \cup {d}
          /\ UNCHANGED <<enabled, m0, isr>>
      BY <1>5, BitNumbers DEF Serve, IInv, TypeOK
    <2>2. Back' = Back /\ PacedInv'
      BY <2>1 DEF Back, PacedInv
    <2> QED BY <2>1, <2>2 DEF PlaceInv, Exactly
  <1>6. ASSUME NEW d \in Devices, EndOfInterrupt(d)
        PROVE  PacedIInv'
    <2>1. d \in Forwarded /\ d \in serving /\ serving' = serving \ {d} /\ Raise(d)
          /\ UNCHANGED <<enabled, d0, isr>>
      BY <1>6 DEF EndOfInterrupt, IInv, TypeOK
    <2>2. Back = {} /\ Back' = {d} /\ PacedInv'
      BY <1>3, <2>1 DEF Back
    <2> QED BY <2>1, <2>2 DEF PlaceInv, Exactly
  <1>7. ASSUME NEW d \in Devices, Stray(d)
        PROVE  PacedIInv'
    <2>1. d \notin Forwarded /\ Raise(d) /\ UNCHANGED <<enabled, d0, serving, isr>>
      BY <1>7 DEF Stray, irqs
    <2> QED BY <1>2, <1>3, <2>1
  <1>8. CASE ClearStatus
    <2>1. /\ isr.pc = "clear" /\ m0' = m0 \ isr.status /\ isr' = [pc |-> "idle", status |-> {}]
          /\ UNCHANGED <<enabled, serving, d0>>
      BY <1>8 DEF ClearStatus, irqs
    <2>2. Back' = Back /\ PacedInv'
      BY <2>1 DEF Back, PacedInv
    <2> QED BY <2>1, <2>2 DEF PlaceInv, Exactly
  <1>9. CASE IPC_M0_IRQHandler
    <2>1. /\ isr.pc = "idle" /\ isr' = [pc |-> "clear", status |-> m0]
          /\ UNCHANGED <<serving, m0>> /\ m0 # {}
      BY <1>9 DEF IPC_M0_IRQHandler
    <2>2. Back = m0 /\ Back' = {} /\ PacedInv'
      BY <2>1 DEF Back, PacedInv
    <2>3. PICK b \in m0 : m0 = {b}
      BY <2>1 DEF PacedInv
    <2>4. b \in Nat
      BY <2>3, BitNumbers DEF IInv, TypeOK, Bits
    (* The bit is a forwarded interrupt, which is switched on, or no interrupt. *)
    <2>5. CASE b \in Forwarded
      <3>1. Lowest(Known) = {b} /\ b # MBOX_TX /\ b # MBOX_RX
        BY <2>3, <2>4, <2>5, BitNumbers DEF Lowest, Known
      <3>2. ReenableIRQ(b)
        BY <1>9, <3>1 DEF IPC_M0_IRQHandler
      <3> QED BY <2>1, <2>2, <2>3, <3>2 DEF ReenableIRQ, PlaceInv, Exactly
    <2>6. CASE b \notin Forwarded
      <3>1. Lowest(Known) \cap Forwarded = {}
        BY <2>3, <2>6 DEF Lowest, Known
      <3>2. Lowest(Known) \ {MBOX_TX, MBOX_RX} = {}
        BY <3>1 DEF Lowest, Known
      <3>3. enabled' = enabled /\ d0' \in {d0, d0 \cup {MBOX_RX}}
        BY <1>9, <3>2 DEF IPC_M0_IRQHandler, oblfr_mailbox_signal_handler
      <3>4. \A d \in Forwarded : (d \in d0') <=> (d \in d0)
        BY <3>3, BitNumbers
      <3> QED BY <2>1, <2>2, <2>3, <2>6, <3>3, <3>4 DEF PlaceInv, Exactly
    <2> QED BY <2>5, <2>6
  <1>10. CASE SendSignal \/ Acknowledged \/ Acknowledge
    <2>1. UNCHANGED <<enabled, serving, isr>> /\ \A d \in Forwarded : (d \in d0') <=> (d \in d0)
      BY <1>10, BitNumbers DEF SendSignal, Acknowledged, Acknowledge, irqs
    <2>2. PacedInv' /\ \A d \in Forwarded : (d \in m0') <=> (d \in m0)
      <3>1. CASE Acknowledged
        BY <3>1 DEF Acknowledged, PacedInv
      <3>2. CASE SendSignal \/ Acknowledge
        <4>1. PICK b \in {MBOX_TX, MBOX_RX} : Raise(b)
          BY <3>2 DEF SendSignal, Acknowledge
        <4> QED BY <1>3, <2>1, <4>1, BitNumbers
      <3> QED BY <1>10, <3>1, <3>2
    <2> QED BY <1>2, <2>1, <2>2
  <1>11. ASSUME NEW t \in Tasks, TaskCall(t) \/ TaskStep(t)
         PROVE  PacedIInv'
    <2>1. UNCHANGED <<enabled, serving, m0, isr>> /\ d0' \in {d0, d0 \cup {MBOX_TX}}
      BY <1>11 DEF TaskCall, TaskStep, oblfr_mailbox_add_signal_handler, oblfr_mailbox_del_signal_handler,
           oblfr_mailbox_mask_signal, oblfr_mailbox_send_signal, oblfr_mailbox_signal_lock, LockTimeout,
           AddRefused, AddSignal, DelSignal, Inspect, Call, Unlock, irqs
    <2>2. PacedInv' /\ \A d \in Forwarded : (d \in d0') <=> (d \in d0)
      BY <2>1, BitNumbers DEF PacedInv
    <2> QED BY <1>2, <2>1, <2>2
  <1>12. ASSUME NEW d \in Devices, Request(d)
         PROVE  PacedIInv'
    BY <1>1, <1>12 DEF Request
  <1> QED BY <1>1, <1>4, <1>5, <1>6, <1>7, <1>8, <1>9, <1>10, <1>11, <1>12 DEF Next, vars, irqs

(* With a D0 that raises one bit at a time, every forwarded interrupt is in *)
(* exactly one place: on at the M0, pending at the D0, in service there, or *)
(* on its way back.  None is lost and none is served twice                  *)
(* (Send_IPC_IRQ, IPC_M0_IRQHandler).                                       *)
THEOREM OnePlaceCorrect == ASSUME Paced PROVE Spec => []OnePlace
  <1>1. IInv /\ PacedIInv /\ [Next]_vars => PacedIInv'
    BY PacedStep
  <1>2. IInv /\ PacedIInv => OnePlace
    <2> SUFFICES ASSUME IInv, PacedIInv, NEW d \in Forwarded
                 PROVE  \E p \in DOMAIN Places : \A q \in DOMAIN Places : d \in Places[q] <=> q = p
      BY DEF OnePlace, IInv
    <2>1. DOMAIN Places = {"on", "d0", "serving", "back"}
      BY DEF Places
    <2>2. /\ Places["on"] = enabled /\ Places["d0"] = d0
          /\ Places["serving"] = serving /\ Places["back"] = Back
      BY DEF Places
    <2>3. Exactly(d)
      BY DEF PacedIInv, PlaceInv
    <2> QED BY <2>1, <2>2, <2>3 DEF Exactly
  <1> QED BY InductiveInvariant, InitPaced, <1>1, <1>2, PTL DEF Spec

-----------------------------------------------------------------------------
(* All signals have the same operation, an odd one.  Only then does the     *)
(* condition of the walk compare what it is meant to compare, and write     *)
(* what was there before.                                                   *)
OneOddOp == \A o, p \in Ops : o = p /\ o % 2 = 1

(* Then a walk through the list changes nothing, and finds the entry of its *)
(* signal if there is one.                                                  *)
LEMMA WalkFinds ==
  ASSUME OneOddOp, signals \in Seq(Entry), NEW sig \in Signals,
         \A n \in DOMAIN signals : <<signals[n].service, signals[n].op>> = signals[n].handler
  PROVE  /\ Overwritten(sig) = signals
         /\ \A n \in Match(sig) : n \in DOMAIN signals /\ signals[n].handler = sig
         /\ Match(sig) = {} => \A n \in DOMAIN signals : signals[n].handler # sig
  <1>1. sig = <<sig[1], sig[2]>> /\ sig[2] \in Ops /\ sig[2] % 2 = 1
    BY DEF Signals, OneOddOp
  <1>2. \A n \in DOMAIN signals : signals[n] \in Entry /\ signals[n].op = sig[2]
    <2>1. \A n \in DOMAIN signals : signals[n] \in Entry
      BY ElementOfSeq
    <2>2. \A e \in Entry : e.op \in Ops
      BY DEF Entry
    <2> QED BY <1>1, <2>1, <2>2 DEF OneOddOp
  <1>3. \A n \in DOMAIN signals : Matches(signals[n], sig) <=> signals[n].handler = sig
    BY <1>1, <1>2 DEF Matches
  <1>4. Overwritten(sig) = signals
    <2>1. \A e \in Entry : e.op = sig[2] => [e EXCEPT !.op = sig[2]] = e
      BY DEF Entry
    <2>2. \A n \in DOMAIN signals : Overwritten(sig)[n] = signals[n]
      BY <1>2, <2>1 DEF Overwritten
    <2>3. Overwritten(sig) \in Seq(Entry) /\ Len(Overwritten(sig)) = Len(signals)
      BY OverwrittenType
    <2> QED BY <2>2, <2>3, SeqEqual
  <1>5. \A n \in Match(sig) : n \in DOMAIN signals /\ signals[n].handler = sig
    BY <1>3 DEF Match, Looked
  <1>6. ASSUME NEW n \in DOMAIN signals, signals[n].handler = sig
        PROVE  Match(sig) # {}
    <2> DEFINE S == {j \in DOMAIN signals : Matches(signals[j], sig)}
    <2>1. S \in SUBSET Nat /\ n \in S /\ DOMAIN signals = 1 .. Len(signals) /\ Len(signals) \in Nat
      BY <1>3, <1>6
    <2>2. PICK l \in S : \A k \in S : l <= k
      BY <2>1, LeastExists
    <2>3. \A j \in 1 .. l - 1 : j \in DOMAIN signals /\ j \notin S
      BY <2>1, <2>2
    <2>4. l \in Match(sig)
      BY <2>2, <2>3 DEF Match, Looked
    <2> QED BY <2>4
  <1> QED BY <1>4, <1>5, <1>6

(* Deleting finds the entry of its signal if there is one. *)
LEMMA DeletedFinds ==
  ASSUME signals \in Seq(Entry), NEW sig,
         \A n \in DOMAIN signals : <<signals[n].service, signals[n].op>> = signals[n].handler
  PROVE  /\ \A n \in Deleted(sig) : n \in DOMAIN signals /\ signals[n].handler = sig
         /\ Deleted(sig) = {} => \A n \in DOMAIN signals : signals[n].handler # sig
  <1>1. \A n \in Deleted(sig) : n \in DOMAIN signals /\ signals[n].handler = sig
    BY DEF Deleted
  <1>2. ASSUME NEW n \in DOMAIN signals, signals[n].handler = sig
        PROVE  Deleted(sig) # {}
    <2> DEFINE S == {j \in DOMAIN signals : <<signals[j].service, signals[j].op>> = sig}
    <2>0. DOMAIN signals = 1 .. Len(signals) /\ Len(signals) \in Nat
      OBVIOUS
    <2>1. S \in SUBSET Nat /\ n \in S /\ DOMAIN signals = 1 .. Len(signals) /\ Len(signals) \in Nat
      <3>1. <<signals[n].service, signals[n].op>> = sig
        BY <1>2
      <3>2. n \in S
        BY <3>1
      <3>3. S \in SUBSET Nat
        BY <2>0
      <3> QED BY <2>0, <3>2, <3>3
    <2>2. PICK l \in S : \A k \in S : l <= k
      BY <2>1, LeastExists
    <2>3. \A j \in 1 .. l - 1 : j \in DOMAIN signals /\ j \notin S
      BY <2>1, <2>2
    <2>4. l \in Deleted(sig)
      BY <2>2, <2>3 DEF Deleted
    <2> QED BY <2>4
  <1> QED BY <1>1, <1>2

(* The list of handlers keeps step with what was registered. *)
LEMMA TableStep ==
  ASSUME OneOddOp, IInv, TableExact, [Next]_vars
  PROVE  TableExact'
  <1>0. signals \in Seq(Entry) /\ \A n \in DOMAIN signals : <<signals[n].service, signals[n].op>> = signals[n].handler
    BY DEF IInv, TypeOK, Entry, TableExact
  <1>1. CASE UNCHANGED <<signals, registered>>
    BY <1>1 DEF TableExact
  <1>2. CASE IPC_M0_IRQHandler
    <2>1. CASE MBOX_RX \in Lowest(Known) /\ oblfr_mailbox_signal_handler
      <3>1. inbox \in Signals
        BY <1>2, <2>1 DEF IPC_M0_IRQHandler, Lowest, Known, IInv, SignalInv, Back
      <3>2. signals' \in {signals, Overwritten(inbox)}
        BY <2>1 DEF oblfr_mailbox_signal_handler
      <3> QED BY <1>0, <1>1, <1>2, <3>1, <3>2, WalkFinds DEF IPC_M0_IRQHandler
    <2> QED BY <1>1, <1>2, <2>1 DEF IPC_M0_IRQHandler, ReenableIRQ
  <1>3. ASSUME NEW t \in Tasks, AddRefused(t)
        PROVE  TableExact'
    <2>1. task[t].sig \in Signals
      BY <1>3 DEF AddRefused, IInv, TaskInv
    <2> QED BY <1>0, <1>1, <1>3, <2>1, WalkFinds DEF AddRefused
  <1>4. ASSUME NEW t \in Tasks, AddSignal(t)
        PROVE  TableExact'
    <2> DEFINE sig == task[t].sig
               e == [service |-> sig[1], op |-> sig[2], handler |-> sig]
    <2>1. sig \in Signals /\ sig = <<sig[1], sig[2]>>
      BY <1>4 DEF AddSignal, IInv, TaskInv, Signals
    <2>2. e \in Entry /\ e.handler = sig /\ <<e.service, e.op>> = sig
      BY <2>1 DEF Entry, Signals
    <2>3. signals' = <<e>> \o signals /\ registered' = registered \cup {sig}
          /\ \A n \in DOMAIN signals : signals[n].handler # sig
      BY <1>0, <1>4, <2>1, WalkFinds DEF AddSignal
    <2> HIDE DEF e, sig
    <2>4. /\ 1 \in DOMAIN signals' /\ signals'[1] = e /\ DOMAIN signals \subseteq Nat
          /\ DOMAIN signals' \subseteq Nat
          /\ \A n \in DOMAIN signals' : n # 1 => n - 1 \in DOMAIN signals /\ signals'[n] = signals[n - 1]
          /\ \A n \in DOMAIN signals : n + 1 \in DOMAIN signals' /\ signals'[n + 1] = signals[n]
      BY <1>0, <2>2, <2>3, ConsType
    <2>5. {signals'[n].handler : n \in DOMAIN signals'} = registered'
      <3>1. \A n \in DOMAIN signals' : signals'[n].handler \in registered'
        BY <2>2, <2>3, <2>4 DEF TableExact
      <3>2. ASSUME NEW h \in registered'
            PROVE  \E n \in DOMAIN signals' : signals'[n].handler = h
        <4>1. CASE h = sig
          BY <2>2, <2>4, <4>1
        <4>2. CASE h # sig
          <5>1. PICK n \in DOMAIN signals : signals[n].handler = h
            BY <2>3, <3>2, <4>2 DEF TableExact
          <5> QED BY <2>4, <5>1
        <4> QED BY <4>1, <4>2
      <3> QED BY <3>1, <3>2
    <2>6. \A n \in DOMAIN signals' : <<signals'[n].service, signals'[n].op>> = signals'[n].handler
      BY <1>0, <2>2, <2>4
    <2>7. \A n, j \in DOMAIN signals' : signals'[n].handler = signals'[j].handler => n = j
      BY <2>2, <2>3, <2>4 DEF TableExact
    <2> QED BY <2>5, <2>6, <2>7 DEF TableExact
  <1>5. ASSUME NEW t \in Tasks, DelSignal(t)
        PROVE  TableExact'
    <2> DEFINE sig == task[t].sig
               n == CHOOSE n \in Deleted(sig) : TRUE
    <2>1. /\ signals' = IF Deleted(sig) = {} THEN signals ELSE Without(n)
          /\ registered' = registered \ {sig}
      BY <1>5 DEF DelSignal
    <2>2. CASE Deleted(sig) = {}
      <3>1. signals' = signals /\ \A j \in DOMAIN signals : signals[j].handler # sig
        BY <1>0, <2>1, <2>2, DeletedFinds
      <3>2. registered' = registered
        BY <2>1, <3>1 DEF TableExact
      <3> QED BY <1>1, <3>1, <3>2
    <2>3. CASE Deleted(sig) # {}
      <3>1. n \in DOMAIN signals /\ signals[n].handler = sig /\ signals' = Without(n)
        BY <1>0, <2>1, <2>3, DeletedFinds
      <3> HIDE DEF n, sig
      <3> DEFINE k(j) == IF j < n THEN j ELSE j + 1
      <3>2. /\ DOMAIN signals' = 1 .. Len(signals) - 1 /\ DOMAIN signals = 1 .. Len(signals)
            /\ Len(signals) \in Nat /\ n \in 1 .. Len(signals)
            /\ \A j \in DOMAIN signals' : signals'[j] = signals[k(j)]
        BY <1>0, <3>1, WithoutType
      <3>3. /\ \A j \in DOMAIN signals' : k(j) \in DOMAIN signals /\ k(j) # n
            /\ \A i, j \in DOMAIN signals' : k(i) = k(j) => i = j
        BY <3>2
      <3>4. \A i \in DOMAIN signals : i # n => \E j \in DOMAIN signals' : k(j) = i
        <4> TAKE i \in DOMAIN signals
        <4> HAVE i # n
        <4>1. CASE i < n
          BY <3>2, <4>1
        <4>2. CASE i > n
          <5>1. i - 1 \in DOMAIN signals' /\ k(i - 1) = i
            BY <3>2, <4>2
          <5> QED BY <5>1
        <4> QED BY <3>2, <4>1, <4>2
      <3> HIDE DEF k
      <3>5. {signals'[j].handler : j \in DOMAIN signals'} = registered'
        <4>1. \A j \in DOMAIN signals' : signals'[j].handler \in registered'
          BY <2>1, <3>1, <3>2, <3>3 DEF TableExact
        <4>2. ASSUME NEW h \in registered'
              PROVE  \E j \in DOMAIN signals' : signals'[j].handler = h
          <5>1. PICK i \in DOMAIN signals : signals[i].handler = h
            BY <2>1 DEF TableExact
          <5>2. i # n
            BY <2>1, <3>1, <5>1
          <5> QED BY <3>2, <3>4, <5>1, <5>2
        <4> QED BY <4>1, <4>2
      <3>6. \A i, j \in DOMAIN signals' : signals'[i].handler = signals'[j].handler => i = j
        BY <3>2, <3>3 DEF TableExact
      <3>7. \A j \in DOMAIN signals' : <<signals'[j].service, signals'[j].op>> = signals'[j].handler
        BY <1>0, <3>2, <3>3
      <3> QED BY <3>5, <3>6, <3>7 DEF TableExact
    <2> QED BY <2>2, <2>3
  <1>6. Next => \/ UNCHANGED <<signals, registered>> \/ IPC_M0_IRQHandler
                \/ \E t \in Tasks : AddRefused(t) \/ AddSignal(t) \/ DelSignal(t)
    BY DEF Next, TaskCall, TaskStep, oblfr_mailbox_add_signal_handler, oblfr_mailbox_del_signal_handler,
           oblfr_mailbox_mask_signal, oblfr_mailbox_send_signal, oblfr_mailbox_signal_lock, LockTimeout,
           Inspect, Call, table, Request, Send_IPC_IRQ, Serve, EndOfInterrupt, Stray, ClearStatus,
           SendSignal, Acknowledged, Acknowledge
  <1> QED BY <1>1, <1>2, <1>3, <1>4, <1>5, <1>6 DEF vars, table

(* With one odd operation the list is exact, whatever the tasks register    *)
(* and delete and whatever signals come in between.                         *)
THEOREM TableCorrect == ASSUME OneOddOp PROVE Spec => []TableExact
  <1>1. Init => TableExact
    BY DEF Init, TableExact
  <1>2. IInv /\ TableExact /\ [Next]_vars => TableExact'
    BY TableStep
  <1> QED BY InductiveInvariant, <1>1, <1>2, PTL DEF Spec

(* Then a signal that finds the list unlocked runs the handler that is      *)
(* registered for it, and none if there is none                             *)
(* (oblfr_mailbox_signal_handler).                                          *)
THEOREM DispatchCorrect == ASSUME OneOddOp PROVE Spec => DispatchExact
  <1> DEFINE Exact == IPC_M0_IRQHandler /\ Lowest(Known) = {MBOX_RX} /\ lock = None
                        => ran' = IF inbox \in registered THEN inbox ELSE NoSignal
  <1>1. IInv /\ TableExact /\ [Next]_vars => [Exact]_vars
    <2> SUFFICES ASSUME IInv, TableExact, IPC_M0_IRQHandler, Lowest(Known) = {MBOX_RX}, lock = None
                 PROVE  ran' = IF inbox \in registered THEN inbox ELSE NoSignal
      OBVIOUS
    <2>1. oblfr_mailbox_signal_handler
      BY BitNumbers DEF IPC_M0_IRQHandler
    <2>2. ran' = IF Match(inbox) = {} THEN NoSignal ELSE signals[CHOOSE n \in Match(inbox) : TRUE].handler
      BY <2>1 DEF oblfr_mailbox_signal_handler
    <2>3. inbox \in Signals
      BY DEF IPC_M0_IRQHandler, Lowest, Known, IInv, SignalInv, Back
    <2>4. signals \in Seq(Entry) /\ \A n \in DOMAIN signals : <<signals[n].service, signals[n].op>> = signals[n].handler
      BY DEF IInv, TypeOK, Entry, TableExact
    <2>5. CASE Match(inbox) = {}
      <3>1. \A n \in DOMAIN signals : signals[n].handler # inbox
        BY <2>3, <2>4, <2>5, WalkFinds
      <3>2. inbox \notin registered
        BY <3>1 DEF TableExact
      <3> QED BY <2>2, <2>5, <3>2
    <2>6. CASE Match(inbox) # {}
      <3>1. PICK n \in Match(inbox) : ran' = signals[n].handler
        BY <2>2, <2>6
      <3>2. n \in DOMAIN signals /\ signals[n].handler = inbox
        BY <2>3, <2>4, WalkFinds
      <3>3. inbox \in registered
        BY <3>2 DEF TableExact
      <3> QED BY <3>1, <3>2, <3>3
    <2> QED BY <2>5, <2>6
  <1> QED BY InductiveInvariant, TableCorrect, <1>1, PTL DEF Spec, DispatchExact

=============================================================================
