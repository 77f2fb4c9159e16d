---------------------------- MODULE MessageLink ----------------------------
(***************************************************************************)
(* What rpmsg-lite promises its users: one ordered channel without loss or *)
(* duplication from the senders of the M0 to the other core, and one from  *)
(* there to every endpoint of the M0.  What a sender offers goes into the  *)
(* channel, once and unchanged, or is refused.                             *)
(***************************************************************************)
EXTENDS Sequences

CONSTANTS Senders,
          Endpoints,
          Remote,   \* the other core
          Msgs

Ports == Endpoints \cup {Remote}

VARIABLES offer,    \* the message every sender is about to send, if any
          chan      \* the messages on the way to each port, oldest first

vars == <<offer, chan>>

Init ==
  /\ offer = [s \in Senders |-> <<>>]
  /\ chan = [p \in Ports |-> <<>>]

Offer(s, m) ==
  /\ offer[s] = <<>>
  /\ offer' = [offer EXCEPT ![s] = <<m>>]
  /\ UNCHANGED chan

Refuse(s) ==
  /\ offer[s] # <<>>
  /\ offer' = [offer EXCEPT ![s] = <<>>]
  /\ UNCHANGED chan

Send(s) ==
  /\ offer[s] # <<>>
  /\ offer' = [offer EXCEPT ![s] = <<>>]
  /\ chan' = [chan EXCEPT ![Remote] = @ \o offer[s]]

(* The other core sends to an endpoint. *)
Post(e, m) ==
  /\ chan' = [chan EXCEPT ![e] = Append(@, m)]
  /\ UNCHANGED offer

Receive(p) ==
  /\ chan[p] # <<>>
  /\ chan' = [chan EXCEPT ![p] = Tail(@)]
  /\ UNCHANGED offer

Next ==
  \/ \E s \in Senders : Send(s) \/ Refuse(s) \/ \E m \in Msgs : Offer(s, m)
  \/ \E e \in Endpoints, m \in Msgs : Post(e, m)
  \/ \E p \in Ports : Receive(p)

Spec == Init /\ [][Next]_vars
=============================================================================
