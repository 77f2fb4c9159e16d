------------------------------ MODULE KvStore ------------------------------
(***************************************************************************)
(* What kved promises its callers: a dictionary that survives restarts.    *)
(*                                                                         *)
(* A call takes effect in one step between its invocation and its return,  *)
(* it changes the entry of its own key only, it returns KVED_OK only after *)
(* it took effect, and losing power (or a clean restart) at any moment     *)
(* keeps every entry: the interrupted call took effect entirely or not at  *)
(* all.  Kved.tla is shown to implement this specification.                *)
(***************************************************************************)
EXTENDS Naturals, FiniteSets

CONSTANTS Keys,        \* the keys a client uses
          NumEntries   \* capacity of one index sector

VARIABLES store,  \* Keys -> [type, val], type "none" when the key is absent
          mode,   \* "off", "idle" or "busy"
          call,   \* the call in progress; after a read what it read
          ret     \* kved_error_t of the last call

vars == <<store, mode, call, ret>>

Absent(entry) == entry.type = "none"

Init == mode = "off" /\ \A k \in Keys : Absent(store[k])

(* The client calls; op, key, type and value are its choice. *)
Invoke ==
  /\ mode = "idle"
  /\ mode' = "busy"
  /\ ret' = "none"
  /\ UNCHANGED store

(* s holds the effect of the call. *)
HasEffect(s) ==
  CASE call.op = "write"  -> s[call.key] = [type |-> call.type, val |-> call.val]
    [] call.op = "delete" -> Absent(s[call.key])
    [] OTHER              -> TRUE

(* The call's key gets its value, every other key keeps its own. *)
TakesEffect ==
  /\ call.op \in {"write", "delete"}
  /\ call.key \in Keys
  /\ HasEffect(store')
  /\ \A k \in Keys \ {call.key} : store'[k] = store[k]

Apply ==
  /\ mode = "busy"
  /\ TakesEffect
  /\ UNCHANGED <<mode, call, ret>>

(* A call returns KVED_OK when it has taken effect, at the latest now. *)
Return ==
  /\ mode = "busy"
  /\ mode' = "idle"
  /\ ret' = "KVED_OK"
  /\ TakesEffect \/ (HasEffect(store) /\ UNCHANGED store)

(* It returns an error for one of two reasons, and without any effect. *)
Fail ==
  /\ mode = "busy"
  /\ mode' = "idle"
  /\ \/ /\ ret' = "KVED_INVALID_KEY"
        /\ \/ call.key \notin Keys
           \/ call.op = "delete" /\ Absent(store[call.key])
     \/ /\ ret' = "KVED_TABLE_FULL"
        /\ call.op = "write" /\ ~HasEffect(store)
        /\ Cardinality({k \in Keys : ~Absent(store[k])}) = NumEntries
  /\ UNCHANGED store

(* Reading returns what is stored under the key. *)
Read ==
  /\ mode = "idle" /\ UNCHANGED <<mode, store>>
  /\ call'.op = "read"
  /\ IF call'.key \in Keys /\ ~Absent(store[call'.key])
       THEN /\ ret' = "KVED_OK"
            /\ [type |-> call'.type, val |-> call'.val] = store[call'.key]
       ELSE ret' = "KVED_INVALID_KEY"

(* Power loss or kved_deinit: what is stored stays stored. *)
Stop ==
  /\ mode' = "off"
  /\ UNCHANGED store

Start ==
  /\ mode = "off" /\ mode' = "idle"
  /\ UNCHANGED store

Next == Invoke \/ Apply \/ Return \/ Fail \/ Read \/ Stop \/ Start

Spec == Init /\ [][Next]_vars
=============================================================================
