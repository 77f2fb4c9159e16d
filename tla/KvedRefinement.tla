--------------------------- MODULE KvedRefinement ---------------------------
(***************************************************************************)
(* Kved implements KvStore, in two senses.  Durable: the store is what the *)
(* flash alone determines, so it is not lost with the RAM.  Session: the   *)
(* store is what kved_data_read returns in the running session.            *)
(***************************************************************************)
EXTENDS Kved

NoEntry == [type |-> "none", val |-> FREE]

(* The entry n of an index sector as a reader of a string sector sees it;   *)
(* a text that is not determined is none of the client's.                   *)
EntryAt(m, n, words) ==
  IF n = 0 THEN NoEntry
  ELSE LET e == m.slot[n]
           texts == kved_value_string_decode(words, e.v)
       IN  [type |-> e.t,
            val |-> IF e.t # "str" THEN e.v
                    ELSE IF Cardinality(texts) = 1 THEN CHOOSE x \in texts : TRUE ELSE GARBLED]

(* The index sector the flash would be read from after a restart. *)
Durables == {s \in Sectors : main[s].sig = "ok"} \ Losers
DurableStr == IF StrSigned("A") THEN "A" ELSE "B"

Last(S) == IF S = {} THEN 0 ELSE CHOOSE n \in S : \A m \in S : m <= n

(* Of two entries with one key the later is the newer. *)
DurableMap ==
  LET durables == Durables
  IN  IF durables = {} THEN [k \in Keys |-> NoEntry]
      ELSE LET m == main[CHOOSE s \in durables : TRUE]
               words == str[DurableStr]
           IN  [k \in Keys |-> EntryAt(m, Last({n \in Slots : m.slot[n].k = k}), words)]
DurableEntry(k) == DurableMap[k]

VisibleEntry(k) ==
  EntryAt(main[ctrl.sector], kved_key_index_find(main, ctrl.sector, k), str[ctrl.str_sector])

Mode == IF pc = "idle" THEN "idle"
        ELSE IF call.op \in {"write", "delete", "compact"} THEN "busy" ELSE "off"

VisibleMap == [k \in Keys |-> VisibleEntry(k)]

D == INSTANCE KvStore WITH store <- DurableMap, mode <- Mode
V == INSTANCE KvStore WITH store <- VisibleMap, mode <- Mode

(* The database is a dictionary that survives restarts: every call changes  *)
(* its own key only, in one step, has taken effect when it returns KVED_OK, *)
(* and a restart at any point of kved_init, of a write, of a delete or of a *)
(* sector switch loses nothing (kved.c: the order of the writes of          *)
(* kved_internal_data_write and kved_sector_switch, and kved_init).         *)
DurableStore == D!Spec

(* An entry disappears only because its key is deleted: a write, a sector   *)
(* switch, a power loss and the recovery that follows replace the value of  *)
(* a key or keep it (kved_internal_data_write, kved_data_consistency_check). *)
OldValueKept ==
  [][\A k \in Keys : DurableEntry(k) # NoEntry /\ DurableEntry(k)' = NoEntry
                       => call.op = "delete" /\ call.key = k]_vars

(* Between calls a caller reads what it would read after a restart: the     *)
(* sectors in use are the ones kved_init selects.                           *)
Persistent == pc = "idle" => \A k \in Keys : VisibleEntry(k) = DurableEntry(k)

(* Within a session the database is a dictionary, for strings too: writes   *)
(* that append, writes that switch sectors, deletions and compactions all   *)
(* leave the text of every other key as it was (kved_sector_switch,         *)
(* kved_internal_strdata_write, kved_value_string_decode).                  *)
SessionStore == V!Spec
=============================================================================
