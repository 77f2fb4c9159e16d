------------------------------- MODULE Kved -------------------------------
(***************************************************************************)
(* kved, the key/value database of components/nvkvs, over NOR flash.       *)
(*                                                                         *)
(* Two index sectors hold the entries, two string sectors the text of the  *)
(* string entries.  One of each pair is in use; when the index is full of  *)
(* deleted entries the live ones are copied to the other pair.  A step is  *)
(* one word written to flash (or one sector erased) and the RAM updates    *)
(* that follow it, so that power may fail between any two of them.  The    *)
(* copying of one entry into the still unsigned sectors is one step.       *)
(*                                                                         *)
(* Flash words are abstracted to what the code tells apart.  A string is   *)
(* one data word (shorter than KVED_FLASH_WORD_SIZE).                      *)
(***************************************************************************)
EXTENDS Integers, FiniteSets

CONSTANTS Keys,             \* the keys of the database
          BadKey,           \* a key that kved_is_valid_key refuses
          Nums,             \* values of the numeric types
          Strs,             \* values of KVED_DATA_TYPE_STRING
          KeyTypes,         \* the types under which the client writes each key
          NumEntries,       \* entries of an index sector
          CntMax,           \* KVED_FLASH_UINT_MAX as a sector counter
          CONFIG_FREERTOS,  \* is the FreeRTOS mutex compiled in?
          Restarts,         \* may the client call kved_deinit?
          CutPoints         \* the control points at which power may fail

Types == {"num", "str"}
Sectors == {"A", "B"}
Slots == 1 .. NumEntries

(* Abstract flash words.  All other words are numbers, or members of Strs.  *)
FREE    == -1   \* an erased word, KVED_FREE_ENTRY = UINT64_MAX
GARBLED == -2   \* two different words written over each other
START   == -3   \* KVED_STR_SIGNATURE_ENTRY
END     == -4   \* KVED_STR_SIGNATURE_END

Markers == {"free", "deleted"}
NoKey == "none"

(* A string takes SectorLen data words and the code leaves one more free.   *)
SectorLen == 1
StrWords == 0 .. 1 + NumEntries + NumEntries * (SectorLen + 1)

ASSUME KeysAssumption ==
  /\ Keys \cap Markers = {} /\ BadKey \notin Keys \cup Markers
  /\ NoKey \notin Keys
ASSUME NumsAssumption == Nums \subseteq Nat \cup {FREE}
ASSUME StrsAssumption == Strs \cap Int = {}
ASSUME KeyTypesAssumption == KeyTypes \in [Keys -> SUBSET Types]
ASSUME NumEntriesAssumption == NumEntries \in Nat \ {0}
(* With fewer than three counter values two successive counters could not  *)
(* be told from a counter that rolled over.                                *)
ASSUME CntMaxAssumption == CntMax \in Nat /\ CntMax >= 3
ASSUME ConfigAssumption == CONFIG_FREERTOS \in BOOLEAN /\ Restarts \in BOOLEAN

(* The control points: before which flash operation the running call is.    *)
InitLabels == {"i_index", "i_erase", "i_cnt", "i_sig", "i_string", "i_strerase",
               "i_strsig", "i_strend"}
WriteLabels == {"write", "full", "w_stridx", "w_strdata", "w_val", "w_key", "w_del"}
SwitchLabels == {"sw_erase", "sw_strerase", "sw_copy", "sw_sig", "sw_strsig", "sw_strend",
                 "sw_inval"}
Labels == {"off", "idle", "check", "scan", "delete"}
            \cup InitLabels \cup WriteLabels \cup SwitchLabels

ASSUME CutPointsAssumption == CutPoints \subseteq Labels

VARIABLES main,   \* the index sectors: signature, counter and entries
          str,    \* the string sectors, word by word
          ctrl,   \* kved_ctrl_t, in RAM
          lock,   \* ctrl->mutex is taken
          pc,     \* the control point of the running call
          call,   \* the running call; after a read what it read
          ret,    \* the result of the last call
          old,    \* key_index of kved_internal_data_write, 0 when not found
          i,      \* index of the loops over the entries
          nxt,    \* next_index of kved_sector_switch
          sidx    \* str_next_index of kved_sector_switch

flash == <<main, str>>
locals == <<old, i, nxt, sidx>>
vars == <<main, str, ctrl, lock, pc, call, ret, old, i, nxt, sidx>>

Other(s) == IF s = "A" THEN "B" ELSE "A"

FreeSlot == [k |-> "free", t |-> "none", v |-> FREE]
ErasedMain == [sig |-> "free", cnt |-> CntMax, slot |-> [n \in Slots |-> FreeSlot]]
ErasedStr == [w \in StrWords |-> FREE]

(* Programming NOR flash only clears bits. *)
And(a, b) ==
  CASE a = FREE -> b
    [] b = FREE \/ a = b -> a
    [] a = 0 \/ b = 0 -> 0
    [] OTHER -> GARBLED
Program(words, w, x) == [words EXCEPT ![w] = And(@, x)]

ProgramValue(e, x) == [e EXCEPT !.v = And(@, x)]

(* The word of an entry's key and type.  Deleting clears it; nothing brings *)
(* a cleared word back.                                                     *)
ProgramKey(e, k, t) ==
  IF e.k = "free" THEN [e EXCEPT !.k = k, !.t = t]
  ELSE IF e.k = k /\ e.t = t THEN e
  ELSE [e EXCEPT !.k = "deleted", !.t = "none"]
DeleteSlot(m, s, n) == [m EXCEPT ![s].slot[n] = [@ EXCEPT !.k = "deleted", !.t = "none"]]
Sign(m, s) == [m EXCEPT ![s].sig = IF @ = "free" THEN "ok" ELSE @]
Unsign(m, s) == [m EXCEPT ![s].sig = "zero"]

kved_is_valid_key(k) == k \notin Markers \cup {BadKey}

First(S) == IF S = {} THEN 0 ELSE CHOOSE n \in S : \A m \in S : n <= m

kved_key_index_find(m, s, k) == First({n \in Slots : m[s].slot[n].k = k})

kved_string_entry_to_header(entry) == 1 + entry
kved_string_entry_to_start_sector(offset) == 1 + NumEntries + 1 + offset

(* The header of a string: offset and length; the length is never zero. *)
Ptr(offset) == 1 + offset
Offset(ptr) == ptr - 1

(* The texts kved_value_string_decode may produce for the value of an entry. *)
(* An index out of range or a header that is not one leaves the caller's     *)
(* uninitialised buffer; words that were never written or were overwritten   *)
(* are not a string of the client.                                           *)
Anything == Strs \cup {GARBLED}
kved_value_string_decode(words, v) ==
  IF v < 0 \/ v > NumEntries THEN Anything
  ELSE LET ptr == words[kved_string_entry_to_header(v)]
       IN  IF ptr <= 0 THEN Anything
           ELSE LET text == words[kved_string_entry_to_start_sector(Offset(ptr))]
                IN  IF text \in Strs THEN {text} ELSE {GARBLED}

(* What kved_internal_data_read may return for an entry. *)
Decoded(e, words) ==
  [type : {e.t},
   val  : IF e.t = "str" THEN kved_value_string_decode(words, e.v) ELSE {e.v}]

ZeroCtrl == [sector |-> "A", str_sector |-> "A", first_free |-> 0, used |-> 0,
             deleted |-> 0, free |-> 0, next_idx |-> 0, next_off |-> 0]
NoCall == [op |-> "none", key |-> NoKey, type |-> "none", val |-> FREE]

Init ==
  /\ main = [s \in Sectors |-> ErasedMain]
  /\ str = [s \in Sectors |-> ErasedStr]
  /\ ctrl = ZeroCtrl
  /\ lock = FALSE
  /\ pc = "off"
  /\ call = NoCall /\ ret = "none"
  /\ old = 0 /\ i = 1 /\ nxt = 1 /\ sidx = 0

Goto(l) == pc' = l
(* The call releases the mutex and returns. *)
Return(r) == /\ pc' = "idle" /\ ret' = r /\ lock' = FALSE /\ call' = NoCall
             /\ old' = 0 /\ i' = 1 /\ nxt' = 1 /\ sidx' = 0

-----------------------------------------------------------------------------
(* kved_init *)

(* Mutant: the higher counter wins, the rolled over one too. *)
Losers_by_counter ==
  IF \E s \in Sectors : main[s].sig # "ok" THEN {}
  ELSE IF main["A"].cnt > main["B"].cnt THEN {"B"} ELSE {"A"}

(* The index sectors that kved_sector_consistency_check invalidates. *)
Losers ==
  LET cnt(s) == main[s].cnt
      rolled == {s \in Sectors : cnt(s) = CntMax - 1 /\ cnt(Other(s)) = 0}
      erased == {s \in Sectors : cnt(s) = CntMax}
  IN  IF \E s \in Sectors : main[s].sig # "ok" THEN {}
      ELSE IF rolled # {} THEN rolled
      ELSE IF erased # {} THEN erased
      ELSE IF cnt("A") > cnt("B") THEN {"B"} ELSE {"A"}

kved_sector_consistency_check ==
  /\ pc = "off"
  /\ main' = [s \in Sectors |-> IF s \in Losers THEN [main[s] EXCEPT !.sig = "zero"]
                                ELSE main[s]]
  /\ ctrl' = ZeroCtrl
  /\ call' = [NoCall EXCEPT !.op = "init"]
  /\ ret' = "none"
  /\ Goto("i_index")
  /\ UNCHANGED <<str, lock, locals>>

Count(m, s, K) == Cardinality({n \in Slots : m[s].slot[n].k \in K})
kved_sector_stats_read(m, s) ==
  [ctrl EXCEPT !.sector = s,
               !.first_free = kved_key_index_find(m, s, "free"),
               !.free = Count(m, s, {"free"}),
               !.deleted = Count(m, s, {"deleted"}),
               !.used = NumEntries - Count(m, s, Markers)]

InitIndexSector ==
  /\ pc = "i_index"
  /\ IF \E s \in Sectors : main[s].sig = "ok"
       THEN LET s == IF main["A"].sig = "ok" THEN "A" ELSE "B"
            IN  /\ ctrl' = kved_sector_stats_read(main, s)
                /\ Goto("i_string")
       ELSE /\ Goto("i_erase")
            /\ UNCHANGED ctrl
  /\ UNCHANGED <<flash, lock, call, ret, locals>>

InitFormatIndex ==
  /\ \/ /\ pc = "i_erase" /\ Goto("i_cnt")
        /\ main' = [main EXCEPT !["A"] = ErasedMain]
        /\ UNCHANGED ctrl
     \/ /\ pc = "i_cnt" /\ Goto("i_sig")
        /\ main' = [main EXCEPT !["A"].cnt = 0]
        /\ UNCHANGED ctrl
     \/ /\ pc = "i_sig" /\ Goto("i_string")
        /\ main' = Sign(main, "A")
        /\ ctrl' = kved_sector_stats_read(main', "A")
  /\ UNCHANGED <<str, lock, call, ret, locals>>

StrSigned(s) == str[s][0] = START /\ str[s][NumEntries + 1] = END

InitStringSector ==
  /\ pc = "i_string"
  /\ IF \E s \in Sectors : StrSigned(s)
       THEN /\ ctrl' = [ctrl EXCEPT !.str_sector = IF StrSigned("A") THEN "A" ELSE "B"]
            /\ Goto("check")
       ELSE /\ Goto("i_strerase")
            /\ UNCHANGED ctrl
  /\ UNCHANGED <<flash, lock, call, ret, locals>>

InitFormatString ==
  /\ \/ /\ pc = "i_strerase" /\ Goto("i_strsig")
        /\ str' = [str EXCEPT !["A"] = ErasedStr]
     \/ /\ pc = "i_strsig" /\ Goto("i_strend")
        /\ str' = [str EXCEPT !["A"] = Program(@, 0, START)]
     \/ /\ pc = "i_strend" /\ Goto("check")
        /\ str' = [str EXCEPT !["A"] = Program(@, NumEntries + 1, END)]
  /\ ctrl' = [ctrl EXCEPT !.str_sector = "A"]
  /\ UNCHANGED <<main, lock, call, ret, locals>>

-----------------------------------------------------------------------------
(* The consistency checks, run by kved_init and at the end of a switch. *)

(* A failed check makes kved_init free the handle and the others return. *)
kved_string_consistency_check ==
  /\ pc = "check"
  /\ IF StrSigned(ctrl.str_sector)
       THEN LET free == {n \in 0 .. NumEntries - 1 :
                           str[ctrl.str_sector][kved_string_entry_to_header(n)] = FREE}
            IN  /\ ctrl' = IF free = {} THEN ctrl ELSE [ctrl EXCEPT !.next_idx = First(free)]
                /\ i' = 1
                /\ Goto("scan")
                /\ UNCHANGED <<lock, call, ret, old, nxt, sidx>>
       ELSE IF call.op = "init"
              THEN Goto("off") /\ ctrl' = ZeroCtrl /\ UNCHANGED <<lock, call, ret, locals>>
              ELSE Return("KVED_CORRUPT_TABLE") /\ UNCHANGED ctrl
  /\ UNCHANGED flash

HalfWritten(e) == e.k = "free" /\ e.v # FREE
(* Mutant: the entry whose key was seen before is deleted. *)
DuplicatedBehind(s, n) ==
  LET e == main[s].slot[n]
  IN  kved_is_valid_key(e.k) /\ \E d \in Slots : d < n /\ main[s].slot[d].k = e.k

DuplicatedAhead(s, n) ==
  LET e == main[s].slot[n]
  IN  kved_is_valid_key(e.k) /\ \E d \in Slots : d > n /\ main[s].slot[d].k = e.k

(* The next entry, from i on, that the loop deletes; 0 if there is none.    *)
ToDelete == First({n \in Slots : /\ n >= i
                                 /\ \/ HalfWritten(main[ctrl.sector].slot[n])
                                    \/ DuplicatedAhead(ctrl.sector, n)})

(* The loop runs on to the next half written or superseded entry. *)
kved_data_consistency_check ==
  /\ pc = "scan" /\ ToDelete # 0
  /\ main' = DeleteSlot(main, ctrl.sector, ToDelete)
  /\ ctrl' = IF HalfWritten(main[ctrl.sector].slot[ToDelete])
               THEN [ctrl EXCEPT !.deleted = @ + 1, !.free = @ - 1]
               ELSE [ctrl EXCEPT !.deleted = @ + 1, !.used = @ - 1]
  /\ i' = ToDelete + 1
  /\ UNCHANGED <<str, lock, pc, call, ret, old, nxt, sidx>>

(* The writer goes on with a key that was not yet in the database; a key    *)
(* that was there got its new value while it was copied.                    *)
AppendFrom(t) == Goto(IF t = "str" THEN "w_stridx" ELSE "w_val")

ConsistencyCheckDone ==
  /\ pc = "scan" /\ ToDelete = 0
  /\ IF call.op = "write" /\ old = 0
       THEN /\ AppendFrom(call.type)
            /\ i' = 1 /\ nxt' = 1 /\ sidx' = 0
            /\ UNCHANGED <<old, lock, call, ret>>
       ELSE Return("KVED_OK")
  /\ UNCHANGED <<flash, ctrl>>

-----------------------------------------------------------------------------
(* The calls *)

(* kved_cpu_critical_section_enter *)
Enter(op, k, t, v, l) ==
  /\ pc = "idle" /\ ~lock
  /\ lock' = CONFIG_FREERTOS
  /\ call' = [op |-> op, key |-> k, type |-> t, val |-> v]
  /\ ret' = "none"
  /\ Goto(l)
  /\ UNCHANGED <<flash, ctrl, locals>>

Values(t) == IF t = "str" THEN Strs ELSE Nums

kved_data_write ==
  \/ \E k \in Keys : \E t \in KeyTypes[k] : \E v \in Values(t) : Enter("write", k, t, v, "write")
  \/ \E v \in Nums : Enter("write", BadKey, "num", v, "write")
kved_data_delete == \E k \in Keys \cup {BadKey} : Enter("delete", k, "none", FREE, "delete")
kved_compact_database == Enter("compact", NoKey, "none", FREE, "sw_erase")

(* Reading takes and releases the mutex and changes nothing but the client's *)
(* kved_data_t, whose type it sets.                                          *)
kved_data_read ==
  /\ pc = "idle" /\ ~lock
  /\ \E k \in Keys \cup {BadKey} :
       LET n == kved_key_index_find(main, ctrl.sector, k)
       IN  IF k = BadKey \/ n = 0
             THEN /\ ret' = "KVED_INVALID_KEY"
                  /\ call' = [op |-> "read", key |-> k, type |-> "none", val |-> FREE]
             ELSE /\ ret' = "KVED_OK"
                  /\ \E d \in Decoded(main[ctrl.sector].slot[n], str[ctrl.str_sector]) :
                       call' = [op |-> "read", key |-> k, type |-> d.type, val |-> d.val]
  /\ UNCHANGED <<flash, ctrl, lock, pc, locals>>

(* kved_internal_data_write, up to its first write *)

(* The outcomes of comparing the stored value with the new one.  The type    *)
(* of the stored entry is not looked at.                                     *)
Equal(e) ==
  IF call.type = "str"
    THEN {text = call.val : text \in kved_value_string_decode(str[ctrl.str_sector], e.v)}
    ELSE {e.v = call.val}

Found == kved_key_index_find(main, ctrl.sector, call.key)
Unchanged == IF Found = 0 THEN {FALSE} ELSE Equal(main[ctrl.sector].slot[Found])

WriteRejected ==
  /\ pc = "write"
  /\ ~kved_is_valid_key(call.key)
  /\ Return("KVED_INVALID_KEY")
  /\ UNCHANGED <<flash, ctrl>>

WriteUnchanged ==
  /\ pc = "write"
  /\ kved_is_valid_key(call.key)
  /\ TRUE \in Unchanged
  /\ Return("KVED_OK")
  /\ UNCHANGED <<flash, ctrl>>

Writing ==
  /\ pc = "write"
  /\ kved_is_valid_key(call.key)
  /\ FALSE \in Unchanged

WriteFull ==
  /\ Writing
  /\ ctrl.used = NumEntries
  /\ Goto("full")
  /\ UNCHANGED <<flash, ctrl, lock, call, ret, locals>>

(* kved_dump enters the critical section again. *)
kved_dump ==
  /\ pc = "full"
  /\ CONFIG_FREERTOS => ~lock
  /\ Return("KVED_TABLE_FULL")
  /\ UNCHANGED <<flash, ctrl>>

WriteSwitch ==
  /\ Writing
  /\ ctrl.used # NumEntries /\ ctrl.free = 0
  /\ old' = Found
  /\ Goto("sw_erase")
  /\ UNCHANGED <<flash, ctrl, lock, call, ret, i, nxt, sidx>>

WriteAppend ==
  /\ Writing
  /\ ctrl.used # NumEntries /\ ctrl.free # 0
  /\ old' = Found
  /\ AppendFrom(call.type)
  /\ UNCHANGED <<flash, ctrl, lock, call, ret, i, nxt, sidx>>

(* kved_internal_strdata_write *)
WriteStringIndex ==
  /\ pc = "w_stridx"
  /\ str' = [str EXCEPT ![ctrl.str_sector] =
               Program(@, kved_string_entry_to_header(ctrl.next_idx), Ptr(ctrl.next_off))]
  /\ Goto("w_strdata")
  /\ UNCHANGED <<main, ctrl, lock, call, ret, locals>>

(* Mutant: the data words of the string are not accounted for. *)
WriteStringData_overlapping ==
  /\ pc = "w_strdata"
  /\ str' = [str EXCEPT ![ctrl.str_sector] =
               Program(@, kved_string_entry_to_start_sector(ctrl.next_off), call.val)]
  /\ ctrl' = [ctrl EXCEPT !.next_idx = @ + 1]
  /\ Goto("w_val")
  /\ UNCHANGED <<main, lock, call, ret, locals>>

WriteStringData ==
  /\ pc = "w_strdata"
  /\ str' = [str EXCEPT ![ctrl.str_sector] =
               Program(@, kved_string_entry_to_start_sector(ctrl.next_off), call.val)]
  /\ ctrl' = [ctrl EXCEPT !.next_idx = @ + 1, !.next_off = @ + SectorLen + 1]
  /\ Goto("w_val")
  /\ UNCHANGED <<main, lock, call, ret, locals>>

(* kved_internal_data_write: first the value, then the key, then the old entry *)
EncodedValue == IF call.type = "str" THEN ctrl.next_idx - 1 ELSE call.val

WriteValue ==
  /\ pc = "w_val"
  /\ main' = [main EXCEPT ![ctrl.sector].slot[ctrl.first_free] =
                ProgramValue(@, EncodedValue)]
  /\ Goto("w_key")
  /\ UNCHANGED <<str, ctrl, lock, call, ret, locals>>

WriteKey ==
  /\ pc = "w_key"
  /\ main' = [main EXCEPT ![ctrl.sector].slot[ctrl.first_free] =
                ProgramKey(@, call.key, call.type)]
  /\ ctrl' = [ctrl EXCEPT !.free = @ - 1, !.used = @ + 1, !.first_free = @ + 1]
  /\ IF old = 0 THEN Return("KVED_OK")
     ELSE Goto("w_del") /\ UNCHANGED <<lock, call, ret, locals>>
  /\ UNCHANGED str

(* Mutant: the old entry is not deleted. *)
WriteDeleteOld_kept ==
  /\ pc = "w_del"
  /\ ctrl' = [ctrl EXCEPT !.deleted = @ + 1, !.used = @ - 1]
  /\ Return("KVED_OK")
  /\ UNCHANGED flash

(* Mutant: the deleted entry still counts as used. *)
WriteDeleteOld_miscounted ==
  /\ pc = "w_del"
  /\ main' = DeleteSlot(main, ctrl.sector, old)
  /\ ctrl' = [ctrl EXCEPT !.deleted = @ + 1]
  /\ Return("KVED_OK")
  /\ UNCHANGED str

WriteDeleteOld ==
  /\ pc = "w_del"
  /\ main' = DeleteSlot(main, ctrl.sector, old)
  /\ ctrl' = [ctrl EXCEPT !.deleted = @ + 1, !.used = @ - 1]
  /\ Return("KVED_OK")
  /\ UNCHANGED str

kved_internal_data_delete ==
  /\ pc = "delete"
  /\ IF kved_is_valid_key(call.key) /\ Found # 0
       THEN /\ main' = DeleteSlot(main, ctrl.sector, Found)
            /\ ctrl' = [ctrl EXCEPT !.deleted = @ + 1, !.used = @ - 1]
            /\ Return("KVED_OK")
       ELSE /\ Return("KVED_INVALID_KEY")
            /\ UNCHANGED <<main, ctrl>>
  /\ UNCHANGED str

-----------------------------------------------------------------------------
(* kved_sector_switch *)

SwitchErase ==
  /\ \/ /\ pc = "sw_erase" /\ Goto("sw_strerase")
        /\ main' = [main EXCEPT ![Other(ctrl.sector)] = ErasedMain]
        /\ UNCHANGED str
     \/ /\ pc = "sw_strerase" /\ Goto("sw_copy")
        /\ str' = [str EXCEPT ![Other(ctrl.str_sector)] = ErasedStr]
        /\ UNCHANGED main
  /\ i' = 1 /\ nxt' = 1 /\ sidx' = 0
  /\ UNCHANGED <<ctrl, lock, call, ret, old>>

(* Mutant: a copied string entry keeps the value of the original, its      *)
(* header in the old string sector.                                        *)
CopiedIndex_stale(e) == e.v
(* The value of a copied string entry: its header in the new string sector. *)
CopiedIndex(e) == sidx

(* The entry of the written key gets the new value, read according to the   *)
(* type of the old entry: a number is no text and a text no number.         *)
CopiedTexts(e) ==
  IF call.op = "write" /\ e.k = call.key
    THEN IF call.type = "str" THEN {call.val} ELSE {GARBLED}
    ELSE kved_value_string_decode(str[ctrl.str_sector], e.v)
CopiedNumber(e) ==
  IF call.op = "write" /\ e.k = call.key
    THEN IF call.type = "num" THEN call.val ELSE GARBLED
    ELSE e.v

SwitchCopy ==
  /\ pc = "sw_copy" /\ i \in Slots
  /\ LET e == main[ctrl.sector].slot[i]
         m == Other(ctrl.sector)
         s == Other(ctrl.str_sector)
         offset == sidx * (SectorLen + 1)
     IN  IF ~kved_is_valid_key(e.k) THEN UNCHANGED <<flash, nxt, sidx>>
         ELSE IF e.t = "str"
           THEN /\ \E text \in CopiedTexts(e) :
                     str' = [str EXCEPT ![s] =
                               Program(Program(@, kved_string_entry_to_start_sector(offset), text),
                                       kved_string_entry_to_header(sidx), Ptr(offset))]
                /\ main' = [main EXCEPT ![m].slot[nxt] = [k |-> e.k, t |-> e.t, v |-> CopiedIndex(e)]]
                /\ nxt' = nxt + 1 /\ sidx' = sidx + 1
           ELSE /\ main' = [main EXCEPT ![m].slot[nxt] =
                              [k |-> e.k, t |-> e.t, v |-> CopiedNumber(e)]]
                /\ nxt' = nxt + 1
                /\ UNCHANGED <<str, sidx>>
  /\ i' = i + 1
  /\ UNCHANGED <<ctrl, lock, pc, call, ret, old>>

(* Mutant: the counter is not rolled over. *)
NextCnt_no_rollover(cnt) == cnt + 1

NextCnt(cnt) == IF cnt + 1 = CntMax THEN 0 ELSE cnt + 1

(* Mutant: the original is invalidated before the copy is signed. *)
SwitchAdopt_early_invalidation ==
  /\ pc = "sw_copy" /\ i \notin Slots
  /\ ctrl' = [sector |-> Other(ctrl.sector), str_sector |-> Other(ctrl.str_sector),
              first_free |-> nxt, used |-> nxt - 1, deleted |-> 0,
              free |-> NumEntries - (nxt - 1),
              next_idx |-> sidx, next_off |-> sidx * (SectorLen + 1)]
  /\ main' = [main EXCEPT ![Other(ctrl.sector)].cnt = NextCnt(main[ctrl.sector].cnt),
                          ![ctrl.sector].sig = "zero"]
  /\ Goto("sw_sig")
  /\ UNCHANGED <<str, lock, call, ret, locals>>

(* From here on ctrl describes the copy; its counter is written. *)
SwitchAdopt ==
  /\ pc = "sw_copy" /\ i \notin Slots
  /\ ctrl' = [sector |-> Other(ctrl.sector), str_sector |-> Other(ctrl.str_sector),
              first_free |-> nxt, used |-> nxt - 1, deleted |-> 0,
              free |-> NumEntries - (nxt - 1),
              next_idx |-> sidx, next_off |-> sidx * (SectorLen + 1)]
  /\ main' = [main EXCEPT ![Other(ctrl.sector)].cnt = NextCnt(main[ctrl.sector].cnt)]
  /\ Goto("sw_sig")
  /\ UNCHANGED <<str, lock, call, ret, locals>>

SwitchSign ==
  /\ pc = "sw_sig"
  /\ main' = Sign(main, ctrl.sector)
  /\ Goto("sw_strsig")
  /\ UNCHANGED <<str, ctrl, lock, call, ret, locals>>

SwitchSignString ==
  /\ \/ /\ pc = "sw_strsig" /\ Goto("sw_strend")
        /\ str' = [str EXCEPT ![ctrl.str_sector] = Program(@, 0, START)]
     \/ /\ pc = "sw_strend" /\ Goto("sw_inval")
        /\ str' = [str EXCEPT ![ctrl.str_sector] = Program(@, NumEntries + 1, END)]
  /\ UNCHANGED <<main, ctrl, lock, call, ret, locals>>

(* The old index sector is invalidated; the old string sector is not. *)
SwitchInvalidate ==
  /\ pc = "sw_inval"
  /\ main' = Unsign(main, Other(ctrl.sector))
  /\ Goto("check")
  /\ UNCHANGED <<str, ctrl, lock, call, ret, locals>>

-----------------------------------------------------------------------------
(* The RAM is lost, the flash is kept. *)
PowerOff ==
  /\ pc' = "off"
  /\ ctrl' = ZeroCtrl /\ lock' = FALSE
  /\ call' = NoCall /\ ret' = "none"
  /\ old' = 0 /\ i' = 1 /\ nxt' = 1 /\ sidx' = 0
  /\ UNCHANGED flash

kved_deinit == Restarts /\ pc = "idle" /\ PowerOff
PowerCut == pc \in CutPoints /\ pc # "off" /\ PowerOff

Client == kved_data_write \/ kved_data_delete \/ kved_compact_database \/ kved_data_read

(* The steps of a call, and of kved_init, in progress. *)
Step ==
  \/ InitIndexSector \/ InitFormatIndex \/ InitStringSector \/ InitFormatString
  \/ kved_string_consistency_check \/ kved_data_consistency_check \/ ConsistencyCheckDone
  \/ WriteRejected \/ WriteUnchanged \/ WriteFull \/ kved_dump \/ WriteSwitch \/ WriteAppend
  \/ WriteStringIndex \/ WriteStringData \/ WriteValue \/ WriteKey \/ WriteDeleteOld
  \/ kved_internal_data_delete
  \/ SwitchErase \/ SwitchCopy \/ SwitchAdopt \/ SwitchSign \/ SwitchSignString
  \/ SwitchInvalidate

Next == kved_sector_consistency_check \/ Step \/ Client \/ kved_deinit \/ PowerCut

Spec == Init /\ [][Next]_vars
-----------------------------------------------------------------------------
Signed(s) == main[s].sig = "ok"
Entries == [k : Keys \cup Markers, t : Types \cup {"none"}, v : Int]

MainType == [Sectors -> [sig : {"free", "ok", "zero"}, cnt : 0 .. CntMax,
                         slot : [Slots -> Entries]]]
StrType == [Sectors -> [StrWords -> Strs \cup Int]]
CtrlType == [sector : Sectors, str_sector : Sectors, first_free : Nat, used : Int,
             deleted : Int, free : Int, next_idx : Nat, next_off : Nat]
CallType == [op : {"none", "init", "read", "write", "delete", "compact"},
             key : Keys \cup {BadKey, NoKey}, type : Types \cup {"none"}, val : Strs \cup Int]
Results == {"KVED_OK", "KVED_INVALID_KEY", "KVED_TABLE_FULL", "KVED_CORRUPT_TABLE"}

(* The state variables keep their shape; in particular a sector counter     *)
(* never leaves the range of a flash word (NextCnt rolls over).             *)
TypeOK ==
  /\ main \in MainType /\ str \in StrType /\ ctrl \in CtrlType /\ lock \in BOOLEAN
  /\ call \in CallType /\ (call.type # "str" => call.val \in Int)
  /\ pc \in Labels /\ ret \in Results \cup {"none"}
  /\ old \in 0 .. NumEntries /\ i \in 1 .. NumEntries + 1 /\ nxt \in Nat /\ sidx \in Nat

(* Once an index sector has been signed, no step, power loss included,      *)
(* leaves the flash without one: kved_init never formats a database again   *)
(* (the order of the writes of kved_sector_switch, and                      *)
(* kved_sector_consistency_check, which must invalidate only one of two).   *)
SectorKept == [][(\E s \in Sectors : Signed(s)) => (\E s \in Sectors : Signed(s)')]_vars

(* While both index sectors are signed, from the signature of the copy to   *)
(* the invalidation of the original, kved_sector_consistency_check would    *)
(* give up the original, also when the counter has rolled over.             *)
NewestWins ==
  pc \in {"sw_strsig", "sw_strend", "sw_inval"} => Losers = {Other(ctrl.sector)}

(* Between calls the counters in RAM agree with the flash, and the next     *)
(* entry goes to the first free slot (ctrl->stats and first_free_index,     *)
(* kept up to date by every write, delete, switch and recovery).            *)
StatsExact ==
  pc = "idle" =>
    /\ ctrl.used = NumEntries - Count(main, ctrl.sector, Markers)
    /\ ctrl.deleted = Count(main, ctrl.sector, {"deleted"})
    /\ ctrl.free = Count(main, ctrl.sector, {"free"})
    /\ ctrl.free > 0 => ctrl.first_free = kved_key_index_find(main, ctrl.sector, "free")

(* As long as the index has a free entry the string table has a free header *)
(* and free data words for it: next_free_index and next_free_sector never   *)
(* point at words in use, nor at the end signature.                         *)
StringSpace ==
  pc = "idle" /\ ctrl.free > 0 =>
    /\ ctrl.next_idx < NumEntries
    /\ LET words == str[ctrl.str_sector]
       IN  /\ words[kved_string_entry_to_header(ctrl.next_idx)] = FREE
           /\ words[kved_string_entry_to_start_sector(ctrl.next_off)] = FREE
=============================================================================
