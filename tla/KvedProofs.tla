---------------------------- MODULE KvedProofs ----------------------------
(***************************************************************************)
(* Proofs about Kved for every set of keys, every number of entries and    *)
(* every range of the sector counter.  The sectors: power may fail at      *)
(* every control point.  The entries and their values, and the flash as a  *)
(* dictionary: anywhere but between the value and the key of an entry      *)
(* (WholeEntries), and the values are numbers (NumbersOnly).  The strings, *)
(* and the flash with its strings as a dictionary: from start to power-off *)
(* of one session (OneSession), each key written with one type (OneType).  *)
(***************************************************************************)
EXTENDS KvedRefinement, FiniteSetTheorems, Least

(* First returns 0 or a member of the set it searches. *)
LEMMA FirstIsMember ==
  ASSUME NEW S \in SUBSET Nat
  PROVE  IF S = {} THEN First(S) = 0 ELSE First(S) \in S
PROOF
  BY LeastExists DEF First

-----------------------------------------------------------------------------
(* The inductive invariant: what the control point says about the call ... *)
Appending == {"w_stridx", "w_strdata", "w_val", "w_key", "w_del"}
CallInv ==
  /\ call.op = "write" => call.key \in Keys \cup {BadKey}
  /\ pc = "write" => call.op = "write"
  /\ pc \in InitLabels => call.op = "init"
  /\ pc \in Appending => call.key \in Keys
  /\ pc \in SwitchLabels \cup {"check", "scan"} /\ call.op = "write" => call.key \in Keys

(* ... and about the signatures and counters of the two index sectors.     *)
Formatting == {"i_erase", "i_cnt", "i_sig"}
Selecting == {"off", "i_index"} \cup Formatting
BothSigned == {"sw_strsig", "sw_strend", "sw_inval"}
Succeeds(s) == main[s].cnt = NextCnt(main[Other(s)].cnt)
SectorInv ==
  /\ \A s \in Sectors : Signed(s) => main[s].cnt < CntMax
  /\ (\A s \in Sectors : Signed(s)) =>
       pc \in BothSigned \cup {"off"} /\ \E s \in Sectors : Succeeds(s)
  /\ pc \in Formatting => \A s \in Sectors : ~Signed(s)
  /\ pc \in {"i_cnt", "i_sig"} => main["A"].sig = "free"
  /\ pc = "i_sig" => main["A"].cnt = 0
  /\ pc \notin Selecting \cup {"sw_sig"} => Signed(ctrl.sector)
  /\ pc \in {"sw_strerase", "sw_copy"} => main[Other(ctrl.sector)].sig = "free"
  /\ pc = "sw_sig" => Signed(Other(ctrl.sector)) /\ main[ctrl.sector].sig = "free"
  /\ pc \in BothSigned => Signed(Other(ctrl.sector))
  /\ pc \in BothSigned \cup {"sw_sig"} => Succeeds(ctrl.sector)

IInv == TypeOK /\ CallInv /\ SectorInv

USE NumEntriesAssumption, CntMaxAssumption

LEMMA InitIInv == Init => IInv
PROOF
  <1> SUFFICES ASSUME Init PROVE IInv
    OBVIOUS
  <1> USE DEF Init, Sectors, Slots, Labels, InitLabels, WriteLabels, SwitchLabels
  <1>1. TypeOK
    <2>1. main \in MainType
      BY DEF MainType, ErasedMain, FreeSlot, FREE, Entries, Markers
    <2>2. str \in StrType
      BY DEF StrType, ErasedStr, FREE
    <2>3. ctrl \in CtrlType
      BY DEF CtrlType, ZeroCtrl
    <2>4. call \in CallType /\ call.val \in Int
      BY DEF CallType, NoCall, FREE
    <2>5. lock \in BOOLEAN
      OBVIOUS
    <2> QED
      BY <2>1, <2>2, <2>3, <2>4, <2>5 DEF TypeOK
  <1>2. CallInv
    BY DEF CallInv, NoCall, Appending
  <1>3. SectorInv
    BY DEF SectorInv, Signed, ErasedMain, Formatting, Selecting, BothSigned, Other
  <1> QED
    BY <1>1, <1>2, <1>3 DEF IInv

-----------------------------------------------------------------------------
(* What the operators of the model return. *)

LEMMA AndType == \A a, b \in Int : And(a, b) \in Int
PROOF
  BY DEF And, FREE, GARBLED

LEMMA AndWordType == \A a, b \in Strs \cup Int : And(a, b) \in Strs \cup Int
PROOF
  BY DEF And, FREE, GARBLED

LEMMA FindType ==
  ASSUME NEW m, NEW s, NEW k
  PROVE  kved_key_index_find(m, s, k) \in 0 .. NumEntries
PROOF
  <1> DEFINE S == {n \in Slots : m[s].slot[n].k = k}
  <1>1. S \in SUBSET Nat /\ S \subseteq Slots
    BY DEF Slots
  <1>2. First(S) \in 0 .. NumEntries
    BY <1>1, FirstIsMember DEF Slots
  <1> QED
    BY <1>2 DEF kved_key_index_find

LEMMA ToDeleteType == ToDelete \in 0 .. NumEntries
PROOF
  <1> DEFINE S == {n \in Slots : /\ n >= i
                                 /\ \/ HalfWritten(main[ctrl.sector].slot[n])
                                    \/ DuplicatedAhead(ctrl.sector, n)}
  <1>1. S \in SUBSET Nat /\ S \subseteq Slots
    BY DEF Slots
  <1>2. First(S) \in 0 .. NumEntries
    BY <1>1, FirstIsMember DEF Slots
  <1> QED
    BY <1>2 DEF ToDelete

LEMMA CountType ==
  ASSUME NEW m, NEW s, NEW S
  PROVE  Count(m, s, S) \in Nat
PROOF
  <1> DEFINE T == {n \in Slots : m[s].slot[n].k \in S}
  <1>1. IsFiniteSet(Slots)
    BY FS_Interval DEF Slots
  <1>2. IsFiniteSet(T)
    BY <1>1, FS_Subset
  <1> QED
    BY <1>2, FS_CardinalityType DEF Count

LEMMA DecodeType ==
  ASSUME NEW words, NEW v
  PROVE  kved_value_string_decode(words, v) \subseteq Strs \cup Int
PROOF
  BY DEF kved_value_string_decode, Anything, GARBLED

LEMMA StatsUpdate ==
  ASSUME NEW c \in CtrlType, NEW s \in Sectors, NEW n \in Nat,
         NEW f \in Int, NEW d \in Int, NEW u \in Int
  PROVE  [c EXCEPT !.sector = s, !.first_free = n, !.free = f, !.deleted = d, !.used = u]
           \in CtrlType
PROOF
  BY DEF CtrlType

LEMMA StatsType ==
  ASSUME ctrl \in CtrlType, NEW m, NEW s \in Sectors
  PROVE  kved_sector_stats_read(m, s) \in CtrlType
PROOF
  <1>1. /\ kved_key_index_find(m, s, "free") \in Nat
        /\ Count(m, s, {"free"}) \in Int
        /\ Count(m, s, {"deleted"}) \in Int
        /\ NumEntries - Count(m, s, Markers) \in Int
    BY FindType, CountType
  <1> QED
    BY <1>1, StatsUpdate, Zenon DEF kved_sector_stats_read

LEMMA CtrlUpdates ==
  ASSUME NEW c \in CtrlType
  PROVE  /\ [c EXCEPT !.deleted = @ + 1, !.free = @ - 1] \in CtrlType
         /\ [c EXCEPT !.deleted = @ + 1, !.used = @ - 1] \in CtrlType
         /\ [c EXCEPT !.free = @ - 1, !.used = @ + 1, !.first_free = @ + 1] \in CtrlType
         /\ [c EXCEPT !.next_idx = @ + 1, !.next_off = @ + SectorLen + 1] \in CtrlType
PROOF
  <1>1. /\ c.deleted + 1 \in Int /\ c.free - 1 \in Int /\ c.used - 1 \in Int /\ c.used + 1 \in Int
        /\ c.first_free + 1 \in Nat /\ c.next_idx + 1 \in Nat
        /\ c.next_off + SectorLen + 1 \in Nat
    BY DEF CtrlType, SectorLen
  <1>2. \A x, y \in Int : [c EXCEPT !.deleted = x, !.free = y] \in CtrlType
    BY DEF CtrlType
  <1>3. \A x, y \in Int : [c EXCEPT !.deleted = x, !.used = y] \in CtrlType
    BY DEF CtrlType
  <1>4. \A x, y \in Int : \A z \in Nat :
          [c EXCEPT !.free = x, !.used = y, !.first_free = z] \in CtrlType
    BY DEF CtrlType
  <1>5. \A x, y \in Nat : [c EXCEPT !.next_idx = x, !.next_off = y] \in CtrlType
    BY DEF CtrlType
  <1> QED
    BY <1>1, <1>2, <1>3, <1>4, <1>5, Zenon

LEMMA SlotUpdate ==
  ASSUME NEW m \in MainType, NEW s \in Sectors, NEW n, NEW e, n \in Slots => e \in Entries
  PROVE  [m EXCEPT ![s].slot[n] = e] \in MainType
PROOF
  BY DEF MainType

LEMMA DeleteSlotType ==
  ASSUME NEW m \in MainType, NEW s \in Sectors, NEW n \in Nat
  PROVE  DeleteSlot(m, s, n) \in MainType
PROOF
  <1>1. \A e \in Entries : [e EXCEPT !.k = "deleted", !.t = "none"] \in Entries
    BY DEF Entries, Markers
  <1>2. n \in Slots => m[s].slot[n] \in Entries
    BY DEF MainType
  <1> QED
    BY <1>1, <1>2 DEF DeleteSlot, MainType

LEMMA ProgramType ==
  ASSUME NEW words \in [StrWords -> Strs \cup Int], NEW w, NEW x \in Strs \cup Int
  PROVE  Program(words, w, x) \in [StrWords -> Strs \cup Int]
PROOF
  BY AndWordType DEF Program

(* The variables other than the flash and ctrl. *)
ControlOK ==
  /\ lock \in BOOLEAN /\ call \in CallType /\ (call.type # "str" => call.val \in Int)
  /\ pc \in Labels /\ ret \in Results \cup {"none"}
  /\ old \in 0 .. NumEntries /\ i \in 1 .. NumEntries + 1 /\ nxt \in Nat /\ sidx \in Nat

LEMMA ReturnType ==
  ASSUME NEW r \in Results, Return(r)
  PROVE  ControlOK'
PROOF
  <1>1. lock' \in BOOLEAN
    BY DEF Return
  <1>2. call' \in CallType /\ call'.val \in Int
    BY DEF Return, NoCall, FREE, CallType
  <1> QED
    BY <1>1, <1>2 DEF ControlOK, Return, Labels

LEMMA PowerOffType ==
  ASSUME PowerOff
  PROVE  ControlOK' /\ ctrl' \in CtrlType
PROOF
  <1>1. lock' \in BOOLEAN
    BY DEF PowerOff
  <1>2. call' \in CallType /\ call'.val \in Int
    BY DEF PowerOff, NoCall, FREE, CallType
  <1>3. ctrl' \in CtrlType
    BY DEF PowerOff, ZeroCtrl, CtrlType, Sectors
  <1> QED
    BY <1>1, <1>2, <1>3 DEF ControlOK, PowerOff, Labels

-----------------------------------------------------------------------------
(* Every step keeps the types: the steps of kved_init and of the checks.    *)
LEMMA TypeInitSteps ==
  ASSUME IInv,
         \/ kved_sector_consistency_check \/ InitIndexSector \/ InitFormatIndex
         \/ InitStringSector \/ InitFormatString \/ kved_string_consistency_check
         \/ kved_data_consistency_check \/ ConsistencyCheckDone
  PROVE  main' \in MainType /\ str' \in StrType /\ ctrl' \in CtrlType /\ ControlOK'
PROOF
  <1>a. main \in MainType /\ str \in StrType /\ ctrl \in CtrlType /\ ControlOK
    BY DEF IInv, TypeOK, ControlOK
  <1> USE <1>a DEF Goto, flash, locals
  <1>1. CASE kved_sector_consistency_check
    <2>1. main' \in MainType
      BY <1>1 DEF kved_sector_consistency_check, MainType
    <2>2. ctrl' \in CtrlType
      BY <1>1 DEF kved_sector_consistency_check, ZeroCtrl, CtrlType, Sectors
    <2>3. call' \in CallType /\ call'.val \in Int
      BY <1>1 DEF kved_sector_consistency_check, NoCall, CallType, FREE
    <2> QED
      BY <1>1, <2>1, <2>2, <2>3
      DEF kved_sector_consistency_check, ControlOK, Labels, InitLabels
  <1>2. CASE InitIndexSector
    <2>1. ctrl' \in CtrlType
      BY <1>2, StatsType DEF InitIndexSector, Sectors
    <2> QED
      BY <1>2, <2>1 DEF InitIndexSector, ControlOK, Labels, InitLabels
  <1>3. CASE InitFormatIndex
    <2>1. ErasedMain \in [sig : {"free", "ok", "zero"}, cnt : 0 .. CntMax,
                          slot : [Slots -> Entries]]
      BY DEF ErasedMain, FreeSlot, FREE, Entries, Markers
    <2>2. main' \in MainType
      BY <1>3, <2>1 DEF InitFormatIndex, MainType, Sign
    <2>3. ctrl' \in CtrlType
      BY <1>3, StatsType DEF InitFormatIndex, Sectors
    <2> QED
      BY <1>3, <2>2, <2>3 DEF InitFormatIndex, ControlOK, Labels, InitLabels
  <1>4. CASE InitStringSector
    <2>1. ctrl' \in CtrlType
      BY <1>4 DEF InitStringSector, CtrlType, Sectors
    <2> QED
      BY <1>4, <2>1 DEF InitStringSector, ControlOK, Labels, InitLabels
  <1>5. CASE InitFormatString
    <2>1. ErasedStr \in [StrWords -> Strs \cup Int]
      BY DEF ErasedStr, FREE
    <2>2. \A w, words : /\ words \in [StrWords -> Strs \cup Int]
                        => /\ Program(words, w, START) \in [StrWords -> Strs \cup Int]
                           /\ Program(words, w, END) \in [StrWords -> Strs \cup Int]
      BY ProgramType DEF START, END
    <2>3. str' \in StrType
      BY <1>5, <2>1, <2>2 DEF InitFormatString, StrType, Sectors
    <2>4. ctrl' \in CtrlType
      BY <1>5 DEF InitFormatString, CtrlType, Sectors
    <2> QED
      BY <1>5, <2>3, <2>4 DEF InitFormatString, ControlOK, Labels, InitLabels
  <1>6. CASE kved_string_consistency_check
    <2> DEFINE free == {n \in 0 .. NumEntries - 1 :
                          str[ctrl.str_sector][kved_string_entry_to_header(n)] = FREE}
    <2>1. First(free) \in Nat
      BY FirstIsMember
    <2>2. [ctrl EXCEPT !.next_idx = First(free)] \in CtrlType
      BY <2>1 DEF CtrlType
    <2>3. ZeroCtrl \in CtrlType
      BY DEF ZeroCtrl, CtrlType, Sectors
    <2>4. CASE StrSigned(ctrl.str_sector)
      <3>1. ctrl' = IF free = {} THEN ctrl ELSE [ctrl EXCEPT !.next_idx = First(free)]
        BY <1>6, <2>4 DEF kved_string_consistency_check
      <3>2. ctrl' \in CtrlType
        BY <2>2, <3>1
      <3>3. ControlOK' /\ UNCHANGED <<main, str>>
        BY <1>6, <2>4 DEF kved_string_consistency_check, ControlOK, Labels
      <3> QED
        BY <3>2, <3>3
    <2>5. CASE ~StrSigned(ctrl.str_sector) /\ call.op = "init"
      BY <1>6, <2>3, <2>5 DEF kved_string_consistency_check, ControlOK, Labels
    <2>6. CASE ~StrSigned(ctrl.str_sector) /\ call.op # "init"
      <3>1. Return("KVED_CORRUPT_TABLE") /\ UNCHANGED <<main, str, ctrl>>
        BY <1>6, <2>6 DEF kved_string_consistency_check
      <3> QED
        BY <3>1, ReturnType DEF Results
    <2> QED
      BY <2>4, <2>5, <2>6
  <1>7. CASE kved_data_consistency_check
    <2>1. ToDelete \in Slots
      BY <1>7, ToDeleteType DEF kved_data_consistency_check, Slots
    <2>2. ctrl.sector \in Sectors
      BY DEF CtrlType
    <2>3. main' \in MainType
      BY <1>7, <2>1, <2>2, DeleteSlotType DEF kved_data_consistency_check, Slots
    <2>4. ctrl' \in CtrlType
      BY <1>7, CtrlUpdates DEF kved_data_consistency_check
    <2> QED
      BY <1>7, <2>1, <2>3, <2>4 DEF kved_data_consistency_check, ControlOK, Slots
  <1>8. CASE ConsistencyCheckDone
    <2>1. CASE call.op = "write" /\ old = 0
      BY <1>8, <2>1 DEF ConsistencyCheckDone, AppendFrom, ControlOK, Labels, WriteLabels
    <2>2. CASE ~(call.op = "write" /\ old = 0)
      <3>1. Return("KVED_OK") /\ UNCHANGED <<main, str, ctrl>>
        BY <1>8, <2>2 DEF ConsistencyCheckDone
      <3> QED
        BY <3>1, ReturnType DEF Results
    <2> QED
      BY <2>1, <2>2
  <1> QED
    BY <1>1, <1>2, <1>3, <1>4, <1>5, <1>6, <1>7, <1>8

(* ... the steps of the calls ...                                          *)
LEMMA TypeCallSteps ==
  ASSUME IInv,
         \/ Client \/ WriteRejected \/ WriteUnchanged \/ WriteFull \/ kved_dump \/ WriteSwitch
         \/ WriteAppend \/ WriteStringIndex \/ WriteStringData \/ WriteValue \/ WriteKey
         \/ WriteDeleteOld \/ kved_internal_data_delete
  PROVE  main' \in MainType /\ str' \in StrType /\ ctrl' \in CtrlType /\ ControlOK'
PROOF
  <1>a. main \in MainType /\ str \in StrType /\ ctrl \in CtrlType /\ ControlOK
    BY DEF IInv, TypeOK, ControlOK
  <1>b. ctrl.sector \in Sectors /\ ctrl.str_sector \in Sectors
    BY <1>a DEF CtrlType
  <1> USE <1>a DEF Goto, flash, locals
  <1>1. ASSUME NEW op \in {"write", "delete", "compact"}, NEW k \in Keys \cup {BadKey, NoKey},
               NEW t \in Types \cup {"none"}, NEW v \in Strs \cup Int, t # "str" => v \in Int,
               NEW l \in Labels, Enter(op, k, t, v, l)
        PROVE  main' \in MainType /\ str' \in StrType /\ ctrl' \in CtrlType /\ ControlOK'
    <2>1. lock' \in BOOLEAN
      BY <1>1, ConfigAssumption DEF Enter
    <2>2. call' \in CallType /\ (call'.type # "str" => call'.val \in Int)
      BY <1>1 DEF Enter, CallType
    <2> QED
      BY <1>1, <2>1, <2>2 DEF Enter, ControlOK
  <1>2. CASE kved_data_write
    <2>2. \A v \in Nums : v \in Int
      BY NumsAssumption DEF FREE
    <2>1. \A t \in Types : \A v \in Values(t) : v \in Strs \cup Int /\ (t # "str" => v \in Int)
      BY <2>2 DEF Values
    <2>3. \A k \in Keys : KeyTypes[k] \subseteq Types
      BY KeyTypesAssumption
    <2>4. "write" \in Labels /\ "num" \in Types
      BY DEF Labels, WriteLabels, Types
    <2>5. CASE \E k \in Keys : \E t \in KeyTypes[k] : \E v \in Values(t) :
                 Enter("write", k, t, v, "write")
      BY <1>1, <2>1, <2>3, <2>4, <2>5
    <2>6. CASE \E v \in Nums : Enter("write", BadKey, "num", v, "write")
      BY <1>1, <2>2, <2>4, <2>6
    <2> QED
      BY <1>2, <2>5, <2>6 DEF kved_data_write
  <1>3. CASE kved_data_delete \/ kved_compact_database
    <2>1. "delete" \in Labels /\ "sw_erase" \in Labels /\ FREE \in Int
      BY DEF Labels, SwitchLabels, FREE
    <2>2. CASE kved_data_delete
      BY <1>1, <2>1, <2>2 DEF kved_data_delete
    <2>3. CASE kved_compact_database
      BY <1>1, <2>1, <2>3 DEF kved_compact_database
    <2> QED
      BY <1>3, <2>2, <2>3
  <1>4. CASE kved_data_read
    <2> DEFINE found(k) == kved_key_index_find(main, ctrl.sector, k)
    <2>1. PICK k \in Keys \cup {BadKey} :
            IF k = BadKey \/ found(k) = 0
              THEN /\ ret' = "KVED_INVALID_KEY"
                   /\ call' = [op |-> "read", key |-> k, type |-> "none", val |-> FREE]
              ELSE /\ ret' = "KVED_OK"
                   /\ \E d \in Decoded(main[ctrl.sector].slot[found(k)], str[ctrl.str_sector]) :
                        call' = [op |-> "read", key |-> k, type |-> d.type, val |-> d.val]
      BY <1>4 DEF kved_data_read
    <2>2. call' \in CallType /\ (call'.type # "str" => call'.val \in Int) /\ ret' \in Results
      <3>1. CASE k = BadKey \/ found(k) = 0
        BY <2>1, <3>1 DEF CallType, Results, FREE
      <3>2. CASE ~(k = BadKey \/ found(k) = 0)
        <4> DEFINE e == main[ctrl.sector].slot[found(k)]
        <4>1. found(k) \in Slots
          BY <3>2, FindType DEF Slots
        <4>2. e \in Entries
          BY <1>b, <4>1 DEF MainType
        <4>3. PICK d \in Decoded(e, str[ctrl.str_sector]) :
                call' = [op |-> "read", key |-> k, type |-> d.type, val |-> d.val]
          BY <2>1, <3>2
        <4>4. d.type = e.t /\ d.val \in Strs \cup Int /\ (e.t # "str" => d.val \in Int)
          BY <4>2, <4>3, DecodeType DEF Decoded, Entries
        <4> QED
          BY <2>1, <3>2, <4>2, <4>3, <4>4 DEF CallType, Results, Entries
      <3> QED
        BY <3>1, <3>2
    <2> QED
      BY <1>4, <2>2 DEF kved_data_read, ControlOK
  <1>5. CASE WriteRejected \/ WriteUnchanged \/ kved_dump
    <2>1. /\ UNCHANGED <<main, str, ctrl>>
          /\ \E r \in Results : Return(r)
      BY <1>5 DEF WriteRejected, WriteUnchanged, kved_dump, Results
    <2> QED
      BY <2>1, ReturnType
  <1>6. CASE WriteFull
    BY <1>6 DEF WriteFull, ControlOK, Labels, WriteLabels
  <1>7. CASE WriteSwitch \/ WriteAppend
    <2>1. Found \in 0 .. NumEntries
      BY FindType DEF Found
    <2> QED
      BY <1>7, <2>1
      DEF WriteSwitch, WriteAppend, AppendFrom, ControlOK, Labels, WriteLabels, SwitchLabels
  <1>8. CASE WriteStringIndex
    <2>1. Ptr(ctrl.next_off) \in Int
      BY DEF Ptr, CtrlType
    <2>2. str' \in StrType
      BY <1>8, <2>1, ProgramType DEF WriteStringIndex, StrType
    <2> QED
      BY <1>8, <2>2 DEF WriteStringIndex, ControlOK, Labels, WriteLabels
  <1>9. CASE WriteStringData
    <2>1. call.val \in Strs \cup Int
      BY DEF ControlOK, CallType
    <2>2. str' \in StrType
      BY <1>9, <2>1, ProgramType DEF WriteStringData, StrType
    <2>3. ctrl' \in CtrlType
      BY <1>9, CtrlUpdates DEF WriteStringData
    <2> QED
      BY <1>9, <2>2, <2>3 DEF WriteStringData, ControlOK, Labels, WriteLabels
  <1>10. CASE WriteValue
    <2>1. EncodedValue \in Int
      BY DEF EncodedValue, ControlOK, CtrlType
    <2>2. \A e \in Entries : ProgramValue(e, EncodedValue) \in Entries
      BY <2>1, AndType DEF ProgramValue, Entries
    <2> DEFINE e == main[ctrl.sector].slot[ctrl.first_free]
    <2>4. main' = [main EXCEPT ![ctrl.sector].slot[ctrl.first_free] =
                     ProgramValue(e, EncodedValue)]
      BY <1>10 DEF WriteValue
    <2>5. ctrl.first_free \in Slots => e \in Entries
      BY <1>b DEF MainType
    <2>3. main' \in MainType
      BY <1>b, <2>2, <2>4, <2>5, SlotUpdate
    <2> QED
      BY <1>10, <2>3 DEF WriteValue, ControlOK, Labels, WriteLabels
  <1>11. CASE WriteKey
    <2>1. call.key \in Keys /\ call.type \in Types \cup {"none"}
      BY <1>11 DEF WriteKey, IInv, CallInv, Appending, ControlOK, CallType
    <2>2. \A e \in Entries : ProgramKey(e, call.key, call.type) \in Entries
      BY <2>1 DEF ProgramKey, Entries, Markers
    <2> DEFINE e == main[ctrl.sector].slot[ctrl.first_free]
    <2>7. main' = [main EXCEPT ![ctrl.sector].slot[ctrl.first_free] =
                     ProgramKey(e, call.key, call.type)]
      BY <1>11 DEF WriteKey
    <2>8. ctrl.first_free \in Slots => e \in Entries
      BY <1>b DEF MainType
    <2>3. main' \in MainType
      BY <1>b, <2>2, <2>7, <2>8, SlotUpdate
    <2>4. ctrl' \in CtrlType
      BY <1>11, CtrlUpdates DEF WriteKey
    <2>5. CASE old = 0
      BY <1>11, <2>3, <2>4, <2>5, ReturnType DEF WriteKey, Results
    <2>6. CASE old # 0
      BY <1>11, <2>3, <2>4, <2>6 DEF WriteKey, ControlOK, Labels, WriteLabels
    <2> QED
      BY <2>5, <2>6
  <1>12. CASE WriteDeleteOld
    <2>1. old \in Nat
      BY DEF ControlOK
    <2>2. main' \in MainType
      BY <1>b, <1>12, <2>1, DeleteSlotType DEF WriteDeleteOld
    <2>3. ctrl' \in CtrlType
      BY <1>12, CtrlUpdates DEF WriteDeleteOld
    <2> QED
      BY <1>12, <2>2, <2>3, ReturnType DEF WriteDeleteOld, Results
  <1>13. CASE kved_internal_data_delete
    <2>1. Found \in Nat
      BY FindType DEF Found
    <2>2. main' \in MainType
      BY <1>b, <1>13, <2>1, DeleteSlotType DEF kved_internal_data_delete
    <2>3. ctrl' \in CtrlType
      BY <1>13, CtrlUpdates DEF kved_internal_data_delete
    <2> QED
      BY <1>13, <2>2, <2>3, ReturnType DEF kved_internal_data_delete, Results
  <1> QED
    BY <1>2, <1>3, <1>4, <1>5, <1>6, <1>7, <1>8, <1>9, <1>10, <1>11, <1>12, <1>13 DEF Client

(* ... and the steps of kved_sector_switch.                                *)
LEMMA TypeSwitchSteps ==
  ASSUME IInv,
         \/ SwitchErase \/ SwitchCopy \/ SwitchAdopt \/ SwitchSign \/ SwitchSignString
         \/ SwitchInvalidate
  PROVE  main' \in MainType /\ str' \in StrType /\ ctrl' \in CtrlType /\ ControlOK'
PROOF
  <1>a. main \in MainType /\ str \in StrType /\ ctrl \in CtrlType /\ ControlOK
    BY DEF IInv, TypeOK, ControlOK
  <1>b. /\ ctrl.sector \in Sectors /\ ctrl.str_sector \in Sectors
        /\ Other(ctrl.sector) \in Sectors /\ Other(ctrl.str_sector) \in Sectors
    BY <1>a DEF CtrlType, Other, Sectors
  <1> USE <1>a, <1>b DEF Goto, flash, locals
  <1>1. CASE SwitchErase
    <2>1. ErasedMain \in [sig : {"free", "ok", "zero"}, cnt : 0 .. CntMax,
                          slot : [Slots -> Entries]]
      BY DEF ErasedMain, FreeSlot, FREE, Entries, Markers
    <2>2. ErasedStr \in [StrWords -> Strs \cup Int]
      BY DEF ErasedStr, FREE
    <2>3. \/ main' = [main EXCEPT ![Other(ctrl.sector)] = ErasedMain] /\ UNCHANGED str
          \/ str' = [str EXCEPT ![Other(ctrl.str_sector)] = ErasedStr] /\ UNCHANGED main
      BY <1>1 DEF SwitchErase
    <2>4. main' \in MainType
      BY <2>1, <2>3 DEF MainType
    <2>5. str' \in StrType
      BY <2>2, <2>3 DEF StrType
    <2> QED
      BY <1>1, <2>4, <2>5 DEF SwitchErase, ControlOK, Labels, SwitchLabels
  <1>2. CASE SwitchCopy
    <2> DEFINE e == main[ctrl.sector].slot[i]
               offset == sidx * (SectorLen + 1)
    <2>1. e \in Entries /\ offset \in Nat /\ sidx \in Nat /\ nxt \in Nat /\ i + 1 \in 1 .. NumEntries + 1
      <3>1. i \in Slots
        BY <1>2 DEF SwitchCopy
      <3>2. sidx \in Nat /\ nxt \in Nat /\ i + 1 \in 1 .. NumEntries + 1
        BY <3>1 DEF ControlOK, Slots
      <3>3. offset \in Nat
        BY <3>2 DEF SectorLen
      <3>4. e \in Entries
        BY <3>1 DEF MainType
      <3> QED BY <3>2, <3>3, <3>4
    <2>2. CopiedTexts(e) \subseteq Strs \cup Int
      BY DecodeType DEF CopiedTexts, GARBLED, ControlOK, CallType
    <2>3. CopiedNumber(e) \in Int /\ CopiedIndex(e) \in Int
      BY <2>1 DEF CopiedNumber, CopiedIndex, GARBLED, ControlOK, Entries
    <2>4. \A v \in Int : [k |-> e.k, t |-> e.t, v |-> v] \in Entries
      BY <2>1 DEF Entries
    <2>5. ControlOK' /\ UNCHANGED ctrl
      BY <1>2, <2>1 DEF SwitchCopy, ControlOK
    <2>6. CASE ~kved_is_valid_key(e.k)
      BY <1>2, <2>5, <2>6 DEF SwitchCopy
    <2>7. CASE kved_is_valid_key(e.k) /\ e.t = "str"
      <3>1. main' = [main EXCEPT ![Other(ctrl.sector)].slot[nxt] =
                       [k |-> e.k, t |-> e.t, v |-> CopiedIndex(e)]]
        BY <1>2, <2>7 DEF SwitchCopy
      <3>2. main' \in MainType
        BY <2>3, <2>4, <3>1 DEF MainType
      <3>3. PICK text \in CopiedTexts(e) :
              str' = [str EXCEPT ![Other(ctrl.str_sector)] =
                        Program(Program(@, kved_string_entry_to_start_sector(offset), text),
                                kved_string_entry_to_header(sidx), Ptr(offset))]
        BY <1>2, <2>7 DEF SwitchCopy
      <3>4. text \in Strs \cup Int /\ Ptr(offset) \in Strs \cup Int
        BY <2>1, <2>2 DEF Ptr
      <3>5. str' \in StrType
        BY <3>3, <3>4, ProgramType DEF StrType
      <3> QED
        BY <2>5, <3>2, <3>5
    <2>8. CASE kved_is_valid_key(e.k) /\ e.t # "str"
      <3>1. /\ main' = [main EXCEPT ![Other(ctrl.sector)].slot[nxt] =
                          [k |-> e.k, t |-> e.t, v |-> CopiedNumber(e)]]
            /\ UNCHANGED str
        BY <1>2, <2>8 DEF SwitchCopy
      <3>2. main' \in MainType
        BY <2>3, <2>4, <3>1 DEF MainType
      <3> QED
        BY <2>5, <3>1, <3>2
    <2> QED
      BY <2>6, <2>7, <2>8
  <1>3. CASE SwitchAdopt
    <2>1. Signed(ctrl.sector) /\ main[ctrl.sector].cnt < CntMax
      BY <1>3 DEF SwitchAdopt, IInv, SectorInv, Selecting, Formatting
    <2>2. NextCnt(main[ctrl.sector].cnt) \in 0 .. CntMax
      BY <2>1 DEF NextCnt, MainType
    <2>3. main' \in MainType
      BY <1>3, <2>2 DEF SwitchAdopt, MainType
    <2>4. nxt - 1 \in Int /\ NumEntries - (nxt - 1) \in Int /\ nxt \in Nat /\ sidx \in Nat
          /\ sidx * (SectorLen + 1) \in Nat
      BY DEF ControlOK, SectorLen
    <2>5. ctrl' \in CtrlType
      BY <1>3, <2>4 DEF SwitchAdopt, CtrlType
    <2> QED
      BY <1>3, <2>3, <2>5 DEF SwitchAdopt, ControlOK, Labels, SwitchLabels
  <1>4. CASE SwitchSign
    <2>1. main' \in MainType
      BY <1>4 DEF SwitchSign, Sign, MainType
    <2> QED
      BY <1>4, <2>1 DEF SwitchSign, ControlOK, Labels, SwitchLabels
  <1>5. CASE SwitchSignString
    <2>1. START \in Strs \cup Int /\ END \in Strs \cup Int
      BY DEF START, END
    <2>2. str' \in StrType
      BY <1>5, <2>1, ProgramType DEF SwitchSignString, StrType
    <2> QED
      BY <1>5, <2>2 DEF SwitchSignString, ControlOK, Labels, SwitchLabels
  <1>6. CASE SwitchInvalidate
    <2>1. main' \in MainType
      BY <1>6 DEF SwitchInvalidate, Unsign, MainType
    <2> QED
      BY <1>6, <2>1 DEF SwitchInvalidate, ControlOK, Labels
  <1> QED
    BY <1>1, <1>2, <1>3, <1>4, <1>5, <1>6

LEMMA TypeStep == IInv /\ [Next]_vars => TypeOK'
PROOF
  <1> SUFFICES ASSUME IInv, [Next]_vars PROVE TypeOK'
    OBVIOUS
  <1>1. SUFFICES main' \in MainType /\ str' \in StrType /\ ctrl' \in CtrlType /\ ControlOK'
    BY DEF TypeOK, ControlOK
  <1>2. main \in MainType /\ str \in StrType /\ ctrl \in CtrlType /\ ControlOK
    BY DEF IInv, TypeOK, ControlOK
  <1>3. CASE kved_deinit \/ PowerCut
    BY <1>2, <1>3, PowerOffType DEF kved_deinit, PowerCut, PowerOff, flash
  <1>4. CASE UNCHANGED vars
    BY <1>2, <1>4 DEF vars, ControlOK
  <1> QED
    BY <1>3, <1>4, TypeInitSteps, TypeCallSteps, TypeSwitchSteps DEF Next, Step

-----------------------------------------------------------------------------
(* CallInv is kept: only a client's call sets call, and a write goes beyond *)
(* the control point "write" with a valid key only.                         *)
LEMMA CallStep == IInv /\ [Next]_vars => CallInv'
PROOF
  <1> SUFFICES ASSUME IInv, [Next]_vars PROVE CallInv'
    OBVIOUS
  <1> USE DEF CallInv, Appending, InitLabels, SwitchLabels, Goto, locals
  <1>a. CallInv /\ call \in CallType
    BY DEF IInv, TypeOK
  <1>b. pc = "write" /\ kved_is_valid_key(call.key) => call.key \in Keys
    BY <1>a DEF kved_is_valid_key
  <1>c. ASSUME NEW r, Return(r) PROVE CallInv'
    BY <1>c DEF Return, NoCall
  <1>1. CASE kved_sector_consistency_check
    BY <1>1 DEF kved_sector_consistency_check, NoCall
  <1>2. CASE InitIndexSector \/ InitFormatIndex \/ InitStringSector \/ InitFormatString
    BY <1>a, <1>2 DEF InitIndexSector, InitFormatIndex, InitStringSector, InitFormatString
  <1>3. CASE kved_string_consistency_check
    <2>1. CASE StrSigned(ctrl.str_sector)
      BY <1>a, <1>3, <2>1 DEF kved_string_consistency_check
    <2>2. CASE ~StrSigned(ctrl.str_sector)
      BY <1>a, <1>c, <1>3, <2>2 DEF kved_string_consistency_check
    <2> QED
      BY <2>1, <2>2
  <1>4. CASE kved_data_consistency_check
    BY <1>a, <1>4 DEF kved_data_consistency_check
  <1>5. CASE ConsistencyCheckDone
    BY <1>a, <1>c, <1>5 DEF ConsistencyCheckDone, AppendFrom
  <1>6. CASE kved_data_write
    BY <1>6 DEF kved_data_write, Enter
  <1>7. CASE kved_data_delete \/ kved_compact_database
    BY <1>7 DEF kved_data_delete, kved_compact_database, Enter
  <1>8. CASE kved_data_read
    BY <1>8 DEF kved_data_read
  <1>9. CASE WriteRejected \/ WriteUnchanged \/ kved_dump \/ WriteDeleteOld
             \/ kved_internal_data_delete
    BY <1>c, <1>9 DEF WriteRejected, WriteUnchanged, kved_dump, WriteDeleteOld,
                      kved_internal_data_delete
  <1>10. CASE WriteFull \/ WriteSwitch \/ WriteAppend
    BY <1>a, <1>b, <1>10 DEF WriteFull, WriteSwitch, WriteAppend, Writing, AppendFrom
  <1>11. CASE WriteStringIndex \/ WriteStringData \/ WriteValue
    BY <1>a, <1>11 DEF WriteStringIndex, WriteStringData, WriteValue
  <1>12. CASE WriteKey
    BY <1>a, <1>c, <1>12 DEF WriteKey
  <1>13. CASE SwitchErase \/ SwitchCopy \/ SwitchAdopt \/ SwitchSign \/ SwitchSignString
              \/ SwitchInvalidate
    BY <1>a, <1>13 DEF SwitchErase, SwitchCopy, SwitchAdopt, SwitchSign, SwitchSignString,
                       SwitchInvalidate
  <1>14. CASE kved_deinit \/ PowerCut
    BY <1>14 DEF kved_deinit, PowerCut, PowerOff, NoCall
  <1>15. CASE UNCHANGED vars
    BY <1>a, <1>15 DEF vars
  <1> QED
    BY <1>1, <1>2, <1>3, <1>4, <1>5, <1>6, <1>7, <1>8, <1>9, <1>10, <1>11, <1>12, <1>13,
       <1>14, <1>15 DEF Next, Step, Client

-----------------------------------------------------------------------------
(* SectorInv is kept.  Most steps leave signatures and counters alone ...   *)
Heads == [s \in Sectors |-> <<main[s].sig, main[s].cnt>>]
Plain == Labels \ (Selecting \cup SwitchLabels)

LEMMA EntryKeepsHeads ==
  ASSUME NEW m \in MainType, NEW s \in Sectors, NEW n, NEW x,
         main' = [m EXCEPT ![s].slot[n] = x], main = m
  PROVE  Heads' = Heads
PROOF
  BY DEF Heads, MainType

LEMMA PlainStep ==
  ASSUME IInv, Heads' = Heads, pc \in Plain,
         \/ pc' \in Plain \cup {"sw_erase"} /\ ctrl'.sector = ctrl.sector
         \/ pc' = "off"
  PROVE  SectorInv'
PROOF
  <1>1. \A s \in Sectors : main'[s].sig = main[s].sig /\ main'[s].cnt = main[s].cnt
    BY DEF Heads
  <1>2. SectorInv /\ ctrl \in CtrlType
    BY DEF IInv, TypeOK
  <1>3. Other(ctrl.sector) \in Sectors /\ ctrl.sector \in Sectors
    BY <1>2 DEF CtrlType, Other, Sectors
  <1>4. pc \notin BothSigned \cup {"off"}
    BY DEF Plain, BothSigned, SwitchLabels, Selecting
  <1> QED
    BY <1>1, <1>2, <1>3, <1>4
    DEF SectorInv, Plain, Signed, Succeeds, Selecting, Formatting, BothSigned, SwitchLabels,
        Other, Sectors

(* ... kved_init selects the sector with the later counter ...             *)
LEMMA LosersOne ==
  ASSUME IInv, \A s \in Sectors : Signed(s)
  PROVE  \E s \in Sectors : Losers = {s}
PROOF
  <1>1. main \in MainType /\ SectorInv
    BY DEF IInv, TypeOK
  <1>2. \A s \in Sectors : main[s].cnt \in 0 .. CntMax - 1
    BY <1>1 DEF SectorInv, MainType
  <1> DEFINE cnt(s) == main[s].cnt
             rolled == {s \in Sectors : cnt(s) = CntMax - 1 /\ cnt(Other(s)) = 0}
             erased == {s \in Sectors : cnt(s) = CntMax}
  <1>3. erased = {}
    BY <1>2
  <1>4. rolled # {} => \E s \in Sectors : rolled = {s}
    BY DEF Sectors, Other
  <1>5. Losers = IF rolled # {} THEN rolled
                 ELSE IF cnt("A") > cnt("B") THEN {"B"} ELSE {"A"}
    BY <1>3 DEF Losers, Signed
  <1> HIDE DEF rolled
  <1> QED
    BY <1>4, <1>5 DEF Sectors

LEMMA SectorInitSteps ==
  ASSUME IInv, kved_sector_consistency_check \/ InitIndexSector \/ InitFormatIndex
  PROVE  SectorInv'
PROOF
  <1>a. main \in MainType /\ SectorInv
    BY DEF IInv, TypeOK
  <1> USE DEF Signed, Sectors, Other, Selecting, Formatting, BothSigned, Goto
  <1>1. CASE kved_sector_consistency_check
    <2>1. \A s \in Sectors : /\ main'[s].cnt = main[s].cnt
                             /\ main'[s].sig = "ok" => s \notin Losers /\ main[s].sig = "ok"
      BY <1>a, <1>1 DEF kved_sector_consistency_check, MainType
    <2>2. ~(\A s \in Sectors : main'[s].sig = "ok")
      BY <2>1, LosersOne
    <2> QED
      BY <1>a, <1>1, <2>1, <2>2 DEF kved_sector_consistency_check, SectorInv
  <1>2. CASE InitIndexSector
    <2>1. UNCHANGED main /\ pc = "i_index"
      BY <1>2 DEF InitIndexSector, flash
    <2>2. CASE \E s \in Sectors : Signed(s)
      <3>1. pc' = "i_string" /\ ctrl' = kved_sector_stats_read(main, IF main["A"].sig = "ok" THEN "A" ELSE "B")
        BY <1>2, <2>2 DEF InitIndexSector
      <3>2. ctrl'.sector = IF main["A"].sig = "ok" THEN "A" ELSE "B"
        BY <3>1 DEF kved_sector_stats_read, IInv, TypeOK, CtrlType
      <3> QED
        BY <1>a, <2>1, <2>2, <3>1, <3>2 DEF SectorInv
    <2>3. CASE ~\E s \in Sectors : Signed(s)
      <3>1. pc' = "i_erase"
        BY <1>2, <2>3 DEF InitIndexSector
      <3> QED
        BY <1>a, <2>1, <2>3, <3>1 DEF SectorInv
    <2> QED
      BY <2>2, <2>3
  <1>3. CASE InitFormatIndex
    <2>1. CASE pc = "i_erase"
      <3>1. pc' = "i_cnt" /\ main' = [main EXCEPT !["A"] = ErasedMain]
        BY <1>3, <2>1 DEF InitFormatIndex
      <3> QED
        BY <1>a, <2>1, <3>1 DEF SectorInv, ErasedMain, MainType
    <2>2. CASE pc = "i_cnt"
      <3>1. pc' = "i_sig" /\ main' = [main EXCEPT !["A"].cnt = 0]
        BY <1>3, <2>2 DEF InitFormatIndex
      <3> QED
        BY <1>a, <2>2, <3>1 DEF SectorInv, MainType
    <2>3. CASE pc = "i_sig"
      <3>1. /\ pc' = "i_string" /\ main' = Sign(main, "A")
            /\ ctrl' = kved_sector_stats_read(main', "A")
        BY <1>3, <2>3 DEF InitFormatIndex
      <3>2. ctrl'.sector = "A"
        BY <3>1 DEF kved_sector_stats_read, IInv, TypeOK, CtrlType
      <3> QED
        BY <1>a, <2>3, <3>1, <3>2 DEF SectorInv, MainType, Sign
    <2> QED
      BY <1>3, <2>1, <2>2, <2>3 DEF InitFormatIndex
  <1> QED
    BY <1>1, <1>2, <1>3

(* ... and kved_sector_switch has a signed sector at every step.           *)
LEMMA SectorSwitchSteps ==
  ASSUME IInv, \/ SwitchErase \/ SwitchCopy \/ SwitchAdopt \/ SwitchSign \/ SwitchSignString
               \/ SwitchInvalidate
  PROVE  SectorInv'
PROOF
  <1>a. main \in MainType /\ SectorInv /\ ctrl.sector \in Sectors
    BY DEF IInv, TypeOK, CtrlType
  <1> USE <1>a DEF Signed, Sectors, Other, Selecting, Formatting, BothSigned, Goto
  <1>1. CASE SwitchErase
    <2>1. CASE pc = "sw_erase"
      <3>1. pc' = "sw_strerase" /\ main' = [main EXCEPT ![Other(ctrl.sector)] = ErasedMain]
            /\ UNCHANGED ctrl
        BY <1>1, <2>1 DEF SwitchErase
      <3> QED
        BY <2>1, <3>1 DEF SectorInv, ErasedMain, MainType
    <2>2. CASE pc = "sw_strerase"
      <3>1. pc' = "sw_copy" /\ UNCHANGED <<main, ctrl>>
        BY <1>1, <2>2 DEF SwitchErase
      <3> QED
        BY <2>2, <3>1 DEF SectorInv
    <2> QED
      BY <1>1, <2>1, <2>2 DEF SwitchErase
  <1>2. CASE SwitchCopy
    <2>1. UNCHANGED <<pc, ctrl>> /\ pc = "sw_copy"
      BY <1>2 DEF SwitchCopy
    <2>2. \A s \in Sectors : main'[s].sig = main[s].sig /\ main'[s].cnt = main[s].cnt
      <3>1. main' = main \/ \E x : main' = [main EXCEPT ![Other(ctrl.sector)].slot[nxt] = x]
        BY <1>2 DEF SwitchCopy, flash
      <3>2. ASSUME NEW x, main' = [main EXCEPT ![Other(ctrl.sector)].slot[nxt] = x]
            PROVE  Heads' = Heads
        BY <3>2, EntryKeepsHeads
      <3>3. Heads' = Heads
        BY <3>1, <3>2 DEF Heads
      <3> QED
        BY <3>3 DEF Heads
    <2> QED
      BY <2>1, <2>2 DEF SectorInv, Succeeds
  <1>3. CASE SwitchAdopt
    <2>1. /\ pc = "sw_copy" /\ pc' = "sw_sig" /\ ctrl'.sector = Other(ctrl.sector)
          /\ main' = [main EXCEPT ![Other(ctrl.sector)].cnt = NextCnt(main[ctrl.sector].cnt)]
      BY <1>3 DEF SwitchAdopt
    <2> QED
      BY <2>1 DEF SectorInv, Succeeds, MainType
  <1>4. CASE SwitchSign
    <2>1. /\ pc = "sw_sig" /\ pc' = "sw_strsig" /\ UNCHANGED ctrl
          /\ main' = Sign(main, ctrl.sector)
      BY <1>4 DEF SwitchSign
    <2>2. main[ctrl.sector].cnt < CntMax
      BY <2>1 DEF SectorInv, Succeeds, NextCnt, MainType
    <2> QED
      BY <2>1, <2>2 DEF SectorInv, Succeeds, MainType, Sign
  <1>5. CASE SwitchSignString
    BY <1>5 DEF SwitchSignString, SectorInv, Succeeds
  <1>6. CASE SwitchInvalidate
    <2>1. /\ pc = "sw_inval" /\ pc' = "check" /\ UNCHANGED ctrl
          /\ main' = Unsign(main, Other(ctrl.sector))
      BY <1>6 DEF SwitchInvalidate
    <2> QED
      BY <2>1 DEF SectorInv, MainType, Unsign
  <1> QED
    BY <1>1, <1>2, <1>3, <1>4, <1>5, <1>6

LEMMA SectorStep == IInv /\ [Next]_vars => SectorInv'
PROOF
  <1> SUFFICES ASSUME IInv, [Next]_vars PROVE SectorInv'
    OBVIOUS
  <1>a. main \in MainType /\ SectorInv /\ ctrl \in CtrlType /\ ctrl.sector \in Sectors
    BY DEF IInv, TypeOK, CtrlType
  <1>b. ASSUME NEW n, main' = DeleteSlot(main, ctrl.sector, n) PROVE Heads' = Heads
    BY <1>a, <1>b, EntryKeepsHeads DEF DeleteSlot
  <1>c. UNCHANGED main => Heads' = Heads
    BY DEF Heads
  <1>1. CASE InitStringSector \/ InitFormatString
    <2>1. /\ UNCHANGED main /\ ctrl'.sector = ctrl.sector
          /\ pc \in {"i_string", "i_strerase", "i_strsig", "i_strend"}
          /\ pc' \in {"check", "i_strerase", "i_strsig", "i_strend"}
      BY <1>a, <1>1 DEF InitStringSector, InitFormatString, flash, Goto, CtrlType
    <2> QED
      BY <1>c, <2>1, PlainStep
      DEF Plain, Labels, InitLabels, SwitchLabels, Selecting, Formatting
  <1>2. CASE kved_string_consistency_check \/ ConsistencyCheckDone
    <2>1. UNCHANGED main /\ pc \in {"check", "scan"}
      BY <1>2 DEF kved_string_consistency_check, ConsistencyCheckDone, flash
    <2>2. CASE kved_string_consistency_check
      <3>1. \/ pc' \in {"scan", "idle"} /\ ctrl'.sector = ctrl.sector
            \/ pc' = "off"
        BY <1>a, <2>2 DEF kved_string_consistency_check, Return, Goto, CtrlType
      <3> QED
        BY <1>c, <2>1, <3>1, PlainStep DEF Plain, Labels, SwitchLabels, Selecting, Formatting
    <2>3. CASE ConsistencyCheckDone
      <3>1. pc' \in {"w_stridx", "w_val", "idle"} /\ UNCHANGED ctrl
        BY <2>3 DEF ConsistencyCheckDone, Return, Goto, AppendFrom
      <3> QED
        BY <1>c, <2>1, <3>1, PlainStep
        DEF Plain, Labels, WriteLabels, SwitchLabels, Selecting, Formatting
    <2> QED
      BY <1>2, <2>2, <2>3
  <1>3. CASE kved_data_consistency_check
    <2>1. pc = "scan" /\ UNCHANGED pc /\ main' = DeleteSlot(main, ctrl.sector, ToDelete)
      BY <1>3 DEF kved_data_consistency_check
    <2>2. ctrl'.sector = ctrl.sector
      BY <1>a, <1>3 DEF kved_data_consistency_check, CtrlType
    <2> QED
      BY <1>b, <2>1, <2>2, PlainStep DEF Plain, Labels, SwitchLabels, Selecting, Formatting
  <1>4. CASE Client
    <2>1. /\ UNCHANGED <<main, ctrl>> /\ pc = "idle"
          /\ pc' \in {"idle", "write", "delete", "sw_erase"}
      BY <1>4 DEF Client, kved_data_write, kved_data_delete, kved_compact_database,
                  kved_data_read, Enter, Goto, flash
    <2> QED
      BY <1>c, <2>1, PlainStep DEF Plain, Labels, WriteLabels, SwitchLabels, Selecting, Formatting
  <1>5. CASE \/ WriteRejected \/ WriteUnchanged \/ WriteFull \/ kved_dump \/ WriteSwitch
             \/ WriteAppend \/ WriteStringIndex \/ WriteStringData
    <2>1. /\ UNCHANGED main
          /\ pc \in {"write", "full", "w_stridx", "w_strdata"}
          /\ pc' \in {"idle", "full", "sw_erase", "w_stridx", "w_strdata", "w_val"}
      BY <1>5 DEF WriteRejected, WriteUnchanged, WriteFull, kved_dump, WriteSwitch, WriteAppend,
                  WriteStringIndex, WriteStringData, Writing, Return, AppendFrom, Goto, flash
    <2>2. ctrl'.sector = ctrl.sector
      BY <1>a, <1>5 DEF WriteRejected, WriteUnchanged, WriteFull, kved_dump, WriteSwitch,
                        WriteAppend, WriteStringIndex, WriteStringData, CtrlType
    <2> QED
      BY <1>c, <2>1, <2>2, PlainStep
      DEF Plain, Labels, WriteLabels, SwitchLabels, Selecting, Formatting
  <1>6. CASE WriteValue \/ WriteKey
    <2>1. \E x : main' = [main EXCEPT ![ctrl.sector].slot[ctrl.first_free] = x]
      BY <1>6 DEF WriteValue, WriteKey
    <2>2. Heads' = Heads
      BY <1>a, <2>1, EntryKeepsHeads
    <2>3. pc \in {"w_val", "w_key"} /\ pc' \in {"w_key", "w_del", "idle"}
      BY <1>6 DEF WriteValue, WriteKey, Return, Goto
    <2>4. ctrl'.sector = ctrl.sector
      BY <1>a, <1>6 DEF WriteValue, WriteKey, CtrlType
    <2> QED
      BY <2>2, <2>3, <2>4, PlainStep
      DEF Plain, Labels, WriteLabels, SwitchLabels, Selecting, Formatting
  <1>7. CASE WriteDeleteOld \/ kved_internal_data_delete
    <2>1. (\E n : main' = DeleteSlot(main, ctrl.sector, n)) \/ UNCHANGED main
      BY <1>7 DEF WriteDeleteOld, kved_internal_data_delete
    <2>2. pc \in {"w_del", "delete"} /\ pc' = "idle"
      BY <1>7 DEF WriteDeleteOld, kved_internal_data_delete, Return
    <2>3. ctrl'.sector = ctrl.sector
      BY <1>a, <1>7 DEF WriteDeleteOld, kved_internal_data_delete, CtrlType
    <2>4. Heads' = Heads
      BY <1>b, <1>c, <2>1
    <2> QED
      BY <2>2, <2>3, <2>4, PlainStep
      DEF Plain, Labels, WriteLabels, SwitchLabels, Selecting, Formatting
  <1>8. CASE kved_deinit \/ PowerCut
    <2>1. UNCHANGED main /\ pc' = "off"
      BY <1>8 DEF kved_deinit, PowerCut, PowerOff, flash
    <2> QED
      BY <1>a, <2>1
      DEF SectorInv, Signed, Succeeds, Selecting, Formatting, BothSigned
  <1>9. CASE UNCHANGED vars
    BY <1>a, <1>9 DEF vars, SectorInv, Signed, Succeeds
  <1> QED
    BY <1>1, <1>2, <1>3, <1>4, <1>5, <1>6, <1>7, <1>8, <1>9, SectorInitSteps,
       SectorSwitchSteps DEF Next, Step

-----------------------------------------------------------------------------
(* IInv holds in every reachable state of Kved.                            *)
THEOREM InductiveInvariant == Spec => []IInv
PROOF
  <1>1. IInv /\ [Next]_vars => IInv'
    BY TypeStep, CallStep, SectorStep DEF IInv
  <1> QED
    BY InitIInv, <1>1, PTL DEF Spec

(* The state keeps its shape through every call, every recovery and every   *)
(* loss of power; a sector counter stays in the range of a flash word.      *)
THEOREM TypeCorrect == Spec => []TypeOK
PROOF
  BY InductiveInvariant, PTL DEF IInv

(* Of two signed sectors the original gives way. *)
LEMMA NewestSector == IInv => NewestWins
PROOF
  <1> SUFFICES ASSUME IInv, pc \in BothSigned PROVE Losers = {Other(ctrl.sector)}
    BY DEF NewestWins, BothSigned
  <1>1. main \in MainType /\ SectorInv /\ ctrl.sector \in Sectors
    BY DEF IInv, TypeOK, CtrlType
  <1>2. \A s \in Sectors : main[s].sig = "ok" /\ main[s].cnt \in 0 .. CntMax - 1
    BY <1>1 DEF SectorInv, MainType, Signed, Sectors, Other, BothSigned, Selecting, Formatting
  <1>3. main[ctrl.sector].cnt = NextCnt(main[Other(ctrl.sector)].cnt)
    BY <1>1 DEF SectorInv, Succeeds
  <1> QED
    BY <1>1, <1>2, <1>3 DEF Losers, Sectors, Other, NextCnt

(* While the copy and the original of a switch are both signed, the recovery *)
(* of kved_sector_consistency_check would drop the original and only it,     *)
(* whatever the range of the counter and wherever it rolls over.             *)
THEOREM NewestWinsCorrect == Spec => []NewestWins
PROOF
  BY InductiveInvariant, NewestSector, PTL

(* No step of a call, of kved_init or of a loss of power takes the flash    *)
(* from having a signed index sector to having none: the database is never  *)
(* formatted again once it exists.                                          *)
THEOREM SectorKeptCorrect == Spec => SectorKept
PROOF
  <1> DEFINE Kept == (\E s \in Sectors : Signed(s)) => (\E s \in Sectors : Signed(s)')
  <1>1. IInv /\ IInv' /\ [Next]_vars => [Kept]_vars
    <2> SUFFICES ASSUME IInv, IInv', [Next]_vars, \E s \in Sectors : Signed(s)
                 PROVE  \E s \in Sectors : Signed(s)'
      OBVIOUS
    <2>a. main \in MainType /\ SectorInv /\ SectorInv' /\ ctrl' \in CtrlType
      BY DEF IInv, TypeOK
    <2>1. CASE kved_sector_consistency_check
      <3>1. \E s \in Sectors : s \notin Losers /\ main[s].sig = "ok"
        <4>1. CASE \A s \in Sectors : Signed(s)
          BY <4>1, LosersOne DEF Signed, Sectors
        <4>2. CASE ~\A s \in Sectors : Signed(s)
          BY <4>2 DEF Signed, Losers
        <4> QED
          BY <4>1, <4>2
      <3>2. \A s \in Sectors : s \notin Losers => main'[s] = main[s]
        BY <2>1 DEF kved_sector_consistency_check
      <3> QED
        BY <3>1, <3>2 DEF Signed
    <2>2. CASE UNCHANGED main
      BY <2>2 DEF Signed
    <2>3. CASE InitFormatIndex
      BY <2>a, <2>3 DEF InitFormatIndex, SectorInv, Formatting
    <2>4. CASE pc' \notin Selecting
      BY <2>a, <2>4 DEF SectorInv, CtrlType, Other, Sectors
    <2>5. \/ kved_sector_consistency_check \/ InitFormatIndex
          \/ UNCHANGED main \/ pc' \notin Selecting
      <3> USE DEF Selecting, Formatting, flash, Goto, Return
      <3>1. CASE InitIndexSector \/ InitStringSector \/ InitFormatString
        BY <3>1 DEF InitIndexSector, InitStringSector, InitFormatString
      <3>2. CASE kved_string_consistency_check \/ ConsistencyCheckDone \/ Client
        BY <3>2 DEF kved_string_consistency_check, ConsistencyCheckDone, Client, Enter,
             kved_data_write, kved_data_delete, kved_compact_database, kved_data_read
      <3>3. CASE kved_data_consistency_check
        BY <3>3 DEF kved_data_consistency_check
      <3>4. CASE \/ WriteRejected \/ WriteUnchanged \/ WriteFull \/ kved_dump \/ WriteSwitch
                 \/ WriteAppend \/ WriteStringIndex \/ WriteStringData
        BY <3>4 DEF WriteRejected, WriteUnchanged, WriteFull, kved_dump, WriteSwitch,
             WriteAppend, WriteStringIndex, WriteStringData
      <3>5. CASE WriteValue \/ WriteKey \/ WriteDeleteOld \/ kved_internal_data_delete
        BY <3>5 DEF WriteValue, WriteKey, WriteDeleteOld, kved_internal_data_delete
      <3>6. CASE \/ SwitchErase \/ SwitchCopy \/ SwitchAdopt \/ SwitchSign
                 \/ SwitchSignString \/ SwitchInvalidate
        BY <3>6 DEF SwitchErase, SwitchCopy, SwitchAdopt, SwitchSign, SwitchSignString,
             SwitchInvalidate
      <3>7. CASE kved_deinit \/ PowerCut \/ UNCHANGED vars
        BY <3>7 DEF kved_deinit, PowerCut, PowerOff, vars
      <3> QED
        BY <3>1, <3>2, <3>3, <3>4, <3>5, <3>6, <3>7 DEF Next, Step
    <2> QED
      BY <2>1, <2>2, <2>3, <2>4, <2>5
  <1> QED
    BY InductiveInvariant, <1>1, PTL DEF Spec, SectorKept

-----------------------------------------------------------------------------
(* Tables of entries, as an index sector has one.                           *)
Tables == [Slots -> Entries]
Num(f, K) == Cardinality({n \in Slots : f[n].k \in K})
Find(f, k) == First({n \in Slots : f[n].k = k})

(* A table is filled from the front, and what is free is erased, but for    *)
(* the value of an entry whose key is still missing.                        *)
Formed(f, hole) ==
  \A n \in Slots : f[n].k = "free" =>
    /\ \A m \in Slots : m > n => f[m].k = "free"
    /\ f[n].v = FREE \/ n = hole

(* The counters in RAM agree with the table.                                *)
Agrees(c, f) ==
  /\ c.used = NumEntries - Num(f, Markers)
  /\ c.deleted = Num(f, {"deleted"})
  /\ c.free = Num(f, {"free"})
  /\ c.free > 0 => c.first_free = Find(f, "free")

(* What the three kinds of keys are. *)
LEMMA KeyKinds ==
  /\ \A k \in Keys \cup Markers : k \in Keys <=> k \notin Markers
  /\ \A k \in Keys \cup Markers : kved_is_valid_key(k) <=> k \in Keys
  /\ "free" \in Markers /\ "deleted" \in Markers /\ BadKey \notin Keys
  BY KeysAssumption DEF Markers, kved_is_valid_key

LEMMA FirstIsLeast ==
  ASSUME NEW S \in SUBSET Slots
  PROVE  /\ First(S) \in Slots \cup {0} /\ (First(S) = 0 <=> S = {})
         /\ S # {} => First(S) \in S /\ \A m \in S : First(S) <= m
  <1>1. S \in SUBSET Nat /\ 0 \notin Slots
    BY DEF Slots
  <1> QED BY <1>1, LeastExists DEF First, Slots

LEMMA NumType ==
  ASSUME NEW f, NEW K
  PROVE  /\ Num(f, K) \in 0 .. NumEntries
         /\ IsFiniteSet({n \in Slots : f[n].k \in K})
         /\ Num(f, K) = 0 <=> \A n \in Slots : f[n].k \notin K
         /\ Num(f, K) = NumEntries <=> \A n \in Slots : f[n].k \in K
  <1> DEFINE S == {n \in Slots : f[n].k \in K}
  <1>1. IsFiniteSet(Slots) /\ Cardinality(Slots) = NumEntries
    BY FS_Interval DEF Slots
  <1>2. IsFiniteSet(S) /\ Cardinality(S) <= Cardinality(Slots)
        /\ (Cardinality(S) = Cardinality(Slots) => S = Slots)
    BY <1>1, FS_Subset
  <1>3. Cardinality(S) \in Nat /\ (Cardinality(S) = 0 <=> S = {})
    BY <1>2, FS_CardinalityType, FS_EmptySet
  <1>4. Num(f, K) = Cardinality(S)
    BY DEF Num
  <1>5. S = Slots => Cardinality(S) = NumEntries
    BY <1>1
  <1>6. Num(f, K) = 0 <=> \A n \in Slots : f[n].k \notin K
    BY <1>3, <1>4
  <1>7. Num(f, K) = NumEntries <=> \A n \in Slots : f[n].k \in K
    <2>1. S = Slots <=> \A n \in Slots : f[n].k \in K
      OBVIOUS
    <2> HIDE DEF S
    <2> QED BY <1>1, <1>2, <1>4, <1>5, <2>1
  <1> HIDE DEF S
  <1>8. Num(f, K) \in 0 .. NumEntries
    BY <1>1, <1>2, <1>3, <1>4
  <1> QED BY <1>2, <1>6, <1>7, <1>8 DEF S

LEMMA NumNat == \A f, K : Num(f, K) \in 0 .. NumEntries
  BY NumType

(* One entry changes. *)
LEMMA NumStep ==
  ASSUME NEW f \in Tables, NEW x \in Slots, NEW e, NEW K
  PROVE  Num([f EXCEPT ![x] = e], K)
           = Num(f, K) + (IF e.k \in K THEN 1 ELSE 0) - (IF f[x].k \in K THEN 1 ELSE 0)
  <1> DEFINE g == [f EXCEPT ![x] = e]
             A(h) == {n \in Slots : h[n].k \in K}
             R == {n \in Slots \ {x} : f[n].k \in K}
  <1>1. IsFiniteSet(R) /\ Cardinality(R) \in Nat
    <2>1. IsFiniteSet(A(f)) /\ R \subseteq A(f)
      BY NumType
    <2> QED BY <2>1, FS_Subset, FS_CardinalityType
  <1>2. ASSUME NEW h, \A n \in Slots \ {x} : h[n] = f[n]
        PROVE  Cardinality(A(h)) = Cardinality(R) + (IF h[x].k \in K THEN 1 ELSE 0)
    <2>1. A(h) = IF h[x].k \in K THEN R \cup {x} ELSE R
      BY <1>2
    <2>2. Cardinality(R \cup {x}) = Cardinality(R) + 1
      BY <1>1, FS_AddElement
    <2>3. CASE h[x].k \in K
      <3>1. A(h) = R \cup {x}
        BY <2>1, <2>3
      <3> QED BY <2>2, <2>3, <3>1
    <2>4. CASE h[x].k \notin K
      <3>1. A(h) = R
        BY <2>1, <2>4
      <3> HIDE DEF A, R
      <3> QED BY <1>1, <2>4, <3>1
    <2> QED BY <2>3, <2>4
  <1>3. \A n \in Slots \ {x} : g[n] = f[n]
    BY DEF Tables
  <1>4. g[x] = e
    BY DEF Tables
  <1>5. Cardinality(A(g)) = Cardinality(R) + (IF e.k \in K THEN 1 ELSE 0)
    BY <1>2, <1>3, <1>4
  <1>6. Cardinality(A(f)) = Cardinality(R) + (IF f[x].k \in K THEN 1 ELSE 0)
    BY <1>2
  <1>7. Num(g, K) = Cardinality(A(g)) /\ Num(f, K) = Cardinality(A(f))
    BY DEF Num
  <1> HIDE DEF A, R, g
  <1>8. Num(g, K) = Num(f, K) + (IF e.k \in K THEN 1 ELSE 0) - (IF f[x].k \in K THEN 1 ELSE 0)
    BY <1>1, <1>5, <1>6, <1>7
  <1> QED BY <1>8 DEF g

(* Entries are used, deleted or free. *)
LEMMA NumParts ==
  ASSUME NEW f
  PROVE  Num(f, Markers) = Num(f, {"free"}) + Num(f, {"deleted"})
  <1> DEFINE A == {n \in Slots : f[n].k \in {"free"}}
             B == {n \in Slots : f[n].k \in {"deleted"}}
             C == {n \in Slots : f[n].k \in Markers}
  <1>1. IsFiniteSet(A) /\ IsFiniteSet(B)
    BY NumType
  <1>2. A \cap B = {} /\ A \cup B = C
    BY DEF Markers
  <1>3. Num(f, Markers) = Cardinality(C) /\ Num(f, {"free"}) = Cardinality(A)
        /\ Num(f, {"deleted"}) = Cardinality(B)
    BY DEF Num
  <1> HIDE DEF A, B, C
  <1>4. Cardinality(A \cup B) = Cardinality(A) + Cardinality(B)
    <2>1. Cardinality(A) \in Nat /\ Cardinality(B) \in Nat
      BY <1>1, FS_CardinalityType
    <2>2. Cardinality(A \cup B) = Cardinality(A) + Cardinality(B) - Cardinality(A \cap B)
      BY <1>1, FS_Union
    <2>3. Cardinality(A \cap B) = 0
      BY <1>2, FS_EmptySet
    <2> QED BY <2>1, <2>2, <2>3
  <1> QED BY <1>2, <1>3, <1>4

(* Where the free entries begin. *)
LEMMA FreeFrom ==
  ASSUME NEW f \in Tables, NEW hole, Formed(f, hole), Num(f, {"free"}) > 0
  PROVE  /\ Find(f, "free") \in Slots
         /\ \A n \in Slots : f[n].k = "free" <=> n >= Find(f, "free")
  <1> DEFINE S == {n \in Slots : f[n].k = "free"}
  <1>1. S # {}
    <2>1. \E n \in Slots : f[n].k \in {"free"}
      <3>1. Num(f, {"free"}) = 0 <=> \A n \in Slots : f[n].k \notin {"free"}
        BY NumType
      <3> QED BY <3>1
    <2> QED BY <2>1
  <1>2. Find(f, "free") \in S /\ \A m \in S : Find(f, "free") <= m
    BY <1>1, FirstIsLeast DEF Find
  <1>3. \A n \in Slots : f[n].k = "free" => n >= Find(f, "free")
    BY <1>2
  <1>4. \A n \in Slots : n > Find(f, "free") => f[n].k = "free"
    BY <1>2 DEF Formed
  <1>5. \A n \in Slots : n >= Find(f, "free") => n = Find(f, "free") \/ n > Find(f, "free")
    BY <1>2 DEF Slots
  <1> QED BY <1>2, <1>3, <1>4, <1>5

LEMMA FindAt ==
  ASSUME NEW f, NEW k, NEW x \in Slots, f[x].k = k, \A n \in Slots : n < x => f[n].k # k
  PROVE  Find(f, k) = x
  <1> DEFINE S == {n \in Slots : f[n].k = k}
  <1>1. First(S) \in S /\ First(S) <= x
    BY FirstIsLeast
  <1>2. ~(First(S) < x)
    BY <1>1
  <1> QED BY <1>1, <1>2 DEF Find, Slots

(* A new entry gets its key.                                                *)
LEMMA KeyWritten ==
  ASSUME NEW f \in Tables, NEW c \in CtrlType, Agrees(c, f), c.free > 0,
         NEW k \in Keys, NEW t \in Types \cup {"none"},
         NEW x, x = c.first_free, Formed(f, x)
  PROVE  LET g == [f EXCEPT ![x] = ProgramKey(@, k, t)]
             d == [c EXCEPT !.free = @ - 1, !.used = @ + 1, !.first_free = @ + 1]
         IN  /\ x \in Slots /\ f[x].k = "free" /\ x = Find(f, "free")
             /\ \A n \in Slots : f[n].k = "free" <=> n >= x
             /\ g \in Tables /\ g[x] = [k |-> k, t |-> t, v |-> f[x].v]
             /\ \A n \in Slots : n # x => g[n] = f[n]
             /\ Formed(g, 0) /\ Agrees(d, g)
  <1> DEFINE g == [f EXCEPT ![x] = ProgramKey(@, k, t)]
             d == [c EXCEPT !.free = @ - 1, !.used = @ + 1, !.first_free = @ + 1]
  <1>1. /\ x = Find(f, "free") /\ x \in Slots
        /\ \A n \in Slots : f[n].k = "free" <=> n >= x
    BY FreeFrom DEF Agrees
  <1>2. f[x].k = "free" /\ f[x] \in Entries
    BY <1>1 DEF Tables, Slots
  <1>3. ProgramKey(f[x], k, t) = [k |-> k, t |-> t, v |-> f[x].v]
    BY <1>2 DEF ProgramKey, Entries
  <1>4. g \in Tables /\ g[x] = [k |-> k, t |-> t, v |-> f[x].v] /\ \A n \in Slots : n # x => g[n] = f[n]
    BY <1>1, <1>2, <1>3 DEF Tables, Entries
  <1>5. /\ d.free = c.free - 1 /\ d.used = c.used + 1 /\ d.first_free = x + 1
        /\ d.deleted = c.deleted
    BY DEF CtrlType
  <1>6. k \notin Markers /\ g[x].k = k
    BY <1>4, KeyKinds
  <1>7. \A n \in Slots : g[n].k = "free" <=> n >= x + 1
    BY <1>1, <1>4, <1>6 DEF Slots, Markers
  <1>8. Formed(g, 0)
    <2> SUFFICES ASSUME NEW n \in Slots, g[n].k = "free"
                 PROVE  (\A m \in Slots : m > n => g[m].k = "free") /\ g[n].v = FREE
      BY DEF Formed
    <2>1. n >= x + 1
      BY <1>7
    <2>2. \A m \in Slots : m > n => m >= x + 1
      BY <1>1, <2>1 DEF Slots
    <2>3. f[n].k = "free" /\ n # x /\ g[n] = f[n]
      BY <1>1, <1>4, <2>1 DEF Slots
    <2>4. g[n].v = FREE
      BY <2>3 DEF Formed
    <2> QED BY <1>7, <2>2, <2>4
  <1>9. /\ Num(g, {"free"}) = Num(f, {"free"}) - 1
        /\ Num(g, {"deleted"}) = Num(f, {"deleted"})
        /\ Num(g, Markers) = Num(f, Markers) - 1
    <2>1. \A K : Num(g, K) = Num(f, K) + (IF k \in K THEN 1 ELSE 0) - (IF "free" \in K THEN 1 ELSE 0)
      <3> SUFFICES ASSUME NEW K
                   PROVE  Num(g, K) = Num(f, K) + (IF k \in K THEN 1 ELSE 0) - (IF "free" \in K THEN 1 ELSE 0)
        OBVIOUS
      <3> DEFINE e == ProgramKey(f[x], k, t)
      <3>1. g = [f EXCEPT ![x] = e]
        OBVIOUS
      <3>2. e.k = k
        BY <1>3
      <3> HIDE DEF e, g
      <3>3. Num([f EXCEPT ![x] = e], K)
              = Num(f, K) + (IF e.k \in K THEN 1 ELSE 0) - (IF f[x].k \in K THEN 1 ELSE 0)
        BY <1>1, NumStep
      <3> QED BY <1>2, <3>1, <3>2, <3>3
    <2>2. "free" \in Markers /\ k \notin Markers /\ k # "free" /\ k # "deleted"
      BY <1>6 DEF Markers
    <2>3. /\ Num(f, {"free"}) \in Nat /\ Num(f, {"deleted"}) \in Nat /\ Num(f, Markers) \in Nat
      BY NumNat
    <2> HIDE DEF g
    <2> QED BY <2>1, <2>2, <2>3
  <1>10. d.free > 0 => d.first_free = Find(g, "free")
    <2> SUFFICES ASSUME d.free > 0 PROVE x + 1 = Find(g, "free")
      BY <1>5
    <2>1. Num(g, {"free"}) > 0
      BY <1>5, <1>9 DEF Agrees
    <2>2. /\ Find(g, "free") \in Slots
          /\ \A n \in Slots : g[n].k = "free" <=> n >= Find(g, "free")
      BY <1>4, <1>8, <2>1, FreeFrom
    <2> HIDE DEF g, d
    <2>3. Find(g, "free") >= x + 1
      <3>1. g[Find(g, "free")].k = "free"
        BY <2>2 DEF Slots
      <3> QED BY <1>7, <2>2, <3>1
    <2>4. x + 1 \in Slots
      BY <1>1, <2>2, <2>3 DEF Slots
    <2>5. x + 1 >= Find(g, "free")
      <3>1. g[x + 1].k = "free"
        BY <1>7, <2>4 DEF Slots
      <3> QED BY <2>2, <2>4, <3>1
    <2> QED BY <2>2, <2>3, <2>5, <1>1 DEF Slots
  <1>11. Agrees(d, g)
    <2>1. /\ Num(f, {"free"}) \in Nat /\ Num(f, {"deleted"}) \in Nat /\ Num(f, Markers) \in Nat
      BY NumNat
    <2> HIDE DEF g, d
    <2> QED BY <1>5, <1>9, <1>10, <2>1 DEF Agrees
  <1> QED BY <1>1, <1>2, <1>4, <1>8, <1>11

(* An entry is deleted.                                                     *)
Dropped(e) == [e EXCEPT !.k = "deleted", !.t = "none"]
LEMMA EntryDropped ==
  ASSUME NEW f \in Tables, NEW c \in CtrlType, Agrees(c, f), Formed(f, 0),
         NEW x \in Slots, f[x].k \in Keys
  PROVE  LET g == [f EXCEPT ![x] = Dropped(@)]
             d == [c EXCEPT !.deleted = @ + 1, !.used = @ - 1]
         IN  /\ g \in Tables /\ g[x].k = "deleted" /\ \A n \in Slots : n # x => g[n] = f[n]
             /\ Formed(g, 0) /\ Agrees(d, g)
  <1> DEFINE g == [f EXCEPT ![x] = Dropped(@)]
             d == [c EXCEPT !.deleted = @ + 1, !.used = @ - 1]
  <1>2. f[x].k \notin Markers /\ f[x] \in Entries
    BY KeyKinds DEF Tables, Entries
  <1>3. Dropped(f[x]).k = "deleted" /\ Dropped(f[x]) \in Entries
    BY <1>2 DEF Dropped, Entries, Markers
  <1>4. g \in Tables /\ g[x].k = "deleted" /\ \A n \in Slots : n # x => g[n] = f[n]
    BY <1>2, <1>3 DEF Tables
  <1>5. /\ d.free = c.free /\ d.used = c.used - 1 /\ d.first_free = c.first_free
        /\ d.deleted = c.deleted + 1
    BY DEF CtrlType
  <1>7. \A n \in Slots : g[n].k = "free" <=> f[n].k = "free"
    BY <1>2, <1>4 DEF Markers
  <1>8. Formed(g, 0)
    BY <1>4, <1>7 DEF Formed
  <1>9. /\ Num(g, {"free"}) = Num(f, {"free"})
        /\ Num(g, {"deleted"}) = Num(f, {"deleted"}) + 1
        /\ Num(g, Markers) = Num(f, Markers) + 1
    <2>1. \A K : Num(g, K) = Num(f, K) + (IF "deleted" \in K THEN 1 ELSE 0) - (IF f[x].k \in K THEN 1 ELSE 0)
      <3> SUFFICES ASSUME NEW K
                   PROVE  Num(g, K) = Num(f, K) + (IF "deleted" \in K THEN 1 ELSE 0) - (IF f[x].k \in K THEN 1 ELSE 0)
        OBVIOUS
      <3> DEFINE e == Dropped(f[x])
      <3>1. g = [f EXCEPT ![x] = e]
        OBVIOUS
      <3>2. e.k = "deleted"
        BY <1>3
      <3> HIDE DEF e, g
      <3>3. Num([f EXCEPT ![x] = e], K)
              = Num(f, K) + (IF e.k \in K THEN 1 ELSE 0) - (IF f[x].k \in K THEN 1 ELSE 0)
        BY NumStep
      <3> QED BY <3>1, <3>2, <3>3
    <2>2. "deleted" \in Markers /\ f[x].k \notin Markers /\ f[x].k # "free" /\ f[x].k # "deleted"
      BY <1>2 DEF Markers
    <2>3. /\ Num(f, {"free"}) \in Nat /\ Num(f, {"deleted"}) \in Nat /\ Num(f, Markers) \in Nat
      BY NumNat
    <2> HIDE DEF g
    <2> QED BY <2>1, <2>2, <2>3
  <1>10. Find(g, "free") = Find(f, "free")
    <2>1. {n \in Slots : g[n].k = "free"} = {n \in Slots : f[n].k = "free"}
      BY <1>7
    <2> QED BY <2>1 DEF Find
  <1>11. Agrees(d, g)
    <2>1. /\ Num(f, {"free"}) \in Nat /\ Num(f, {"deleted"}) \in Nat /\ Num(f, Markers) \in Nat
      BY NumNat
    <2> HIDE DEF g, d
    <2> QED BY <1>5, <1>9, <1>10, <2>1 DEF Agrees
  <1> QED BY <1>4, <1>8, <1>11

(* A sector that a switch has filled.                                       *)
LEMMA CopyCounted ==
  ASSUME NEW g \in Tables, NEW nx \in 1 .. NumEntries + 1,
         \A n \in Slots : n < nx => g[n].k \in Keys,
         \A n \in Slots : n >= nx => g[n] = FreeSlot,
         NEW c, c.used = nx - 1, c.deleted = 0, c.free = NumEntries - (nx - 1), c.first_free = nx
  PROVE  Formed(g, 0) /\ Agrees(c, g)
  <1>1. \A n \in Slots : g[n].k \in {"free"} <=> n >= nx
    BY KeyKinds DEF FreeSlot, Slots
  <1>2. \A n \in Slots : g[n].k # "deleted"
    BY KeyKinds DEF FreeSlot, Slots
  <1>3. Formed(g, 0)
    BY <1>1 DEF Formed, FreeSlot, Slots
  <1>4. Num(g, {"free"}) = NumEntries - (nx - 1)
    <2>1. {n \in Slots : g[n].k \in {"free"}} = nx .. NumEntries
      BY <1>1 DEF Slots
    <2>2. Cardinality(nx .. NumEntries) = IF nx > NumEntries THEN 0 ELSE NumEntries - nx + 1
      BY FS_Interval
    <2>3. Cardinality(nx .. NumEntries) = NumEntries - (nx - 1)
      BY <2>2
    <2> QED BY <2>1, <2>3 DEF Num
  <1>5. Num(g, {"deleted"}) = 0
    <2>1. Num(g, {"deleted"}) = 0 <=> \A n \in Slots : g[n].k \notin {"deleted"}
      BY NumType
    <2> QED BY <1>2, <2>1
  <1>6. Num(g, Markers) = NumEntries - (nx - 1)
    BY <1>4, <1>5, NumParts
  <1>7. c.free > 0 => c.first_free = Find(g, "free")
    <2> SUFFICES ASSUME c.free > 0 PROVE nx = Find(g, "free")
      OBVIOUS
    <2>1. nx \in Slots
      BY DEF Slots
    <2>2. g[nx].k = "free" /\ \A n \in Slots : n < nx => g[n].k # "free"
      BY <1>1, <2>1 DEF Slots
    <2> QED BY <2>1, <2>2, FindAt
  <1> QED BY <1>3, <1>4, <1>5, <1>6, <1>7 DEF Agrees

-----------------------------------------------------------------------------
(* Power does not fail between the value and the key of a new entry, where  *)
(* kved loses track of its entries (README, deviations).                    *)
WholeEntries == "w_key" \notin CutPoints

(* The invariant of the entries.  A signed sector is filled from the front, *)
(* and so is the one in use.                                                *)
InUse == main[ctrl.sector].slot
Spare == main[Other(ctrl.sector)].slot
EmptyTable == [n \in Slots |-> FreeSlot]
Hole == IF pc = "w_key" THEN ctrl.first_free ELSE 0
FormInv ==
  /\ \A s \in Sectors : Signed(s) \/ (pc \notin Selecting /\ s = ctrl.sector) =>
       Formed(main[s].slot, Hole)
  /\ pc \in {"i_cnt", "i_sig"} => main["A"].slot = EmptyTable
  /\ pc = "sw_strerase" => Spare = EmptyTable

(* The counters agree with it from the moment they are read.                *)
CountInv == pc \notin Selecting => Agrees(ctrl, InUse)

(* Which calls are at which control points.                                 *)
ModeInv ==
  /\ pc \in {"write", "full"} \cup Appending => call.op = "write"
  /\ pc = "full" => call.key \in Keys
  /\ pc = "delete" => call.op = "delete"
  /\ pc \in SwitchLabels => call.op \in {"write", "compact"}
  /\ pc \in {"check", "scan"} => call.op \in {"init", "write", "compact"}

(* A write goes on only if there is room for it: a free entry, or one that  *)
(* the switch drops.                                                        *)
Early == {"sw_erase", "sw_strerase", "sw_copy"}
Late == (SwitchLabels \ Early) \cup {"check", "scan"}
RoomInv ==
  /\ pc \in Appending \ {"w_del"} => ctrl.free > 0
  /\ call.op = "write" /\ pc \in Early => \E n \in Slots : InUse[n].k \notin Keys
  /\ call.op = "write" /\ pc \in Late => ctrl.free > 0

(* The entry that a write replaces, and no other, has the key of the call.  *)
OldInv ==
  /\ pc = "w_del" => old # 0
  /\ call.op = "write" /\ pc \in (Appending \ {"w_del"}) \cup Early =>
       \A n \in Slots : (InUse[n].k = call.key) <=> (n = old)
  /\ pc = "w_del" => \A n \in Slots :
       (InUse[n].k = call.key) <=> (n = old \/ n = ctrl.first_free - 1)
  /\ call.op = "write" /\ old = 0 /\ pc \in Late => \A n \in Slots : InUse[n].k # call.key

(* An entry behind this one has its key.                                    *)
Superseded(f, n) == f[n].k \in Keys /\ \E m \in Slots : n < m /\ f[m].k = f[n].k
Unique(f) == \A n \in Slots : ~Superseded(f, n)

(* The copy has the entries of the original that the switch has passed,     *)
(* without the deleted ones.                                                *)
CopyInv ==
  pc = "sw_copy" =>
    /\ nxt \in 1 .. i
    /\ \A n \in Slots : n >= nxt => Spare[n] = FreeSlot
    /\ \A n \in Slots : n < nxt =>
         Spare[n].k \in Keys /\ \E j \in Slots : j < i /\ InUse[j].k = Spare[n].k
    /\ (\E j \in Slots : j < i /\ InUse[j].k \notin Keys) => nxt < i
    /\ Unique(Spare)

(* No key has two entries, but for the one that is being replaced, and the  *)
(* one whose replacement power loss has interrupted until it is removed.    *)
Recovering == pc \in InitLabels \cup {"check", "scan"} /\ call.op = "init"
UniqueInv ==
  /\ (pc \notin Selecting \cup {"w_del"}) /\ ~Recovering => Unique(InUse)
  /\ pc = "w_del" => \A n \in Slots : Superseded(InUse, n) => n = old
  /\ pc = "scan" => \A n \in Slots : Superseded(InUse, n) => n >= i

EInv == FormInv /\ CountInv /\ ModeInv /\ RoomInv /\ OldInv /\ CopyInv /\ UniqueInv

-----------------------------------------------------------------------------
(* The invariant of the entries is kept.  First, what the types say.        *)
LEMMA Typed ==
  ASSUME IInv
  PROVE  /\ main \in MainType /\ ctrl \in CtrlType /\ call \in CallType /\ pc \in Labels
         /\ ctrl.sector \in Sectors /\ Other(ctrl.sector) \in Sectors
         /\ Other(ctrl.sector) # ctrl.sector
         /\ \A s \in Sectors : main[s].slot \in Tables
         /\ InUse \in Tables /\ Spare \in Tables
         /\ old \in 0 .. NumEntries /\ i \in 1 .. NumEntries + 1 /\ nxt \in Nat
  <1>1. main \in MainType /\ ctrl \in CtrlType /\ call \in CallType /\ pc \in Labels
        /\ old \in 0 .. NumEntries /\ i \in 1 .. NumEntries + 1 /\ nxt \in Nat
    BY DEF IInv, TypeOK
  <1>2. ctrl.sector \in Sectors /\ Other(ctrl.sector) \in Sectors
        /\ Other(ctrl.sector) # ctrl.sector
    BY <1>1 DEF CtrlType, Sectors, Other
  <1>3. \A s \in Sectors : main[s].slot \in Tables
    BY <1>1 DEF MainType, Tables
  <1> QED BY <1>1, <1>2, <1>3 DEF InUse, Spare

LEMMA SlotSet ==
  ASSUME main \in MainType, NEW s \in Sectors, NEW x, NEW e,
         main' = [main EXCEPT ![s].slot[x] = e]
  PROVE  /\ main'[s].slot = [main[s].slot EXCEPT ![x] = e]
         /\ \A q \in Sectors : q # s => main'[q] = main[q]
         /\ \A q \in Sectors : main'[q].sig = main[q].sig
  BY DEF MainType

LEMMA SameSigned ==
  ASSUME \A q \in Sectors : main'[q].sig = main[q].sig
  PROVE  \A q \in Sectors : Signed(q)' <=> Signed(q)
  BY DEF Signed

(* The counters of ctrl, and the sector they are about, stay as they are.   *)
SameCounts(c, d) ==
  /\ d.sector = c.sector /\ d.used = c.used /\ d.deleted = c.deleted
  /\ d.free = c.free /\ d.first_free = c.first_free

LEMMA QuietForm ==
  ASSUME IInv, EInv, main' = main, SameCounts(ctrl, ctrl'),
         pc \notin Selecting, pc' \notin Selecting \cup {"sw_strerase"},
         pc # "w_key", pc' # "w_key"
  PROVE  FormInv' /\ CountInv' /\ InUse' = InUse /\ Spare' = Spare
  <1>1. InUse' = InUse /\ Spare' = Spare
    BY DEF InUse, Spare, SameCounts
  <1>2. \A q \in Sectors : Signed(q)' <=> Signed(q)
    BY SameSigned
  <1>3. Hole = 0 /\ Hole' = 0
    BY DEF Hole
  <1>4. FormInv'
    BY <1>2, <1>3, Typed DEF EInv, FormInv, SameCounts, Selecting, Formatting
  <1>5. CountInv'
    BY <1>1 DEF EInv, CountInv, Agrees, SameCounts
  <1> QED BY <1>1, <1>4, <1>5

(* kved_init chooses a sector or makes one.                                 *)
LEMMA EntriesSelected ==
  ASSUME IInv, EInv, kved_sector_consistency_check \/ InitIndexSector \/ InitFormatIndex
  PROVE  EInv'
  <1>a. /\ main \in MainType /\ ctrl \in CtrlType
        /\ pc \in InitLabels => call.op = "init"
    BY Typed DEF IInv, CallInv
  <1> USE DEF Selecting, Formatting, InitLabels, SwitchLabels, Appending, Early, Late, Goto
  <1>1. CASE kved_sector_consistency_check
    <2>1. pc = "off" /\ pc' = "i_index" /\ call'.op = "init"
      BY <1>1 DEF kved_sector_consistency_check, NoCall
    <2>2. \A s \in Sectors : main'[s].slot = main[s].slot /\ (main'[s].sig = "ok" => main[s].sig = "ok")
      BY <1>a, <1>1 DEF kved_sector_consistency_check, MainType
    <2>3. FormInv'
      BY <2>1, <2>2 DEF EInv, FormInv, Signed, Hole
    <2> QED BY <2>1, <2>3 DEF EInv, CountInv, ModeInv, RoomInv, OldInv, CopyInv, UniqueInv, Recovering
  <1>2. CASE InitIndexSector
    <2>1. pc = "i_index" /\ main' = main /\ call' = call /\ call.op = "init"
      BY <1>a, <1>2 DEF InitIndexSector, flash
    <2>2. CASE \E s \in Sectors : main[s].sig = "ok"
      <3> DEFINE s == IF main["A"].sig = "ok" THEN "A" ELSE "B"
      <3>1. pc' = "i_string" /\ ctrl' = kved_sector_stats_read(main, s)
        BY <1>2, <2>2 DEF InitIndexSector
      <3>2. s \in Sectors /\ main[s].sig = "ok"
        BY <2>2 DEF Sectors
      <3>3. ctrl'.sector = s /\ Agrees(ctrl', main[s].slot)
        BY <1>a, <3>1 DEF kved_sector_stats_read, Agrees, Num, Count, CtrlType, Find, kved_key_index_find
      <3>4. FormInv'
        BY <2>1, <3>1, <3>2, <3>3 DEF EInv, FormInv, Signed, Hole
      <3>5. CountInv'
        BY <2>1, <3>1, <3>3 DEF CountInv, InUse
      <3> QED BY <2>1, <3>1, <3>4, <3>5 DEF EInv, ModeInv, RoomInv, OldInv, CopyInv, UniqueInv, Recovering
    <2>3. CASE ~\E s \in Sectors : main[s].sig = "ok"
      <3>1. pc' = "i_erase"
        BY <1>2, <2>3 DEF InitIndexSector
      <3>2. FormInv'
        BY <2>1, <3>1 DEF EInv, FormInv, Signed, Hole
      <3> QED BY <2>1, <3>1, <3>2 DEF EInv, CountInv, ModeInv, RoomInv, OldInv, CopyInv, UniqueInv, Recovering
    <2> QED BY <2>2, <2>3
  <1>3. CASE InitFormatIndex
    <2>1. /\ pc \in {"i_erase", "i_cnt", "i_sig"} /\ call' = call /\ call.op = "init"
          /\ \A s \in Sectors : ~Signed(s)
      BY <1>a, <1>3 DEF InitFormatIndex, IInv, SectorInv
    <2>2. CASE pc = "i_erase"
      <3>1. pc' = "i_cnt" /\ main' = [main EXCEPT !["A"] = ErasedMain]
        BY <1>3, <2>2 DEF InitFormatIndex
      <3>2. /\ main'["A"].slot = EmptyTable
            /\ \A s \in Sectors : ~Signed(s)'
        BY <1>a, <2>1, <3>1 DEF MainType, Sectors, ErasedMain, EmptyTable, Signed
      <3> QED BY <2>1, <3>1, <3>2 DEF EInv, FormInv, CountInv, ModeInv, RoomInv, OldInv, CopyInv, UniqueInv, Recovering
    <2>3. CASE pc = "i_cnt"
      <3>1. pc' = "i_sig" /\ main' = [main EXCEPT !["A"].cnt = 0]
        BY <1>3, <2>3 DEF InitFormatIndex
      <3>2. /\ main'["A"].slot = main["A"].slot
            /\ \A s \in Sectors : ~Signed(s)'
        BY <1>a, <2>1, <3>1 DEF MainType, Sectors, Signed
      <3>3. main["A"].slot = EmptyTable
        BY <2>3 DEF EInv, FormInv
      <3> QED BY <2>1, <3>1, <3>2, <3>3 DEF EInv, FormInv, CountInv, ModeInv, RoomInv, OldInv, CopyInv, UniqueInv, Recovering
    <2>4. CASE pc = "i_sig"
      <3>1. /\ pc' = "i_string" /\ main' = Sign(main, "A")
            /\ ctrl' = kved_sector_stats_read(main', "A")
        BY <1>3, <2>4 DEF InitFormatIndex
      <3>2. main["A"].slot = EmptyTable
        BY <2>4 DEF EInv, FormInv
      <3>3. main'["A"].slot = EmptyTable /\ \A s \in Sectors : Signed(s)' => s = "A"
        BY <1>a, <2>1, <3>1, <3>2 DEF MainType, Sectors, Signed, Sign
      <3>4. ctrl'.sector = "A" /\ Agrees(ctrl', main'["A"].slot)
        BY <1>a, <3>1 DEF kved_sector_stats_read, Agrees, Num, Count, CtrlType, Find, kved_key_index_find
      <3>5. Formed(EmptyTable, 0)
        BY DEF Formed, EmptyTable, FreeSlot
      <3>6. FormInv'
        BY <3>1, <3>3, <3>4, <3>5 DEF FormInv, Hole
      <3>7. CountInv'
        BY <3>4 DEF CountInv, InUse
      <3> QED BY <2>1, <3>1, <3>6, <3>7 DEF EInv, ModeInv, RoomInv, OldInv, CopyInv, UniqueInv, Recovering
    <2> QED BY <2>1, <2>2, <2>3, <2>4
  <1> QED BY <1>1, <1>2, <1>3

(* The power goes off.                                                      *)
LEMMA EntriesOff ==
  ASSUME IInv, EInv, WholeEntries, kved_deinit \/ PowerCut
  PROVE  EInv'
  <1> USE DEF Selecting, Formatting, InitLabels, SwitchLabels, Appending, Early, Late
  <1>1. pc # "w_key" /\ pc' = "off" /\ main' = main /\ call'.op = "none"
    BY DEF kved_deinit, PowerCut, PowerOff, NoCall, WholeEntries, flash
  <1>2. FormInv'
    BY <1>1 DEF EInv, FormInv, Signed, Hole
  <1> QED BY <1>1, <1>2 DEF EInv, CountInv, ModeInv, RoomInv, OldInv, CopyInv, UniqueInv, Recovering

(* The steps that write no entry.                                           *)
LEMMA EntriesString ==
  ASSUME IInv, EInv, InitStringSector \/ InitFormatString \/ kved_string_consistency_check
  PROVE  EInv'
  <1>a. /\ main \in MainType /\ ctrl \in CtrlType
        /\ pc \in InitLabels => call.op = "init"
    BY Typed DEF IInv, CallInv
  <1> USE DEF Selecting, Formatting, InitLabels, SwitchLabels, Appending, Early, Late, Goto
  <1>1. CASE InitStringSector \/ InitFormatString
    <2>1. /\ pc \in {"i_string", "i_strerase", "i_strsig", "i_strend"}
          /\ pc' \in {"i_strerase", "i_strsig", "i_strend", "check"}
          /\ main' = main /\ call' = call /\ call.op = "init"
      BY <1>a, <1>1 DEF InitStringSector, InitFormatString, flash
    <2>2. SameCounts(ctrl, ctrl')
      BY <1>a, <1>1 DEF InitStringSector, InitFormatString, SameCounts, CtrlType
    <2>3. FormInv' /\ CountInv'
      BY <2>1, <2>2, QuietForm
    <2> QED BY <2>1, <2>3 DEF EInv, ModeInv, RoomInv, OldInv, CopyInv, UniqueInv, Recovering
  <1>2. CASE kved_string_consistency_check
    <2>1. pc = "check" /\ main' = main
      BY <1>2 DEF kved_string_consistency_check, flash
    <2>2. CASE StrSigned(ctrl.str_sector)
      <3>1. pc' = "scan" /\ i' = 1 /\ call' = call /\ old' = old
        BY <1>2, <2>2 DEF kved_string_consistency_check
      <3>2. SameCounts(ctrl, ctrl')
        BY <1>a, <1>2, <2>2 DEF kved_string_consistency_check, SameCounts, CtrlType
      <3>3. FormInv' /\ CountInv' /\ InUse' = InUse
        BY <2>1, <3>1, <3>2, QuietForm
      <3>4. \A n \in Slots : n >= 1
        BY DEF Slots
      <3>5. UniqueInv'
        BY <2>1, <3>1, <3>3, <3>4 DEF EInv, UniqueInv, Recovering
      <3> QED BY <2>1, <3>1, <3>2, <3>3, <3>5 DEF EInv, ModeInv, RoomInv, OldInv, CopyInv, SameCounts
    <2>3. CASE ~StrSigned(ctrl.str_sector) /\ call.op = "init"
      <3>1. pc' = "off" /\ call' = call
        BY <1>2, <2>3 DEF kved_string_consistency_check
      <3>2. FormInv'
        BY <2>1, <3>1 DEF EInv, FormInv, Signed, Hole
      <3> QED BY <2>3, <3>1, <3>2 DEF EInv, CountInv, ModeInv, RoomInv, OldInv, CopyInv, UniqueInv, Recovering
    <2>4. CASE ~StrSigned(ctrl.str_sector) /\ call.op # "init"
      <3>1. pc' = "idle" /\ ctrl' = ctrl /\ call'.op = "none"
        BY <1>2, <2>4 DEF kved_string_consistency_check, Return, NoCall
      <3>2. FormInv' /\ CountInv' /\ InUse' = InUse
        BY <2>1, <3>1, QuietForm DEF SameCounts
      <3> QED BY <2>1, <2>4, <3>1, <3>2 DEF EInv, ModeInv, RoomInv, OldInv, CopyInv, UniqueInv, Recovering
    <2> QED BY <2>2, <2>3, <2>4
  <1> QED BY <1>1, <1>2

(* Where the entry of a key is.                                             *)
LEMMA FoundEntry ==
  ASSUME IInv, Unique(InUse), call.key \in Keys
  PROVE  \A n \in Slots : (InUse[n].k = call.key) <=> (n = Found)
  <1> DEFINE S == {n \in Slots : InUse[n].k = call.key}
  <1>1. Found = First(S) /\ 0 \notin Slots
    BY DEF Found, kved_key_index_find, InUse, Slots
  <1>2. /\ First(S) = 0 <=> S = {}
        /\ S # {} => First(S) \in S /\ \A m \in S : First(S) <= m
    <2>1. S \in SUBSET Slots
      OBVIOUS
    <2> QED BY <2>1, FirstIsLeast
  <1>3. \A n \in S : n = Found
    <2> SUFFICES ASSUME NEW n \in S, n # Found PROVE FALSE
      OBVIOUS
    <2>1. Found \in S /\ Found < n
      BY <1>1, <1>2 DEF Slots
    <2> QED BY <2>1 DEF Unique, Superseded
  <1>4. \A n \in Slots : n = Found => n \in S
    BY <1>1, <1>2
  <1> QED BY <1>3, <1>4

(* The calls, up to the first write of an entry.                            *)
LEMMA EntriesCalls ==
  ASSUME IInv, EInv, Client \/ WriteRejected \/ WriteUnchanged \/ kved_dump
  PROVE  EInv'
  <1> USE DEF Selecting, Formatting, InitLabels, SwitchLabels, Appending, Early, Late, Goto
  <1>1. /\ pc \in {"idle", "write", "full"} /\ main' = main /\ ctrl' = ctrl
        /\ \/ pc' = "write" /\ call'.op = "write"
           \/ pc' = "delete" /\ call'.op = "delete"
           \/ pc' = "sw_erase" /\ call'.op = "compact"
           \/ pc' = "idle" /\ call'.op # "write"
    <2>1. CASE kved_data_write \/ kved_data_delete \/ kved_compact_database
      BY <2>1 DEF kved_data_write, kved_data_delete, kved_compact_database, Enter, flash
    <2>2. CASE kved_data_read
      <3>1. pc = "idle" /\ pc' = pc /\ main' = main /\ ctrl' = ctrl
        BY <2>2 DEF kved_data_read, flash
      <3>2. call'.op = "read"
        BY <2>2 DEF kved_data_read
      <3> QED BY <3>1, <3>2
    <2>3. CASE WriteRejected
      BY <2>3 DEF WriteRejected, Return, NoCall, flash
    <2>4. CASE WriteUnchanged
      BY <2>4 DEF WriteUnchanged, Return, NoCall, flash
    <2>5. CASE kved_dump
      BY <2>5 DEF kved_dump, Return, NoCall, flash
    <2> QED BY <2>1, <2>2, <2>3, <2>4, <2>5 DEF Client
  <1>2. FormInv' /\ CountInv' /\ InUse' = InUse /\ Spare' = Spare
    BY <1>1, QuietForm DEF SameCounts
  <1> QED BY <1>1, <1>2 DEF EInv, ModeInv, RoomInv, OldInv, CopyInv, UniqueInv, Recovering

LEMMA EntriesWriting ==
  ASSUME IInv, EInv, WriteFull \/ WriteSwitch \/ WriteAppend
  PROVE  EInv'
  <1> USE DEF Selecting, Formatting, InitLabels, SwitchLabels, Appending, Early, Late, Goto
  <1>1. /\ pc = "write" /\ call.op = "write" /\ call.key \in Keys /\ Unique(InUse)
    <2>1. pc = "write" /\ kved_is_valid_key(call.key) /\ call.op = "write"
      BY DEF WriteFull, WriteSwitch, WriteAppend, Writing, EInv, ModeInv
    <2>2. call.key \in Keys \cup {BadKey}
      BY <2>1 DEF IInv, CallInv
    <2>3. call.key \in Keys
      BY <2>1, <2>2 DEF kved_is_valid_key
    <2> QED BY <2>1, <2>3 DEF EInv, UniqueInv, Recovering
  <1>2. \A n \in Slots : (InUse[n].k = call.key) <=> (n = Found)
    BY <1>1, FoundEntry
  <1>3. main' = main /\ ctrl' = ctrl /\ call' = call
    BY DEF WriteFull, WriteSwitch, WriteAppend, flash
  <1>4. Agrees(ctrl, InUse)
    BY <1>1 DEF EInv, CountInv
  <1>5. CASE WriteFull
    <2>1. pc' = "full"
      BY <1>5 DEF WriteFull
    <2>2. FormInv' /\ CountInv' /\ InUse' = InUse
      BY <1>1, <1>3, <2>1, QuietForm DEF SameCounts
    <2> QED BY <1>1, <1>3, <2>1, <2>2 DEF EInv, ModeInv, RoomInv, OldInv, CopyInv, UniqueInv, Recovering
  <1>6. CASE WriteSwitch
    <2>1. pc' = "sw_erase" /\ old' = Found /\ ctrl.used # NumEntries
      BY <1>6 DEF WriteSwitch
    <2>2. FormInv' /\ CountInv' /\ InUse' = InUse
      BY <1>1, <1>3, <2>1, QuietForm DEF SameCounts
    <2>3. \E n \in Slots : InUse[n].k \notin Keys
      <3>1. Num(InUse, Markers) \in 0 .. NumEntries
        BY NumNat
      <3>2. Num(InUse, Markers) # 0
        BY <1>4, <2>1, <3>1 DEF Agrees
      <3>3. (Num(InUse, Markers) = 0) <=> \A n \in Slots : InUse[n].k \notin Markers
        BY NumType
      <3> QED BY <3>2, <3>3, KeysAssumption DEF Markers
    <2> QED BY <1>1, <1>2, <1>3, <2>1, <2>2, <2>3 DEF EInv, ModeInv, RoomInv, OldInv, CopyInv, UniqueInv, Recovering
  <1>7. CASE WriteAppend
    <2>1. pc' \in {"w_stridx", "w_val"} /\ old' = Found /\ ctrl.free # 0
      BY <1>7 DEF WriteAppend, AppendFrom
    <2>2. FormInv' /\ CountInv' /\ InUse' = InUse
      BY <1>1, <1>3, <2>1, QuietForm DEF SameCounts
    <2>3. ctrl.free > 0
      <3>1. Num(InUse, {"free"}) \in 0 .. NumEntries
        BY NumNat
      <3> QED BY <1>4, <2>1, <3>1 DEF Agrees
    <2> QED BY <1>1, <1>2, <1>3, <2>1, <2>2, <2>3 DEF EInv, ModeInv, RoomInv, OldInv, CopyInv, UniqueInv, Recovering
  <1> QED BY <1>5, <1>6, <1>7

LEMMA EntriesText ==
  ASSUME IInv, EInv, WriteStringIndex \/ WriteStringData
  PROVE  EInv'
  <1> USE DEF Selecting, Formatting, InitLabels, SwitchLabels, Appending, Early, Late, Goto
  <1>1. /\ pc \in {"w_stridx", "w_strdata"} /\ pc' \in {"w_strdata", "w_val"}
        /\ main' = main /\ call' = call /\ old' = old
    BY DEF WriteStringIndex, WriteStringData, locals
  <1>2. SameCounts(ctrl, ctrl')
    <2>1. ctrl \in CtrlType
      BY Typed
    <2> QED BY <2>1 DEF WriteStringIndex, WriteStringData, SameCounts, CtrlType
  <1>3. FormInv' /\ CountInv' /\ InUse' = InUse
    BY <1>1, <1>2, QuietForm
  <1> QED BY <1>1, <1>2, <1>3 DEF EInv, ModeInv, RoomInv, OldInv, CopyInv, UniqueInv, Recovering, SameCounts

(* The loop of the consistency check.                                       *)
LEMMA EntriesChecked ==
  ASSUME IInv, EInv, ConsistencyCheckDone
  PROVE  EInv'
  <1> USE DEF Selecting, Formatting, InitLabels, SwitchLabels, Appending, Early, Late, Goto
  <1>1. pc = "scan" /\ ToDelete = 0 /\ main' = main /\ ctrl' = ctrl
    BY DEF ConsistencyCheckDone, flash
  <1>2. Unique(InUse)
    <2> SUFFICES ASSUME NEW n \in Slots, Superseded(InUse, n) PROVE FALSE
      BY DEF Unique
    <2>1. n >= i
      BY <1>1 DEF EInv, UniqueInv
    <2>2. DuplicatedAhead(ctrl.sector, n)
      BY KeysAssumption DEF Superseded, DuplicatedAhead, InUse, kved_is_valid_key
    <2> DEFINE S == {q \in Slots : /\ q >= i
                                   /\ \/ HalfWritten(main[ctrl.sector].slot[q])
                                      \/ DuplicatedAhead(ctrl.sector, q)}
    <2>3. n \in S /\ S \in SUBSET Slots
      BY <2>1, <2>2
    <2>4. First(S) # 0
      BY <2>3, FirstIsLeast
    <2> QED BY <1>1, <2>4 DEF ToDelete
  <1>3. CASE call.op = "write" /\ old = 0
    <2>1. pc' \in {"w_stridx", "w_val"} /\ call' = call /\ old' = old
      BY <1>3 DEF ConsistencyCheckDone, AppendFrom
    <2>2. FormInv' /\ CountInv' /\ InUse' = InUse
      BY <1>1, <2>1, QuietForm DEF SameCounts
    <2>3. \A n \in Slots : InUse[n].k # call.key /\ n # 0
      BY <1>1, <1>3 DEF EInv, OldInv, Slots
    <2> QED BY <1>1, <1>2, <1>3, <2>1, <2>2, <2>3 DEF EInv, ModeInv, RoomInv, OldInv, CopyInv, UniqueInv, Recovering
  <1>4. CASE ~(call.op = "write" /\ old = 0)
    <2>1. pc' = "idle" /\ call'.op = "none"
      BY <1>4 DEF ConsistencyCheckDone, Return, NoCall
    <2>2. FormInv' /\ CountInv' /\ InUse' = InUse
      BY <1>1, <2>1, QuietForm DEF SameCounts
    <2> QED BY <1>1, <1>2, <2>1, <2>2 DEF EInv, ModeInv, RoomInv, OldInv, CopyInv, UniqueInv, Recovering
  <1> QED BY <1>3, <1>4

(* The steps that write an entry of the sector in use, the only signed one. *)
LEMMA TableWritten ==
  ASSUME IInv, NEW x, NEW e, main' = [main EXCEPT ![ctrl.sector].slot[x] = e],
         ctrl'.sector = ctrl.sector, pc \in {"scan", "delete"} \cup Appending,
         pc' \in {"scan", "idle"} \cup Appending,
         Formed([InUse EXCEPT ![x] = e], IF pc' = "w_key" THEN ctrl'.first_free ELSE 0),
         Agrees(ctrl', [InUse EXCEPT ![x] = e])
  PROVE  FormInv' /\ CountInv' /\ InUse' = [InUse EXCEPT ![x] = e]
  <1> USE DEF Selecting, Formatting, Appending
  <1>1. /\ main'[ctrl.sector].slot = [main[ctrl.sector].slot EXCEPT ![x] = e]
        /\ \A q \in Sectors : main'[q].sig = main[q].sig
    <2>1. main \in MainType /\ ctrl.sector \in Sectors
      BY Typed
    <2> QED BY <2>1 DEF MainType
  <1>2. InUse' = [InUse EXCEPT ![x] = e]
    BY <1>1 DEF InUse
  <1>3. \A q \in Sectors : Signed(q)' => q = ctrl'.sector
    <2>1. \A q \in Sectors : Signed(q)' => Signed(q)
      BY <1>1 DEF Signed
    <2>2. Signed(ctrl.sector) /\ ~(\A q \in Sectors : Signed(q))
      BY DEF IInv, SectorInv, BothSigned
    <2>3. \A q \in Sectors : q # ctrl.sector => \A r \in Sectors : r = q \/ r = ctrl.sector
      BY Typed DEF Sectors
    <2> QED BY <2>1, <2>2, <2>3
  <1>4. Formed(InUse', Hole')
    BY <1>2 DEF Hole
  <1>5. FormInv'
    BY <1>3, <1>4 DEF FormInv, InUse
  <1>6. CountInv'
    BY <1>2 DEF CountInv
  <1> QED BY <1>2, <1>5, <1>6

(* The entry that replaces another, or one that is kved_init found.         *)
LEMMA EntryDeleted ==
  ASSUME IInv, EInv, NEW x \in Slots, InUse[x].k \in Keys,
         main' = DeleteSlot(main, ctrl.sector, x),
         ctrl' = [ctrl EXCEPT !.deleted = @ + 1, !.used = @ - 1],
         pc \in {"scan", "delete", "w_del"}, pc' \in {"scan", "idle"}
  PROVE  /\ FormInv' /\ CountInv'
         /\ InUse'[x].k = "deleted" /\ \A n \in Slots : n # x => InUse'[n] = InUse[n]
         /\ ctrl'.sector = ctrl.sector /\ ctrl'.free = ctrl.free
  <1> DEFINE e == Dropped(InUse[x])
  <1>1. main \in MainType /\ ctrl \in CtrlType /\ ctrl.sector \in Sectors /\ InUse \in Tables
    BY Typed
  <1>2. main' = [main EXCEPT ![ctrl.sector].slot[x] = e]
    BY <1>1 DEF DeleteSlot, Dropped, InUse, MainType
  <1>3. Formed(InUse, 0) /\ Agrees(ctrl, InUse)
    <2>1. Hole = 0 /\ pc \notin Selecting
      BY DEF Hole, Selecting, Formatting
    <2> QED BY <1>1, <2>1 DEF EInv, FormInv, CountInv, InUse
  <1> DEFINE g == [InUse EXCEPT ![x] = Dropped(@)]
             d == [ctrl EXCEPT !.deleted = @ + 1, !.used = @ - 1]
  <1>4. /\ g \in Tables /\ g[x].k = "deleted" /\ \A n \in Slots : n # x => g[n] = InUse[n]
        /\ Formed(g, 0) /\ Agrees(d, g)
    BY <1>1, <1>3, EntryDropped
  <1>5. g = [InUse EXCEPT ![x] = e]
    BY <1>1 DEF Tables
  <1>6. ctrl'.sector = ctrl.sector /\ ctrl'.free = ctrl.free
    BY <1>1 DEF CtrlType
  <1>7. /\ Formed([InUse EXCEPT ![x] = e], IF pc' = "w_key" THEN ctrl'.first_free ELSE 0)
        /\ Agrees(ctrl', [InUse EXCEPT ![x] = e])
    BY <1>4, <1>5
  <1> HIDE DEF e, g, d
  <1>8. FormInv' /\ CountInv' /\ InUse' = [InUse EXCEPT ![x] = e]
    BY <1>2, <1>6, <1>7, TableWritten DEF Appending
  <1> QED BY <1>4, <1>5, <1>6, <1>8

LEMMA EntriesRepaired ==
  ASSUME IInv, EInv, kved_data_consistency_check
  PROVE  EInv'
  <1> USE DEF Selecting, Formatting, InitLabels, SwitchLabels, Appending, Early, Late
  <1> DEFINE S == {q \in Slots : /\ q >= i
                                 /\ \/ HalfWritten(main[ctrl.sector].slot[q])
                                    \/ DuplicatedAhead(ctrl.sector, q)}
             x == ToDelete
  <1>1. /\ pc = "scan" /\ pc' = pc /\ call' = call /\ x # 0
        /\ main' = DeleteSlot(main, ctrl.sector, x) /\ i' = x + 1
    BY DEF kved_data_consistency_check
  <1>2. x = First(S)
    BY DEF ToDelete
  <1>3. x \in S /\ \A m \in S : x <= m
    <2>1. S \in SUBSET Slots
      OBVIOUS
    <2> QED BY <1>1, <1>2, <2>1, FirstIsLeast
  <1>4. \A n \in Slots : ~HalfWritten(main[ctrl.sector].slot[n])
    <2>1. Formed(main[ctrl.sector].slot, 0)
      BY <1>1, Typed DEF EInv, FormInv, Hole
    <2> QED BY <2>1 DEF Formed, HalfWritten, Slots
  <1>5. \A n \in Slots : DuplicatedAhead(ctrl.sector, n) <=> Superseded(InUse, n)
    <2>1. \A n \in Slots : InUse[n].k \in Keys \cup Markers
      BY Typed DEF Tables, Entries
    <2> QED BY <2>1, KeyKinds DEF DuplicatedAhead, Superseded, InUse
  <1>6. /\ x \in Slots /\ x >= i /\ Superseded(InUse, x)
        /\ \A n \in Slots : n >= i /\ Superseded(InUse, n) => x <= n
    BY <1>3, <1>4, <1>5
  <1> HIDE DEF S, x
  <1>7. ctrl' = [ctrl EXCEPT !.deleted = @ + 1, !.used = @ - 1]
    BY <1>4, <1>6 DEF kved_data_consistency_check, x
  <1>8. call.op = "init"
    BY <1>1, <1>6 DEF EInv, UniqueInv, Recovering, Unique
  <1>9. /\ FormInv' /\ CountInv' /\ InUse'[x].k = "deleted"
        /\ \A n \in Slots : n # x => InUse'[n] = InUse[n]
    BY <1>1, <1>6, <1>7, EntryDeleted DEF Superseded
  <1>10. \A n \in Slots : Superseded(InUse', n) => n >= x + 1
    <2> SUFFICES ASSUME NEW n \in Slots, Superseded(InUse', n) PROVE n >= x + 1
      OBVIOUS
    <2>1. n # x
      BY <1>9, KeyKinds DEF Superseded
    <2>2. Superseded(InUse, n)
      <3>1. PICK m \in Slots : n < m /\ InUse'[m].k = InUse'[n].k
        BY DEF Superseded
      <3>2. m # x
        BY <1>9, <3>1, KeyKinds DEF Superseded
      <3> QED BY <1>9, <2>1, <3>1, <3>2 DEF Superseded
    <2>3. n >= i
      BY <1>1, <2>2 DEF EInv, UniqueInv
    <2>4. x <= n
      BY <1>6, <2>2, <2>3
    <2> QED BY <1>6, <2>1, <2>4 DEF Slots
  <1> QED BY <1>1, <1>8, <1>9, <1>10 DEF EInv, ModeInv, RoomInv, OldInv, CopyInv, UniqueInv, Recovering

(* The value of a new entry.                                                *)
LEMMA SameKeys ==
  ASSUME NEW f, NEW g, \A n \in Slots : g[n].k = f[n].k
  PROVE  /\ \A K : Num(g, K) = Num(f, K)
         /\ \A k : Find(g, k) = Find(f, k)
         /\ Unique(f) => Unique(g)
  <1>1. \A K : {n \in Slots : g[n].k \in K} = {n \in Slots : f[n].k \in K}
    OBVIOUS
  <1>2. \A k : {n \in Slots : g[n].k = k} = {n \in Slots : f[n].k = k}
    OBVIOUS
  <1> QED BY <1>1, <1>2 DEF Num, Find, Unique, Superseded

LEMMA EntriesValue ==
  ASSUME IInv, EInv, WriteValue
  PROVE  EInv'
  <1> USE DEF Selecting, Formatting, InitLabels, SwitchLabels, Appending, Early, Late
  <1> DEFINE x == ctrl.first_free
             e == ProgramValue(InUse[x], EncodedValue)
             g == [InUse EXCEPT ![x] = e]
  <1>1. /\ pc = "w_val" /\ pc' = "w_key" /\ call' = call /\ old' = old /\ ctrl' = ctrl
        /\ main' = [main EXCEPT ![ctrl.sector].slot[x] = ProgramValue(@, EncodedValue)]
    BY DEF WriteValue, Goto, locals
  <1>2. main \in MainType /\ ctrl \in CtrlType /\ ctrl.sector \in Sectors /\ InUse \in Tables
    BY Typed
  <1>3. main' = [main EXCEPT ![ctrl.sector].slot[x] = e]
    BY <1>1, <1>2 DEF InUse, MainType
  <1>4. Formed(InUse, 0) /\ Agrees(ctrl, InUse) /\ ctrl.free > 0
    BY <1>1, <1>2 DEF EInv, FormInv, CountInv, RoomInv, InUse, Hole
  <1>5. x = Find(InUse, "free") /\ Num(InUse, {"free"}) > 0
    BY <1>4 DEF Agrees
  <1>6. x \in Slots /\ \A n \in Slots : (InUse[n].k = "free") <=> (n >= x)
    BY <1>2, <1>4, <1>5, FreeFrom
  <1>7. \A n \in Slots : g[n].k = InUse[n].k /\ (n # x => g[n] = InUse[n])
    BY <1>2, <1>6 DEF Tables, Entries, ProgramValue
  <1>8. Formed(g, x)
    BY <1>4, <1>6, <1>7 DEF Formed, Slots
  <1>9. Agrees(ctrl, g) /\ (Unique(InUse) => Unique(g))
    <2> HIDE DEF g, e
    <2>1. /\ \A K : Num(g, K) = Num(InUse, K)
          /\ \A k : Find(g, k) = Find(InUse, k)
          /\ Unique(InUse) => Unique(g)
      BY <1>7, SameKeys
    <2> QED BY <1>4, <2>1 DEF Agrees
  <1> HIDE DEF e
  <1>10. FormInv' /\ CountInv' /\ InUse' = g
    BY <1>1, <1>3, <1>8, <1>9, TableWritten
  <1> HIDE DEF g
  <1>11. UniqueInv'
    BY <1>1, <1>9, <1>10 DEF EInv, UniqueInv, Recovering
  <1>12. OldInv'
    BY <1>1, <1>7, <1>10 DEF EInv, OldInv
  <1> QED BY <1>1, <1>4, <1>10, <1>11, <1>12 DEF EInv, ModeInv, RoomInv, CopyInv

(* The key of a new entry, and the deletion of the one it replaces.         *)
LEMMA EntriesKey ==
  ASSUME IInv, EInv, WriteKey
  PROVE  EInv'
  <1> USE DEF Selecting, Formatting, InitLabels, SwitchLabels, Appending, Early, Late
  <1> DEFINE x == ctrl.first_free
             e == ProgramKey(InUse[x], call.key, call.type)
             g == [InUse EXCEPT ![x] = ProgramKey(@, call.key, call.type)]
             d == [ctrl EXCEPT !.free = @ - 1, !.used = @ + 1, !.first_free = @ + 1]
  <1>1. /\ pc = "w_key" /\ ctrl' = d
        /\ main' = [main EXCEPT ![ctrl.sector].slot[x] = ProgramKey(@, call.key, call.type)]
        /\ \/ old = 0 /\ pc' = "idle" /\ call'.op = "none"
           \/ old # 0 /\ pc' = "w_del" /\ call' = call /\ old' = old
    BY DEF WriteKey, Return, Goto, locals, NoCall
  <1>2. /\ main \in MainType /\ ctrl \in CtrlType /\ ctrl.sector \in Sectors /\ InUse \in Tables
        /\ call.key \in Keys /\ call.op = "write" /\ call.type \in Types \cup {"none"}
    BY <1>1, Typed DEF CallType, IInv, CallInv, EInv, ModeInv
  <1>3. main' = [main EXCEPT ![ctrl.sector].slot[x] = e]
    BY <1>1, <1>2 DEF InUse, MainType
  <1>4. Formed(InUse, x) /\ Agrees(ctrl, InUse) /\ ctrl.free > 0
    BY <1>1, <1>2 DEF EInv, FormInv, CountInv, RoomInv, InUse, Hole
  <1>5. /\ x \in Slots /\ \A n \in Slots : (InUse[n].k = "free") <=> (n >= x)
        /\ g[x].k = call.key /\ \A n \in Slots : n # x => g[n] = InUse[n]
        /\ Formed(g, 0) /\ Agrees(d, g)
    <2>1. LET gg == [InUse EXCEPT ![x] = ProgramKey(@, call.key, call.type)]
              dd == [ctrl EXCEPT !.free = @ - 1, !.used = @ + 1, !.first_free = @ + 1]
          IN  /\ x \in Slots /\ InUse[x].k = "free" /\ x = Find(InUse, "free")
              /\ \A n \in Slots : InUse[n].k = "free" <=> n >= x
              /\ gg \in Tables /\ gg[x] = [k |-> call.key, t |-> call.type, v |-> InUse[x].v]
              /\ \A n \in Slots : n # x => gg[n] = InUse[n]
              /\ Formed(gg, 0) /\ Agrees(dd, gg)
      BY <1>2, <1>4, KeyWritten
    <2> QED BY <2>1
  <1>6. g = [InUse EXCEPT ![x] = e]
    BY <1>2, <1>5 DEF Tables
  <1>7. d.sector = ctrl.sector /\ d.first_free = x + 1
    BY <1>2 DEF CtrlType
  <1> HIDE DEF e, g, d
  <1>8. FormInv' /\ CountInv' /\ InUse' = g
    BY <1>1, <1>3, <1>5, <1>6, <1>7, TableWritten
  <1>9. /\ Unique(InUse)
        /\ \A n \in Slots : (InUse[n].k = call.key) <=> (n = old)
    BY <1>1, <1>2 DEF EInv, UniqueInv, OldInv, Recovering
  <1>10. \A n \in Slots : Superseded(g, n) => n = old
    <2> SUFFICES ASSUME NEW n \in Slots, Superseded(g, n) PROVE n = old
      OBVIOUS
    <2>1. PICK m \in Slots : n < m /\ g[m].k = g[n].k
      BY DEF Superseded
    <2>2. n # x
      <3>1. n = x => InUse[m].k = "free" /\ g[m] = InUse[m]
        BY <1>5, <2>1 DEF Slots
      <3> QED BY <2>1, <3>1, KeyKinds DEF Superseded
    <2>3. m = x
      BY <1>5, <1>9, <2>1, <2>2 DEF Unique, Superseded
    <2> QED BY <1>5, <1>9, <2>1, <2>2, <2>3
  <1>11. CASE old = 0
    <2>1. Unique(g)
      BY <1>10, <1>11 DEF Unique, Slots
    <2> QED BY <1>1, <1>8, <1>11, <2>1 DEF EInv, ModeInv, RoomInv, OldInv, CopyInv, UniqueInv, Recovering
  <1>12. CASE old # 0
    <2>1. \A n \in Slots : (g[n].k = call.key) <=> (n = old \/ n = d.first_free - 1)
      BY <1>5, <1>7, <1>9 DEF Slots
    <2> QED BY <1>1, <1>2, <1>8, <1>10, <1>12, <2>1 DEF EInv, ModeInv, RoomInv, OldInv, CopyInv, UniqueInv, Recovering
  <1> QED BY <1>11, <1>12

LEMMA EntriesDeleted ==
  ASSUME IInv, EInv, WriteDeleteOld \/ kved_internal_data_delete
  PROVE  EInv'
  <1> USE DEF Selecting, Formatting, InitLabels, SwitchLabels, Appending, Early, Late
  <1>1. CASE kved_internal_data_delete /\ ~(kved_is_valid_key(call.key) /\ Found # 0)
    <2>1. pc = "delete" /\ pc' = "idle" /\ call'.op = "none" /\ main' = main /\ ctrl' = ctrl
      BY <1>1 DEF kved_internal_data_delete, Return, NoCall
    <2>2. FormInv' /\ CountInv' /\ InUse' = InUse
      BY <2>1, QuietForm DEF SameCounts
    <2> QED BY <2>1, <2>2 DEF EInv, ModeInv, RoomInv, OldInv, CopyInv, UniqueInv, Recovering
  <1>2. ASSUME NEW x \in Slots, InUse[x].k \in Keys, pc \in {"w_del", "delete"},
               main' = DeleteSlot(main, ctrl.sector, x), pc' = "idle", call'.op = "none",
               ctrl' = [ctrl EXCEPT !.deleted = @ + 1, !.used = @ - 1],
               \A n \in Slots : Superseded(InUse, n) => n = x
        PROVE  EInv'
    <2>1. /\ FormInv' /\ CountInv' /\ InUse'[x].k = "deleted"
          /\ \A n \in Slots : n # x => InUse'[n] = InUse[n]
      BY <1>2, EntryDeleted
    <2>2. Unique(InUse')
      BY <1>2, <2>1, KeyKinds DEF Unique, Superseded
    <2> QED BY <1>2, <2>1, <2>2 DEF EInv, ModeInv, RoomInv, OldInv, CopyInv, UniqueInv, Recovering
  <1>3. CASE WriteDeleteOld
    <2>1. pc = "w_del" /\ old # 0 /\ old \in Slots
      BY <1>3, Typed DEF WriteDeleteOld, EInv, OldInv, Slots
    <2>2. call.key \in Keys /\ InUse[old].k = call.key /\ \A n \in Slots : Superseded(InUse, n) => n = old
      BY <2>1 DEF IInv, CallInv, EInv, OldInv, UniqueInv
    <2> QED BY <1>2, <1>3, <2>1, <2>2 DEF WriteDeleteOld, Return, NoCall
  <1>4. CASE kved_internal_data_delete /\ kved_is_valid_key(call.key) /\ Found # 0
    <2>1. pc = "delete" /\ Unique(InUse)
      BY <1>4 DEF kved_internal_data_delete, EInv, UniqueInv, Recovering
    <2> DEFINE S == {n \in Slots : InUse[n].k = call.key}
    <2>2. Found = First(S)
      BY DEF Found, kved_key_index_find, InUse
    <2>3. Found \in S
      <3>1. S \in SUBSET Slots
        OBVIOUS
      <3> QED BY <1>4, <2>2, <3>1, FirstIsLeast
    <2>4. Found \in Slots /\ InUse[Found].k \in Keys
      <3>1. InUse[Found].k \in Keys \cup Markers /\ InUse[Found].k = call.key
        BY <2>3, Typed DEF Tables, Entries
      <3> QED BY <1>4, <2>3, <3>1, KeyKinds
    <2>5. /\ main' = DeleteSlot(main, ctrl.sector, Found) /\ pc' = "idle" /\ call'.op = "none"
          /\ ctrl' = [ctrl EXCEPT !.deleted = @ + 1, !.used = @ - 1]
      BY <1>4 DEF kved_internal_data_delete, Return, NoCall
    <2> QED BY <1>2, <2>1, <2>4, <2>5 DEF Unique
  <1> QED BY <1>1, <1>3, <1>4

(* The sector switch: erasing ...                                           *)
LEMMA EntriesErased ==
  ASSUME IInv, EInv, SwitchErase
  PROVE  EInv'
  <1> USE DEF Selecting, Formatting, InitLabels, SwitchLabels, Appending, Early, Late, Goto
  <1>1. /\ main \in MainType /\ ctrl.sector \in Sectors /\ Other(ctrl.sector) \in Sectors
        /\ Other(ctrl.sector) # ctrl.sector
    BY Typed
  <1>2. ctrl' = ctrl /\ call' = call /\ old' = old /\ i' = 1 /\ nxt' = 1
    BY DEF SwitchErase
  <1>3. CASE pc = "sw_erase"
    <2>1. pc' = "sw_strerase" /\ main' = [main EXCEPT ![Other(ctrl.sector)] = ErasedMain]
      BY <1>3 DEF SwitchErase
    <2>2. InUse' = InUse /\ Spare' = EmptyTable
      BY <1>1, <1>2, <2>1 DEF InUse, Spare, MainType, ErasedMain, EmptyTable
    <2>3. \A s \in Sectors : Signed(s)' => s = ctrl.sector
      <3>1. main'[Other(ctrl.sector)].sig = "free"
        BY <1>1, <2>1 DEF MainType, ErasedMain
      <3>2. \A s \in Sectors : s = ctrl.sector \/ s = Other(ctrl.sector)
        BY <1>1 DEF Sectors, Other
      <3> QED BY <3>1, <3>2 DEF Signed
    <2>4. FormInv' /\ CountInv'
      BY <1>1, <1>2, <1>3, <2>1, <2>2, <2>3 DEF EInv, FormInv, CountInv, InUse, Hole
    <2> QED BY <1>2, <1>3, <2>1, <2>2, <2>4 DEF EInv, ModeInv, RoomInv, OldInv, CopyInv, UniqueInv, Recovering
  <1>4. CASE pc # "sw_erase"
    <2>1. pc = "sw_strerase" /\ pc' = "sw_copy" /\ main' = main
      BY <1>4 DEF SwitchErase
    <2>2. FormInv' /\ CountInv' /\ InUse' = InUse /\ Spare' = Spare
      BY <1>2, <2>1, QuietForm DEF SameCounts
    <2>3. Spare' = EmptyTable
      BY <2>1, <2>2 DEF EInv, FormInv
    <2>4. CopyInv'
      <3>1. \A n \in Slots : Spare'[n] = FreeSlot /\ ~(n < 1)
        BY <2>3 DEF EmptyTable, Slots
      <3>2. Unique(Spare')
        BY <3>1, KeyKinds DEF Unique, Superseded, FreeSlot
      <3> QED BY <1>2, <3>1, <3>2 DEF CopyInv
    <2> QED BY <1>2, <2>1, <2>2, <2>4 DEF EInv, ModeInv, RoomInv, OldInv, UniqueInv, Recovering
  <1> QED BY <1>3, <1>4

(* ... copying ...                                                          *)
LEMMA EntriesCopied ==
  ASSUME IInv, EInv, SwitchCopy
  PROVE  EInv'
  <1> USE DEF Selecting, Formatting, InitLabels, SwitchLabels, Appending, Early, Late, Goto
  <1>1. /\ main \in MainType /\ ctrl.sector \in Sectors /\ Other(ctrl.sector) \in Sectors
        /\ Other(ctrl.sector) # ctrl.sector /\ InUse \in Tables /\ Spare \in Tables
        /\ nxt \in Nat
    BY Typed
  <1>2. /\ pc = "sw_copy" /\ pc' = pc /\ ctrl' = ctrl /\ call' = call /\ old' = old
        /\ i \in Slots /\ i' = i + 1
    BY DEF SwitchCopy
  <1>3. /\ nxt \in 1 .. i /\ nxt \in Slots
        /\ \A n \in Slots : n >= nxt => Spare[n] = FreeSlot
        /\ \A n \in Slots : n < nxt =>
             Spare[n].k \in Keys /\ \E j \in Slots : j < i /\ InUse[j].k = Spare[n].k
        /\ (\E j \in Slots : j < i /\ InUse[j].k \notin Keys) => nxt < i
        /\ Unique(Spare) /\ Unique(InUse)
    BY <1>2 DEF EInv, CopyInv, UniqueInv, ModeInv, Recovering, Slots
  <1>4. \A s \in Sectors : Signed(s) => s = ctrl.sector
    BY <1>1, <1>2 DEF IInv, SectorInv, BothSigned, Sectors, Other
  <1>5. Formed(InUse, 0) /\ Agrees(ctrl, InUse)
    BY <1>1, <1>2 DEF EInv, FormInv, CountInv, InUse, Hole
  <1>6. (kved_is_valid_key(InUse[i].k)) <=> (InUse[i].k \in Keys)
    BY <1>1, <1>2, KeyKinds DEF Tables, Entries
  <1>7. CASE InUse[i].k \notin Keys
    <2>1. main' = main /\ nxt' = nxt
      BY <1>2, <1>6, <1>7 DEF SwitchCopy, InUse, flash
    <2>2. FormInv' /\ CountInv' /\ InUse' = InUse /\ Spare' = Spare
      BY <1>2, <2>1, QuietForm DEF SameCounts
    <2>3. CopyInv'
      BY <1>2, <1>3, <2>1, <2>2 DEF CopyInv, Slots
    <2> QED BY <1>2, <2>1, <2>2, <2>3 DEF EInv, ModeInv, RoomInv, OldInv, UniqueInv, Recovering
  <1>8. CASE InUse[i].k \in Keys
    <2>1. PICK e : /\ main' = [main EXCEPT ![Other(ctrl.sector)].slot[nxt] = e]
                   /\ nxt' = nxt + 1 /\ e.k = InUse[i].k
      <3>1. CASE InUse[i].t = "str"
        <4> DEFINE e == [k |-> InUse[i].k, t |-> InUse[i].t, v |-> CopiedIndex(InUse[i])]
        <4>1. main' = [main EXCEPT ![Other(ctrl.sector)].slot[nxt] = e] /\ nxt' = nxt + 1
          BY <1>2, <1>6, <1>8, <3>1 DEF SwitchCopy, InUse
        <4>2. e.k = InUse[i].k
          OBVIOUS
        <4> HIDE DEF e
        <4> QED BY <4>1, <4>2
      <3>2. CASE InUse[i].t # "str"
        <4> DEFINE e == [k |-> InUse[i].k, t |-> InUse[i].t, v |-> CopiedNumber(InUse[i])]
        <4>1. main' = [main EXCEPT ![Other(ctrl.sector)].slot[nxt] = e] /\ nxt' = nxt + 1
          BY <1>2, <1>6, <1>8, <3>2 DEF SwitchCopy, InUse
        <4>2. e.k = InUse[i].k
          OBVIOUS
        <4> HIDE DEF e
        <4> QED BY <4>1, <4>2
      <3> QED BY <3>1, <3>2
    <2>2. /\ InUse' = InUse /\ Spare' = [Spare EXCEPT ![nxt] = e]
          /\ \A s \in Sectors : Signed(s)' => Signed(s)
      BY <1>1, <1>2, <2>1 DEF InUse, Spare, MainType, Signed
    <2>3. FormInv' /\ CountInv'
      BY <1>2, <1>4, <1>5, <2>2 DEF FormInv, CountInv, InUse, Hole
    <2>4. /\ Spare'[nxt] = e
          /\ \A n \in Slots : n # nxt => Spare'[n] = Spare[n]
      BY <1>1, <1>3, <2>2 DEF Tables
    <2>5. Unique(Spare')
      <3> SUFFICES ASSUME NEW n \in Slots, Superseded(Spare', n) PROVE FALSE
        BY DEF Unique
      <3>1. PICK m \in Slots : n < m /\ Spare'[m].k = Spare'[n].k /\ Spare'[n].k \in Keys
        BY DEF Superseded
      <3>2. m <= nxt
        <4>1. m > nxt => Spare'[m] = FreeSlot
          BY <1>3, <2>4 DEF Slots
        <4> QED BY <3>1, <4>1, <1>3, KeyKinds DEF FreeSlot, Slots
      <3>3. CASE m = nxt
        <4>1. n < nxt /\ Spare[n].k = InUse[i].k
          BY <2>1, <2>4, <3>1, <3>3 DEF Slots
        <4>2. PICK j \in Slots : j < i /\ InUse[j].k = Spare[n].k
          BY <1>3, <4>1
        <4>3. Superseded(InUse, j)
          BY <1>2, <1>8, <4>1, <4>2 DEF Superseded
        <4> QED BY <1>3, <4>3 DEF Unique
      <3>4. CASE m < nxt
        <4>1. Spare'[m] = Spare[m] /\ Spare'[n] = Spare[n]
          BY <2>4, <3>1, <3>4 DEF Slots
        <4>2. Superseded(Spare, n)
          BY <3>1, <4>1 DEF Superseded
        <4> QED BY <1>3, <4>2 DEF Unique
      <3> QED BY <1>3, <3>2, <3>3, <3>4 DEF Slots
    <2>6. \A n \in Slots : n < nxt + 1 =>
            Spare'[n].k \in Keys /\ \E j \in Slots : j < i + 1 /\ InUse[j].k = Spare'[n].k
      <3> SUFFICES ASSUME NEW n \in Slots, n < nxt + 1
                   PROVE  Spare'[n].k \in Keys /\ \E j \in Slots : j < i + 1 /\ InUse[j].k = Spare'[n].k
        OBVIOUS
      <3>1. CASE n = nxt
        <4>1. Spare'[n].k = InUse[i].k /\ i < i + 1
          BY <1>2, <2>1, <2>4, <3>1 DEF Slots
        <4> QED BY <1>2, <1>8, <4>1
      <3>2. CASE n # nxt
        <4>1. n < nxt /\ Spare'[n] = Spare[n]
          BY <1>3, <2>4, <3>2 DEF Slots
        <4>2. Spare[n].k \in Keys /\ \E j \in Slots : j < i /\ InUse[j].k = Spare[n].k
          BY <1>3, <4>1
        <4>3. \A j \in Slots : j < i => j < i + 1
          BY <1>2 DEF Slots
        <4> QED BY <4>1, <4>2, <4>3
      <3> QED BY <3>1, <3>2
    <2>7. CopyInv'
      <3>1. nxt' \in 1 .. i'
        BY <1>2, <1>3, <2>1 DEF Slots
      <3>2. \A n \in Slots : n >= nxt' => Spare'[n] = FreeSlot
        BY <1>3, <2>1, <2>4 DEF Slots
      <3>3. (\E j \in Slots : j < i' /\ InUse'[j].k \notin Keys) => nxt' < i'
        <4> SUFFICES ASSUME NEW j \in Slots, j < i + 1, InUse[j].k \notin Keys PROVE nxt + 1 < i + 1
          BY <1>2, <2>1, <2>2
        <4>1. j < i
          BY <1>2, <1>8 DEF Slots
        <4>2. nxt < i
          BY <1>3, <4>1
        <4> QED BY <1>2, <1>3, <4>2 DEF Slots
      <3> QED BY <1>2, <2>1, <2>2, <2>5, <2>6, <3>1, <3>2, <3>3 DEF CopyInv
    <2> QED BY <1>2, <2>2, <2>3, <2>7 DEF EInv, ModeInv, RoomInv, OldInv, UniqueInv, Recovering
  <1> QED BY <1>7, <1>8

(* ... adopting the copy, and the writes that make it the only sector.      *)
LEMMA EntriesAdopted ==
  ASSUME IInv, EInv, SwitchAdopt
  PROVE  EInv'
  <1> USE DEF Selecting, Formatting, InitLabels, SwitchLabels, Appending, Early, Late, Goto
  <1>1. /\ main \in MainType /\ ctrl.sector \in Sectors /\ Other(ctrl.sector) \in Sectors
        /\ Other(ctrl.sector) # ctrl.sector /\ InUse \in Tables /\ Spare \in Tables
        /\ nxt \in Nat
    BY Typed
  <1>2. /\ pc = "sw_copy" /\ pc' = "sw_sig" /\ call' = call /\ old' = old
        /\ i = NumEntries + 1
        /\ ctrl'.sector = Other(ctrl.sector) /\ ctrl'.first_free = nxt /\ ctrl'.used = nxt - 1
        /\ ctrl'.deleted = 0 /\ ctrl'.free = NumEntries - (nxt - 1)
    BY Typed DEF SwitchAdopt, locals, Slots
  <1>3. /\ nxt \in 1 .. i
        /\ \A n \in Slots : n >= nxt => Spare[n] = FreeSlot
        /\ \A n \in Slots : n < nxt =>
             Spare[n].k \in Keys /\ \E j \in Slots : j < i /\ InUse[j].k = Spare[n].k
        /\ (\E j \in Slots : j < i /\ InUse[j].k \notin Keys) => nxt < i
        /\ Unique(Spare)
    BY <1>2 DEF EInv, CopyInv
  <1>4. \A s \in Sectors : main'[s].slot = main[s].slot /\ main'[s].sig = main[s].sig
    BY <1>1 DEF SwitchAdopt, MainType
  <1>5. InUse' = Spare
    BY <1>1, <1>2, <1>4 DEF InUse, Spare
  <1>6. Formed(Spare, 0) /\ Agrees(ctrl', Spare)
    <2>1. nxt \in 1 .. NumEntries + 1
      BY <1>2, <1>3
    <2> QED BY <1>1, <1>2, <1>3, <2>1, CopyCounted
  <1>7. FormInv' /\ CountInv'
    <2>1. \A s \in Sectors : Formed(main[s].slot, 0)
      <3>1. \A s \in Sectors : s = ctrl.sector \/ s = Other(ctrl.sector)
        BY <1>1 DEF Sectors, Other
      <3>2. Formed(main[ctrl.sector].slot, 0)
        BY <1>1, <1>2 DEF EInv, FormInv, Hole
      <3> QED BY <1>6, <3>1, <3>2 DEF Spare
    <2>2. FormInv'
      BY <1>2, <1>4, <2>1 DEF FormInv, Hole
    <2> QED BY <1>2, <1>5, <1>6, <2>2 DEF CountInv
  <1>8. RoomInv'
    <2> SUFFICES ASSUME call.op = "write" PROVE NumEntries - (nxt - 1) > 0
      BY <1>2 DEF RoomInv
    <2>1. PICK n \in Slots : InUse[n].k \notin Keys
      BY <1>2 DEF EInv, RoomInv
    <2>2. n < i
      BY <1>2 DEF Slots
    <2>3. nxt < i
      BY <1>3, <2>1, <2>2
    <2> QED BY <1>1, <1>2, <2>3
  <1>9. OldInv'
    <2> SUFFICES ASSUME call.op = "write", old = 0, NEW n \in Slots PROVE Spare[n].k # call.key
      BY <1>2, <1>5 DEF OldInv
    <2>1. call.key \in Keys
      BY <1>2 DEF IInv, CallInv
    <2>2. \A j \in Slots : InUse[j].k # call.key
      BY <1>2 DEF EInv, OldInv, Slots
    <2>3. n >= nxt => Spare[n].k = "free"
      BY <1>3 DEF FreeSlot
    <2> QED BY <1>3, <2>1, <2>2, <2>3, KeyKinds DEF Slots
  <1> QED BY <1>2, <1>3, <1>5, <1>7, <1>8, <1>9 DEF EInv, ModeInv, CopyInv, UniqueInv, Recovering

LEMMA EntriesSigned ==
  ASSUME IInv, EInv, SwitchSign \/ SwitchSignString \/ SwitchInvalidate
  PROVE  EInv'
  <1> USE DEF Selecting, Formatting, InitLabels, SwitchLabels, Appending, Early, Late, Goto
  <1>1. main \in MainType /\ ctrl.sector \in Sectors
    BY Typed
  <1>2. /\ pc \in {"sw_sig", "sw_strsig", "sw_strend", "sw_inval"}
        /\ pc' \in {"sw_strsig", "sw_strend", "sw_inval", "check"}
        /\ ctrl' = ctrl /\ call' = call /\ old' = old
    BY DEF SwitchSign, SwitchSignString, SwitchInvalidate, locals
  <1>3. \A s \in Sectors : main'[s].slot = main[s].slot /\ (Signed(s)' => Signed(s) \/ s = ctrl.sector)
    <2>1. CASE SwitchSign
      BY <1>1, <2>1 DEF SwitchSign, Sign, MainType, Signed
    <2>2. CASE SwitchSignString
      BY <2>2 DEF SwitchSignString, Signed
    <2>3. CASE SwitchInvalidate
      BY <1>1, <2>3 DEF SwitchInvalidate, Unsign, MainType, Signed
    <2> QED BY <2>1, <2>2, <2>3
  <1>4. InUse' = InUse
    BY <1>1, <1>2, <1>3 DEF InUse
  <1>5. FormInv' /\ CountInv'
    BY <1>1, <1>2, <1>3, <1>4 DEF EInv, FormInv, CountInv, Hole
  <1> QED BY <1>2, <1>4, <1>5 DEF EInv, ModeInv, RoomInv, OldInv, CopyInv, UniqueInv, Recovering

LEMMA InitEInv == Init => EInv
  <1> SUFFICES ASSUME Init PROVE EInv
    OBVIOUS
  <1> USE DEF Selecting, Formatting, InitLabels, SwitchLabels, Appending, Early, Late
  <1>1. pc = "off" /\ call.op = "none" /\ \A s \in Sectors : ~Signed(s)
    BY DEF Init, NoCall, Signed, ErasedMain
  <1> QED BY <1>1 DEF EInv, FormInv, CountInv, ModeInv, RoomInv, OldInv, CopyInv, UniqueInv, Recovering

LEMMA EntriesStep ==
  ASSUME WholeEntries, IInv, EInv, [Next]_vars
  PROVE  EInv'
  <1>1. CASE UNCHANGED vars
    BY <1>1 DEF vars, EInv, FormInv, CountInv, ModeInv, RoomInv, OldInv, CopyInv, UniqueInv,
                Recovering, InUse, Spare, Hole, Signed
  <1>2. CASE kved_sector_consistency_check \/ InitIndexSector \/ InitFormatIndex
    BY <1>2, EntriesSelected
  <1>3. CASE InitStringSector \/ InitFormatString \/ kved_string_consistency_check
    BY <1>3, EntriesString
  <1>4. CASE kved_data_consistency_check
    BY <1>4, EntriesRepaired
  <1>5. CASE ConsistencyCheckDone
    BY <1>5, EntriesChecked
  <1>6. CASE Client \/ WriteRejected \/ WriteUnchanged \/ kved_dump
    BY <1>6, EntriesCalls
  <1>7. CASE WriteFull \/ WriteSwitch \/ WriteAppend
    BY <1>7, EntriesWriting
  <1>8. CASE WriteStringIndex \/ WriteStringData
    BY <1>8, EntriesText
  <1>9. CASE WriteValue
    BY <1>9, EntriesValue
  <1>10. CASE WriteKey
    BY <1>10, EntriesKey
  <1>11. CASE WriteDeleteOld \/ kved_internal_data_delete
    BY <1>11, EntriesDeleted
  <1>12. CASE SwitchErase
    BY <1>12, EntriesErased
  <1>13. CASE SwitchCopy
    BY <1>13, EntriesCopied
  <1>14. CASE SwitchAdopt
    BY <1>14, EntriesAdopted
  <1>15. CASE SwitchSign \/ SwitchSignString \/ SwitchInvalidate
    BY <1>15, EntriesSigned
  <1>16. CASE kved_deinit \/ PowerCut
    BY <1>16, EntriesOff
  <1> QED
    BY <1>1, <1>2, <1>3, <1>4, <1>5, <1>6, <1>7, <1>8, <1>9, <1>10, <1>11, <1>12, <1>13, <1>14,
       <1>15, <1>16 DEF Next, Step

THEOREM EntriesInvariant ==
  ASSUME WholeEntries
  PROVE  Spec => []EInv
  <1>1. Init => EInv
    BY InitEInv
  <1>2. IInv /\ EInv /\ [Next]_vars => EInv'
    BY EntriesStep
  <1> QED BY <1>1, <1>2, InductiveInvariant, PTL DEF Spec

(* Between calls the counters in RAM agree with the flash, and the next     *)
(* entry goes to the first free slot, whatever calls, sector switches and   *)
(* losses of power came before (ctrl->stats and first_free_index).          *)
THEOREM StatsExactCorrect ==
  ASSUME WholeEntries
  PROVE  Spec => []StatsExact
  <1>1. EInv => StatsExact
    BY DEF EInv, CountInv, Agrees, StatsExact, Selecting, Formatting, InUse, Num, Find,
           Count, kved_key_index_find
  <1> QED BY <1>1, EntriesInvariant, PTL

-----------------------------------------------------------------------------
(* The database as a dictionary.  The values of strings do not survive a    *)
(* restart (README, deviations): the clients write numbers only.            *)
NumbersOnly == \A k \in Keys : "str" \notin KeyTypes[k]

(* What a table says of a key: the last entry counts.                       *)
ContentOf(f, k) ==
  LET n == Last({m \in Slots : f[m].k = k})
  IN  IF n = 0 THEN NoEntry ELSE [type |-> f[n].t, val |-> f[n].v]
Content(f) == [k \in Keys |-> ContentOf(f, k)]

NumInv ==
  /\ call.op = "write" => call.type = "num"
  /\ \A s \in Sectors : \A n \in Slots : main[s].slot[n].k \in Keys => main[s].slot[n].t = "num"

(* The entry that the running write wants, and what a switch makes of the   *)
(* entries of the original.                                                 *)
Wanted == [k |-> call.key, t |-> call.type, v |-> call.val]
CopyOf(c, e) == [e EXCEPT !.v = IF c.op = "write" /\ e.k = c.key THEN c.val ELSE @]
Renewed == call.op = "write" /\ old # 0

(* The values of the entries that a call has written.                       *)
DataInv ==
  /\ pc = "full" => ctrl.used = NumEntries /\ \A n \in Slots : InUse[n] # Wanted
  /\ pc = "w_key" => InUse[ctrl.first_free].v = call.val
  /\ pc = "w_del" => /\ ctrl.first_free - 1 \in Slots /\ old < ctrl.first_free - 1
                     /\ InUse[ctrl.first_free - 1] = Wanted
  /\ pc = "sw_copy" =>
       /\ \A n \in Slots : n < nxt =>
            \E j \in Slots : j < i /\ InUse[j].k \in Keys /\ Spare[n] = CopyOf(call, InUse[j])
       /\ \A j \in Slots : j < i /\ InUse[j].k \in Keys =>
            \E n \in Slots : n < nxt /\ Spare[n] = CopyOf(call, InUse[j])
  /\ pc = "sw_sig" =>
       /\ \A n \in Slots : InUse[n].k \in Keys =>
            \E j \in Slots : Spare[j].k \in Keys /\ InUse[n] = CopyOf(call, Spare[j])
       /\ \A j \in Slots : Spare[j].k \in Keys =>
            \E n \in Slots : InUse[n] = CopyOf(call, Spare[j])
       /\ Unique(Spare)
       /\ call.op = "write" => \A n \in Slots : (Spare[n].k = call.key) <=> (n = old)
  /\ Renewed /\ pc \in Late => \E n \in Slots : InUse[n] = Wanted

(* The string sector of the copy is signed before the call goes on.         *)
TextInv ==
  /\ pc = "sw_copy" => str[Other(ctrl.str_sector)] = ErasedStr
  /\ pc \in {"sw_sig", "sw_strsig"} => str[ctrl.str_sector] = ErasedStr
  /\ pc = "sw_strend" => /\ str[ctrl.str_sector][0] = START
                         /\ str[ctrl.str_sector][NumEntries + 1] = FREE
  /\ pc = "sw_inval" \/ (pc = "check" /\ call.op # "init") => StrSigned(ctrl.str_sector)

DInv == NumInv /\ DataInv /\ TextInv

LEMMA InitDInv == Init => DInv
  <1> SUFFICES ASSUME Init PROVE DInv
    OBVIOUS
  <1>1. pc = "off" /\ call.op = "none"
    BY DEF Init, NoCall
  <1>2. \A s \in Sectors : \A n \in Slots : main[s].slot[n].k = "free"
    BY DEF Init, ErasedMain, FreeSlot
  <1>3. NumInv
    BY <1>1, <1>2, KeyKinds DEF NumInv
  <1> QED BY <1>1, <1>3 DEF DInv, DataInv, TextInv, Late, Early, SwitchLabels, Renewed

(* What a step does to the entries: nothing, or it writes one, or it erases *)
(* a sector; and what becomes of the call.                                  *)
Rewritten == \E s \in Sectors : \E x : \E e :
  main' = [main EXCEPT ![s].slot[x] = e] /\ (e.k \in Keys => e.t = "num")
EntriesKept == \A s \in Sectors : main'[s].slot = main[s].slot
Erased == \E s \in Sectors : main' = [main EXCEPT ![s] = ErasedMain]

LEMMA NumKept ==
  ASSUME NumbersOnly, IInv, EInv, NumInv, Next
  PROVE  EntriesKept \/ Rewritten \/ Erased
  <1>a. main \in MainType /\ ctrl.sector \in Sectors /\ Other(ctrl.sector) \in Sectors
    BY Typed
  <1>1. CASE kved_sector_consistency_check
    BY <1>a, <1>1 DEF kved_sector_consistency_check, EntriesKept, MainType
  <1>2. CASE \/ InitIndexSector \/ InitStringSector \/ InitFormatString
             \/ kved_string_consistency_check \/ ConsistencyCheckDone
    BY <1>2 DEF InitIndexSector, InitStringSector, InitFormatString,
                kved_string_consistency_check, ConsistencyCheckDone, EntriesKept, flash
  <1>3. CASE InitFormatIndex
    BY <1>a, <1>3 DEF InitFormatIndex, Sign, EntriesKept, Erased, MainType, Sectors
  <1>4. CASE Client
    BY <1>4 DEF Client, kved_data_write, kved_data_delete, kved_compact_database, Enter,
                kved_data_read, EntriesKept, flash
  <1>5. CASE WriteRejected \/ WriteUnchanged \/ WriteFull \/ WriteSwitch \/ WriteAppend
    BY <1>5 DEF WriteRejected, WriteUnchanged, WriteFull, WriteSwitch, WriteAppend, EntriesKept,
                flash
  <1>6. CASE kved_dump \/ WriteStringIndex \/ WriteStringData
    BY <1>6 DEF kved_dump, WriteStringIndex, WriteStringData, EntriesKept, flash
  <1>7. ASSUME NEW s \in Sectors, NEW x \in Slots, main' = DeleteSlot(main, s, x)
        PROVE  Rewritten
    <2> DEFINE e == [main[s].slot[x] EXCEPT !.k = "deleted", !.t = "none"]
    <2>1. main' = [main EXCEPT ![s].slot[x] = e]
      BY <1>a, <1>7 DEF DeleteSlot, MainType
    <2>2. e.k = "deleted"
      BY <1>a DEF MainType, Entries
    <2> QED BY <2>1, <2>2, KeyKinds DEF Rewritten
  <1>8. CASE kved_data_consistency_check
    BY <1>a, <1>7, <1>8, ToDeleteType DEF kved_data_consistency_check, Slots
  <1>9. CASE WriteDeleteOld
    BY <1>a, <1>7, <1>9, Typed DEF WriteDeleteOld, EInv, OldInv, Slots
  <1>10. CASE kved_internal_data_delete
    <2>1. Found \in 0 .. NumEntries
      BY FindType DEF Found
    <2> QED BY <1>a, <1>7, <1>10, <2>1 DEF kved_internal_data_delete, EntriesKept, Slots
  <1>11. CASE WriteValue \/ WriteKey
    <2> DEFINE x == ctrl.first_free
    <2>1. /\ pc \in {"w_val", "w_key"}
          /\ \/ main' = [main EXCEPT ![ctrl.sector].slot[x] = ProgramValue(@, EncodedValue)]
             \/ main' = [main EXCEPT ![ctrl.sector].slot[x] = ProgramKey(@, call.key, call.type)]
      BY <1>11 DEF WriteValue, WriteKey
    <2>2. /\ Agrees(ctrl, InUse) /\ ctrl.free > 0 /\ InUse \in Tables /\ call.type = "num"
          /\ Formed(InUse, Hole)
      BY <1>a, <2>1, Typed DEF EInv, CountInv, RoomInv, Selecting, Formatting, Appending, NumInv,
                               FormInv, InUse, ModeInv
    <2>3. x \in Slots /\ InUse[x].k = "free"
      <3>1. Num(InUse, {"free"}) > 0 /\ x = Find(InUse, "free")
        BY <2>2 DEF Agrees
      <3>2. Find(InUse, "free") \in Slots
            /\ \A n \in Slots : (InUse[n].k = "free") <=> (n >= Find(InUse, "free"))
        BY <2>2, <3>1, FreeFrom
      <3> QED BY <3>1, <3>2 DEF Slots
    <2>4. InUse[x] \in Entries
      BY <2>2, <2>3 DEF Tables
    <2>5. CASE main' = [main EXCEPT ![ctrl.sector].slot[x] = ProgramValue(@, EncodedValue)]
      <3> DEFINE e == ProgramValue(InUse[x], EncodedValue)
      <3>1. main' = [main EXCEPT ![ctrl.sector].slot[x] = e]
        BY <1>a, <2>5 DEF InUse, MainType
      <3>2. e.k = "free"
        BY <2>3, <2>4 DEF ProgramValue, Entries
      <3> QED BY <1>a, <3>1, <3>2, KeyKinds DEF Rewritten
    <2>6. CASE main' = [main EXCEPT ![ctrl.sector].slot[x] = ProgramKey(@, call.key, call.type)]
      <3> DEFINE e == ProgramKey(InUse[x], call.key, call.type)
      <3>1. main' = [main EXCEPT ![ctrl.sector].slot[x] = e]
        BY <1>a, <2>6 DEF InUse, MainType
      <3>2. e.t = "num"
        BY <2>2, <2>3, <2>4 DEF ProgramKey, Entries
      <3> QED BY <1>a, <3>1, <3>2 DEF Rewritten
    <2> QED BY <2>1, <2>5, <2>6
  <1>12. CASE SwitchErase
    BY <1>a, <1>12 DEF SwitchErase, Erased, EntriesKept
  <1>13. CASE SwitchCopy
    <2>1. pc = "sw_copy" /\ i \in Slots
      BY <1>13 DEF SwitchCopy
    <2>2. main[ctrl.sector].slot[i].k \in Keys => main[ctrl.sector].slot[i].t = "num"
      BY <1>a, <2>1 DEF NumInv
    <2>3. CASE ~kved_is_valid_key(main[ctrl.sector].slot[i].k)
      BY <1>13, <2>3 DEF SwitchCopy, EntriesKept, flash
    <2>4. CASE kved_is_valid_key(main[ctrl.sector].slot[i].k)
      <3> DEFINE a == main[ctrl.sector].slot[i]
                 e == [k |-> a.k, t |-> a.t, v |-> CopiedNumber(a)]
      <3>1. a.k \in Keys
        BY <1>a, <2>1, <2>4, KeyKinds DEF MainType, Entries
      <3>2. main' = [main EXCEPT ![Other(ctrl.sector)].slot[nxt] = e] /\ e.t = "num"
        BY <1>13, <2>2, <2>4, <3>1 DEF SwitchCopy
      <3> HIDE DEF e
      <3> QED BY <1>a, <3>2 DEF Rewritten
    <2> QED BY <2>3, <2>4
  <1>14. CASE SwitchAdopt \/ SwitchSign \/ SwitchSignString \/ SwitchInvalidate
    <2>1. CASE SwitchAdopt
      BY <1>a, <2>1 DEF SwitchAdopt, EntriesKept, MainType
    <2>2. CASE SwitchSign
      BY <1>a, <2>2 DEF SwitchSign, Sign, EntriesKept, MainType
    <2>3. CASE SwitchSignString
      BY <2>3 DEF SwitchSignString, EntriesKept
    <2>4. CASE SwitchInvalidate
      BY <1>a, <2>4 DEF SwitchInvalidate, Unsign, EntriesKept, MainType
    <2> QED BY <1>14, <2>1, <2>2, <2>3, <2>4
  <1>15. CASE kved_deinit \/ PowerCut
    BY <1>15 DEF kved_deinit, PowerCut, PowerOff, EntriesKept, flash
  <1> QED
    BY <1>1, <1>2, <1>3, <1>4, <1>5, <1>6, <1>8, <1>9, <1>10, <1>11, <1>12, <1>13, <1>14, <1>15
       DEF Next, Step

LEMMA CallKept ==
  ASSUME NumbersOnly, Next, call'.op = "write"
  PROVE  call' = call \/ call'.type = "num"
  <1>1. CASE Client
    <2>1. CASE kved_data_write
      BY <2>1, KeyTypesAssumption DEF kved_data_write, Enter, NumbersOnly, Types
    <2>2. CASE kved_data_delete \/ kved_compact_database
      BY <2>2 DEF kved_data_delete, kved_compact_database, Enter
    <2>3. CASE kved_data_read
      BY <2>3 DEF kved_data_read
    <2> QED BY <1>1, <2>1, <2>2, <2>3 DEF Client
  <1>2. CASE kved_sector_consistency_check \/ kved_deinit \/ PowerCut
    BY <1>2 DEF kved_sector_consistency_check, kved_deinit, PowerCut, PowerOff, NoCall
  <1>3. CASE \/ InitIndexSector \/ InitFormatIndex \/ InitStringSector \/ InitFormatString
             \/ kved_string_consistency_check \/ kved_data_consistency_check \/ ConsistencyCheckDone
    BY <1>3 DEF InitIndexSector, InitFormatIndex, InitStringSector, InitFormatString, Return, NoCall,
                kved_string_consistency_check, kved_data_consistency_check, ConsistencyCheckDone
  <1>4. CASE WriteRejected
    BY <1>4 DEF WriteRejected, Return, NoCall
  <1>5. CASE WriteUnchanged
    BY <1>5 DEF WriteUnchanged, Return, NoCall
  <1>6. CASE kved_dump
    BY <1>6 DEF kved_dump, Return, NoCall
  <1>7. CASE WriteFull \/ WriteSwitch \/ WriteAppend \/ WriteStringIndex \/ WriteStringData
    BY <1>7 DEF WriteFull, WriteSwitch, WriteAppend, WriteStringIndex, WriteStringData
  <1>8. CASE WriteValue \/ WriteKey \/ WriteDeleteOld \/ kved_internal_data_delete
    BY <1>8 DEF WriteValue, WriteKey, WriteDeleteOld, kved_internal_data_delete, Return, NoCall
  <1>9. CASE SwitchErase \/ SwitchCopy \/ SwitchAdopt \/ SwitchSign \/ SwitchSignString \/ SwitchInvalidate
    BY <1>9 DEF SwitchErase, SwitchCopy, SwitchAdopt, SwitchSign, SwitchSignString, SwitchInvalidate
  <1> QED
    BY <1>1, <1>2, <1>3, <1>4, <1>5, <1>6, <1>7, <1>8, <1>9 DEF Next, Step

LEMMA NumStep2 ==
  ASSUME NumbersOnly, IInv, EInv, NumInv, [Next]_vars
  PROVE  NumInv'
  <1>1. CASE UNCHANGED vars
    BY <1>1 DEF vars, NumInv
  <1>2. CASE Next
    <2>1. call'.op = "write" => call'.type = "num"
      BY <1>2, CallKept DEF NumInv
    <2>2. main \in MainType
      BY Typed
    <2>3. \A s \in Sectors : \A n \in Slots : main'[s].slot[n].k \in Keys => main'[s].slot[n].t = "num"
      <3>1. CASE EntriesKept
        BY <3>1 DEF EntriesKept, NumInv
      <3>2. CASE Rewritten
        <4>1. PICK s \in Sectors : \E x : \E e :
                main' = [main EXCEPT ![s].slot[x] = e] /\ (e.k \in Keys => e.t = "num")
          BY <3>2 DEF Rewritten
        <4>2. PICK x : \E e :
                main' = [main EXCEPT ![s].slot[x] = e] /\ (e.k \in Keys => e.t = "num")
          BY <4>1
        <4>3. PICK e : main' = [main EXCEPT ![s].slot[x] = e] /\ (e.k \in Keys => e.t = "num")
          BY <4>2
        <4>4. \A q \in Sectors : \A n \in Slots : main'[q].slot[n] = main[q].slot[n] \/ main'[q].slot[n] = e
          BY <2>2, <4>3 DEF MainType
        <4> QED BY <4>3, <4>4 DEF NumInv
      <3>3. CASE Erased
        <4>1. \A q \in Sectors : main'[q].slot = main[q].slot \/ main'[q].slot = EmptyTable
          BY <2>2, <3>3 DEF Erased, MainType, ErasedMain, EmptyTable
        <4>2. \A n \in Slots : EmptyTable[n].k \notin Keys
          BY KeyKinds DEF EmptyTable, FreeSlot
        <4> QED BY <4>1, <4>2 DEF NumInv
      <3> QED BY <1>2, <3>1, <3>2, <3>3, NumKept
    <2> QED BY <2>1, <2>3 DEF NumInv
  <1> QED BY <1>1, <1>2

(* The steps after which the invariant of the values says nothing.          *)
LEMMA DataQuiet ==
  ASSUME NumInv', pc' \notin {"full", "w_key", "w_del"} \cup (SwitchLabels \ {"sw_erase", "sw_strerase"}),
         pc' \in {"check", "scan"} => call'.op = "init"
  PROVE  DInv'
  BY DEF DInv, DataInv, TextInv, Late, Early, SwitchLabels, Renewed

LEMMA ScanFinds ==
  ASSUME IInv, EInv, pc = "scan", ToDelete # 0
  PROVE  call.op = "init"
  <1> DEFINE S == {q \in Slots : /\ q >= i
                                 /\ \/ HalfWritten(main[ctrl.sector].slot[q])
                                    \/ DuplicatedAhead(ctrl.sector, q)}
  <1>1. PICK x \in Slots : \/ HalfWritten(main[ctrl.sector].slot[x])
                           \/ DuplicatedAhead(ctrl.sector, x)
    <2>1. S \in SUBSET Slots /\ ToDelete = First(S)
      BY DEF ToDelete
    <2> QED BY <2>1, FirstIsLeast
  <1>2. Formed(InUse, 0) /\ InUse \in Tables
    BY Typed DEF EInv, FormInv, Hole, InUse, Selecting, Formatting
  <1>3. ~HalfWritten(InUse[x])
    BY <1>2 DEF Formed, HalfWritten, Slots
  <1>4. Superseded(InUse, x)
    BY <1>1, <1>2, <1>3, KeyKinds DEF DuplicatedAhead, Superseded, InUse, Tables, Entries
  <1> QED BY <1>4 DEF EInv, UniqueInv, Recovering, Unique, Selecting, Formatting

(* Where the next entry goes.                                               *)
LEMMA NextFree ==
  ASSUME IInv, EInv, pc \in {"w_val", "w_key"}
  PROVE  /\ ctrl.first_free \in Slots
         /\ \A n \in Slots : (InUse[n].k = "free") <=> (n >= ctrl.first_free)
         /\ InUse[ctrl.first_free].k = "free"
  <1>1. /\ Agrees(ctrl, InUse) /\ ctrl.free > 0 /\ InUse \in Tables /\ Formed(InUse, Hole)
    BY Typed DEF EInv, CountInv, RoomInv, Selecting, Formatting, Appending, FormInv, InUse
  <1>2. Num(InUse, {"free"}) > 0 /\ ctrl.first_free = Find(InUse, "free")
    BY <1>1 DEF Agrees
  <1>3. /\ Find(InUse, "free") \in Slots
        /\ \A n \in Slots : (InUse[n].k = "free") <=> (n >= Find(InUse, "free"))
    BY <1>1, <1>2, FreeFrom
  <1> QED BY <1>2, <1>3 DEF Slots

LEMMA DataInitSteps ==
  ASSUME IInv, EInv, NumInv',
         \/ kved_sector_consistency_check \/ InitIndexSector \/ InitFormatIndex
         \/ InitStringSector \/ InitFormatString \/ kved_data_consistency_check
         \/ kved_deinit \/ PowerCut
  PROVE  DInv'
  <1>a. pc \in InitLabels => call.op = "init"
    BY DEF IInv, CallInv
  <1> USE DEF SwitchLabels, InitLabels, Goto
  <1>1. CASE kved_sector_consistency_check \/ kved_deinit \/ PowerCut
    BY <1>1, DataQuiet DEF kved_sector_consistency_check, kved_deinit, PowerCut, PowerOff
  <1>2. CASE InitIndexSector \/ InitFormatIndex
    BY <1>2, DataQuiet DEF InitIndexSector, InitFormatIndex
  <1>3. CASE InitStringSector \/ InitFormatString
    <2>1. call' = call /\ pc \in InitLabels /\ pc' \in {"i_strerase", "i_strsig", "i_strend", "check"}
      BY <1>3 DEF InitStringSector, InitFormatString
    <2> QED BY <1>a, <2>1, DataQuiet
  <1>4. CASE kved_data_consistency_check
    <2>1. pc = "scan" /\ pc' = pc /\ call' = call /\ ToDelete # 0
      BY <1>4 DEF kved_data_consistency_check
    <2>2. call.op = "init"
      BY <2>1, ScanFinds
    <2> QED BY <2>1, <2>2, DataQuiet
  <1> QED BY <1>1, <1>2, <1>3, <1>4

LEMMA DataCallSteps ==
  ASSUME IInv, EInv, NumInv',
         \/ ConsistencyCheckDone \/ Client \/ WriteRejected \/ WriteUnchanged \/ kved_dump
         \/ WriteSwitch \/ WriteAppend \/ WriteStringIndex \/ WriteStringData
         \/ WriteDeleteOld \/ kved_internal_data_delete
  PROVE  DInv'
  <1> USE DEF SwitchLabels, Goto
  <1>1. CASE ConsistencyCheckDone
    BY <1>1, DataQuiet DEF ConsistencyCheckDone, AppendFrom, Return
  <1>2. CASE Client
    <2>1. CASE kved_data_write \/ kved_data_delete \/ kved_compact_database
      BY <2>1, DataQuiet DEF kved_data_write, kved_data_delete, kved_compact_database, Enter
    <2>2. CASE kved_data_read
      <3>1. pc' = "idle"
        BY <2>2 DEF kved_data_read
      <3> QED BY <3>1, DataQuiet
    <2> QED BY <1>2, <2>1, <2>2 DEF Client
  <1>3. CASE \/ WriteRejected \/ WriteUnchanged \/ kved_dump \/ WriteDeleteOld
             \/ kved_internal_data_delete
    <2>1. pc' = "idle"
      BY <1>3 DEF WriteRejected, WriteUnchanged, kved_dump, WriteDeleteOld,
                  kved_internal_data_delete, Return
    <2> QED BY <2>1, DataQuiet
  <1>4. CASE WriteSwitch \/ WriteAppend \/ WriteStringIndex \/ WriteStringData
    BY <1>4, DataQuiet DEF WriteSwitch, WriteAppend, AppendFrom, WriteStringIndex, WriteStringData
  <1> QED BY <1>1, <1>2, <1>3, <1>4

(* A write on a full table, and one that appends an entry.                  *)
LEMMA DataWriteSteps ==
  ASSUME IInv, EInv, DInv, EInv', NumInv', WriteFull \/ WriteValue \/ WriteKey
  PROVE  DInv'
  <1> USE DEF Selecting, Formatting, SwitchLabels, Appending, Early, Late, Goto
  <1>a. main \in MainType /\ ctrl \in CtrlType /\ ctrl.sector \in Sectors /\ InUse \in Tables
    BY Typed
  <1>1. CASE WriteFull
    <2>1. /\ pc = "write" /\ pc' = "full" /\ main' = main /\ ctrl' = ctrl /\ call' = call
          /\ kved_is_valid_key(call.key) /\ FALSE \in Unchanged /\ ctrl.used = NumEntries
      BY <1>1 DEF WriteFull, Writing, flash
    <2>2. /\ call.op = "write" /\ call.type = "num" /\ call.key \in Keys /\ Unique(InUse)
      <3>1. call.op = "write" /\ Unique(InUse)
        BY <2>1 DEF EInv, ModeInv, UniqueInv, Recovering, InitLabels
      <3>2. call.key \in Keys \cup {BadKey}
        BY <3>1 DEF IInv, CallInv
      <3> QED BY <2>1, <3>1, <3>2 DEF DInv, NumInv, kved_is_valid_key
    <2>3. \A n \in Slots : (InUse[n].k = call.key) <=> (n = Found)
      BY <2>2, FoundEntry
    <2>4. \A n \in Slots : InUse[n] # Wanted
      <3> SUFFICES ASSUME NEW n \in Slots, InUse[n] = Wanted PROVE FALSE
        OBVIOUS
      <3>1. InUse[n].k = call.key /\ InUse[n].v = call.val
        BY DEF Wanted
      <3>2. n = Found /\ Found # 0
        BY <2>3, <3>1 DEF Slots
      <3>3. Unchanged = {InUse[n].v = call.val}
        BY <2>2, <3>2 DEF Unchanged, Equal, InUse
      <3> QED BY <2>1, <3>1, <3>3
    <2>5. InUse' = InUse /\ Wanted' = Wanted
      BY <2>1 DEF InUse, Wanted
    <2> QED BY <2>1, <2>4, <2>5 DEF DInv, DataInv, TextInv, Renewed
  <1>2. CASE WriteValue
    <2>1. /\ pc = "w_val" /\ pc' = "w_key" /\ call' = call /\ ctrl' = ctrl
          /\ main' = [main EXCEPT ![ctrl.sector].slot[ctrl.first_free] =
                        ProgramValue(@, EncodedValue)]
      BY <1>2 DEF WriteValue
    <2>2. EncodedValue = call.val
      BY <2>1 DEF DInv, NumInv, EInv, ModeInv, EncodedValue
    <2>3. ctrl.first_free \in Slots /\ InUse[ctrl.first_free].k = "free"
      BY <2>1, NextFree
    <2>4. InUse[ctrl.first_free].v = FREE /\ InUse[ctrl.first_free] \in Entries
      BY <1>a, <2>1, <2>3 DEF EInv, FormInv, Formed, Hole, InUse, Slots, Tables
    <2>5. main'[ctrl.sector].slot[ctrl.first_free] = ProgramValue(InUse[ctrl.first_free], call.val)
      BY <1>a, <2>1, <2>2, <2>3 DEF InUse, MainType
    <2>6. ProgramValue(InUse[ctrl.first_free], call.val).v = call.val
      <3>1. And(FREE, call.val) = call.val
        BY DEF And, FREE
      <3>2. ProgramValue(InUse[ctrl.first_free], call.val).v = And(FREE, call.val)
        BY <2>4 DEF ProgramValue, Entries
      <3> QED BY <3>1, <3>2
    <2>7. InUse'[ctrl'.first_free].v = call'.val
      BY <2>1, <2>5, <2>6 DEF InUse
    <2> QED BY <2>1, <2>7 DEF DInv, DataInv, TextInv, Renewed
  <1>3. CASE WriteKey
    <2> DEFINE x == ctrl.first_free
    <2>1. /\ pc = "w_key" /\ ctrl'.first_free = x + 1 /\ ctrl'.sector = ctrl.sector
          /\ main' = [main EXCEPT ![ctrl.sector].slot[x] = ProgramKey(@, call.key, call.type)]
          /\ pc' = "idle" \/ (old # 0 /\ pc' = "w_del" /\ call' = call /\ old' = old)
      BY <1>a, <1>3 DEF WriteKey, Return, locals, CtrlType
    <2>2. CASE pc' = "idle"
      BY <2>2, DataQuiet
    <2>3. CASE old # 0 /\ pc' = "w_del" /\ call' = call /\ old' = old
      <3>1. x \in Slots /\ InUse[x].k = "free" /\ \A n \in Slots : n >= x => InUse[n].k = "free"
        BY <2>1, NextFree
      <3>2. InUse[x] \in Entries /\ InUse[x].v = call.val
        BY <1>a, <2>1, <3>1 DEF Tables, DInv, DataInv
      <3>3. InUse'[x] = ProgramKey(InUse[x], call.key, call.type)
        BY <1>a, <2>1, <3>1 DEF InUse, MainType
      <3>4. ProgramKey(InUse[x], call.key, call.type) = Wanted
        BY <3>1, <3>2 DEF ProgramKey, Entries, Wanted
      <3>5. old < x
        <4>1. old \in Slots /\ InUse[old].k = call.key /\ call.key \in Keys
          BY <2>1, <2>3, Typed DEF EInv, OldInv, ModeInv, Slots, IInv, CallInv
        <4> QED BY <3>1, <4>1, KeyKinds DEF Slots
      <3>6. Wanted' = Wanted /\ ctrl'.first_free - 1 = x
        BY <2>1, <2>3, <3>1 DEF Wanted, Slots
      <3> QED BY <2>3, <3>1, <3>3, <3>4, <3>5, <3>6 DEF DInv, DataInv, TextInv, Renewed
    <2> QED BY <2>1, <2>2, <2>3
  <1> QED BY <1>1, <1>2, <1>3

(* The values that a switch copies.                                         *)
LEMMA TextErased ==
  /\ 0 \in StrWords /\ NumEntries + 1 \in StrWords /\ NumEntries + 1 # 0
  /\ ErasedStr[0] = FREE /\ ErasedStr[NumEntries + 1] = FREE
  /\ \A x : And(FREE, x) = x
  BY DEF StrWords, SectorLen, ErasedStr, And, FREE

LEMMA DataErased ==
  ASSUME IInv, EInv, DInv, NumInv', SwitchErase
  PROVE  DInv'
  <1> USE DEF SwitchLabels, Goto
  <1>1. CASE pc = "sw_erase"
    BY <1>1, DataQuiet DEF SwitchErase
  <1>2. CASE pc # "sw_erase"
    <2>1. /\ pc = "sw_strerase" /\ pc' = "sw_copy" /\ nxt' = 1 /\ i' = 1 /\ ctrl' = ctrl
          /\ str' = [str EXCEPT ![Other(ctrl.str_sector)] = ErasedStr]
      BY <1>2 DEF SwitchErase
    <2>2. \A n \in Slots : ~(n < 1)
      BY DEF Slots
    <2>3. str'[Other(ctrl.str_sector)] = ErasedStr
      <3>1. str \in StrType /\ Other(ctrl.str_sector) \in Sectors
        BY DEF IInv, TypeOK, Other, Sectors
      <3> QED BY <2>1, <3>1 DEF StrType
    <2> QED BY <2>1, <2>2, <2>3 DEF DInv, DataInv, TextInv, Late, Early
  <1> QED BY <1>1, <1>2

LEMMA DataCopied ==
  ASSUME IInv, EInv, DInv, NumInv', SwitchCopy
  PROVE  DInv'
  <1>1. /\ main \in MainType /\ ctrl.sector \in Sectors /\ Other(ctrl.sector) \in Sectors
        /\ Other(ctrl.sector) # ctrl.sector /\ InUse \in Tables /\ Spare \in Tables
        /\ nxt \in Nat
    BY Typed
  <1>2. /\ pc = "sw_copy" /\ pc' = pc /\ ctrl' = ctrl /\ call' = call /\ old' = old
        /\ i \in Slots /\ i' = i + 1
    BY DEF SwitchCopy
  <1>3. /\ nxt \in 1 .. i /\ nxt \in Slots
        /\ \A n \in Slots : n < nxt =>
             \E j \in Slots : j < i /\ InUse[j].k \in Keys /\ Spare[n] = CopyOf(call, InUse[j])
        /\ \A j \in Slots : j < i /\ InUse[j].k \in Keys =>
             \E n \in Slots : n < nxt /\ Spare[n] = CopyOf(call, InUse[j])
    BY <1>2 DEF EInv, CopyInv, DInv, DataInv, Slots
  <1>4. (kved_is_valid_key(InUse[i].k)) <=> (InUse[i].k \in Keys)
    BY <1>1, <1>2, KeyKinds DEF Tables, Entries
  <1>5. \A n \in Slots : n < i + 1 => n = i \/ n < i
    BY <1>2 DEF Slots
  <1>6. \A n \in Slots : n < i => n < i + 1
    BY <1>2 DEF Slots
  <1>7. CASE InUse[i].k \notin Keys
    <2>1. main' = main /\ nxt' = nxt /\ str' = str
      BY <1>2, <1>4, <1>7 DEF SwitchCopy, InUse, flash
    <2>2. InUse' = InUse /\ Spare' = Spare
      BY <1>2, <2>1 DEF InUse, Spare
    <2>3. \A n \in Slots : n < nxt =>
             \E j \in Slots : j < i + 1 /\ InUse[j].k \in Keys /\ Spare[n] = CopyOf(call, InUse[j])
      BY <1>3, <1>6
    <2>4. \A j \in Slots : j < i + 1 /\ InUse[j].k \in Keys =>
             \E n \in Slots : n < nxt /\ Spare[n] = CopyOf(call, InUse[j])
      BY <1>3, <1>5, <1>7
    <2>5. TextInv'
      BY <1>2, <2>1 DEF DInv, TextInv
    <2> QED BY <1>2, <2>1, <2>2, <2>3, <2>4, <2>5 DEF DInv, DataInv, Late, Early
  <1>8. CASE InUse[i].k \in Keys
    <2> DEFINE a == InUse[i]
               e == [k |-> a.k, t |-> a.t, v |-> CopiedNumber(a)]
    <2>1. a.t = "num" /\ a \in Entries /\ (call.op = "write" => call.type = "num")
      BY <1>1, <1>2, <1>8 DEF DInv, NumInv, InUse, Tables
    <2>2. /\ main' = [main EXCEPT ![Other(ctrl.sector)].slot[nxt] = e]
          /\ nxt' = nxt + 1 /\ str' = str
      BY <1>2, <1>4, <1>8, <2>1 DEF SwitchCopy, InUse
    <2>3. e = CopyOf(call, a)
      <3>1. CopiedNumber(a) = IF call.op = "write" /\ a.k = call.key THEN call.val ELSE a.v
        BY <2>1 DEF CopiedNumber
      <3>2. CopyOf(call, a) = [k |-> a.k, t |-> a.t,
                         v |-> IF call.op = "write" /\ a.k = call.key THEN call.val ELSE a.v]
        BY <2>1 DEF CopyOf, Entries
      <3> QED BY <3>1, <3>2
    <2> HIDE DEF e
    <2>4. InUse' = InUse /\ Spare' = [Spare EXCEPT ![nxt] = e]
      BY <1>1, <1>2, <2>2 DEF InUse, Spare, MainType
    <2>5. Spare'[nxt] = CopyOf(call, a) /\ \A n \in Slots : n # nxt => Spare'[n] = Spare[n]
      BY <1>1, <1>3, <2>3, <2>4 DEF Tables
    <2>6. \A n \in Slots : n < nxt + 1 =>
             \E j \in Slots : j < i + 1 /\ InUse[j].k \in Keys /\ Spare'[n] = CopyOf(call, InUse[j])
      <3> SUFFICES ASSUME NEW n \in Slots, n < nxt + 1
                   PROVE  \E j \in Slots : j < i + 1 /\ InUse[j].k \in Keys /\ Spare'[n] = CopyOf(call, InUse[j])
        OBVIOUS
      <3>1. CASE n = nxt
        BY <1>2, <1>8, <2>5, <3>1 DEF Slots
      <3>2. CASE n # nxt
        <4>1. n < nxt /\ Spare'[n] = Spare[n]
          BY <1>3, <2>5, <3>2 DEF Slots
        <4> QED BY <1>3, <1>6, <4>1
      <3> QED BY <3>1, <3>2
    <2>7. \A j \in Slots : j < i + 1 /\ InUse[j].k \in Keys =>
             \E n \in Slots : n < nxt + 1 /\ Spare'[n] = CopyOf(call, InUse[j])
      <3> SUFFICES ASSUME NEW j \in Slots, j < i + 1, InUse[j].k \in Keys
                   PROVE  \E n \in Slots : n < nxt + 1 /\ Spare'[n] = CopyOf(call, InUse[j])
        OBVIOUS
      <3>1. CASE j = i
        <4>1. nxt < nxt + 1
          BY <1>1
        <4> QED BY <1>3, <2>5, <3>1, <4>1
      <3>2. CASE j # i
        <4>1. PICK n \in Slots : n < nxt /\ Spare[n] = CopyOf(call, InUse[j])
          BY <1>3, <1>5, <3>2
        <4>2. Spare'[n] = Spare[n] /\ n < nxt + 1
          BY <1>1, <2>5, <4>1 DEF Slots
        <4> QED BY <4>1, <4>2
      <3> QED BY <3>1, <3>2
    <2>8. TextInv'
      BY <1>2, <2>2 DEF DInv, TextInv
    <2> QED BY <1>2, <2>2, <2>4, <2>6, <2>7, <2>8 DEF DInv, DataInv, Late, Early
  <1> QED BY <1>7, <1>8

LEMMA DataAdopted ==
  ASSUME IInv, EInv, DInv, NumInv', SwitchAdopt
  PROVE  DInv'
  <1>1. /\ main \in MainType /\ ctrl.sector \in Sectors /\ Other(ctrl.sector) \in Sectors
        /\ Other(ctrl.sector) # ctrl.sector /\ InUse \in Tables /\ Spare \in Tables
        /\ nxt \in Nat /\ Other(Other(ctrl.sector)) = ctrl.sector
    BY Typed DEF Other, Sectors
  <1>2. /\ pc = "sw_copy" /\ pc' = "sw_sig" /\ call' = call /\ old' = old /\ str' = str
        /\ i = NumEntries + 1
        /\ ctrl'.sector = Other(ctrl.sector) /\ ctrl'.str_sector = Other(ctrl.str_sector)
    BY Typed DEF SwitchAdopt, locals, Slots, Goto
  <1>3. /\ \A n \in Slots : n >= nxt => Spare[n] = FreeSlot
        /\ \A n \in Slots : n < nxt =>
             \E j \in Slots : j < i /\ InUse[j].k \in Keys /\ Spare[n] = CopyOf(call, InUse[j])
        /\ \A j \in Slots : j < i /\ InUse[j].k \in Keys =>
             \E n \in Slots : n < nxt /\ Spare[n] = CopyOf(call, InUse[j])
    BY <1>2 DEF EInv, CopyInv, DInv, DataInv
  <1>4. InUse' = Spare /\ Spare' = InUse
    <2>1. \A s \in Sectors : main'[s].slot = main[s].slot
      BY <1>1 DEF SwitchAdopt, MainType
    <2> QED BY <1>1, <1>2, <2>1 DEF InUse, Spare
  <1>5. \A n \in Slots : Spare[n].k \in Keys =>
          \E j \in Slots : InUse[j].k \in Keys /\ Spare[n] = CopyOf(call, InUse[j])
    <2>1. \A n \in Slots : Spare[n].k \in Keys => n < nxt
      BY <1>1, <1>3, KeyKinds DEF FreeSlot, Slots
    <2> QED BY <1>3, <2>1
  <1>6. \A j \in Slots : InUse[j].k \in Keys => \E n \in Slots : Spare[n] = CopyOf(call, InUse[j])
    <2>1. \A j \in Slots : j < i
      BY <1>2 DEF Slots
    <2> QED BY <1>3, <2>1
  <1>7. Unique(InUse) /\ (call.op = "write" => \A n \in Slots : (InUse[n].k = call.key) <=> (n = old))
    BY <1>2 DEF EInv, UniqueInv, OldInv, ModeInv, Recovering, Selecting, Formatting, Early,
                SwitchLabels, InitLabels
  <1>8. Renewed => \E n \in Slots : Spare[n] = Wanted
    <2> SUFFICES ASSUME Renewed PROVE \E n \in Slots : Spare[n] = Wanted
      OBVIOUS
    <2>1. call.op = "write" /\ old \in Slots /\ call.key \in Keys
      BY <1>2, Typed DEF Renewed, Slots, IInv, CallInv, SwitchLabels
    <2>2. InUse[old].k = call.key /\ InUse[old].t = call.type /\ InUse[old] \in Entries
      BY <1>1, <1>7, <2>1 DEF DInv, NumInv, InUse, Tables
    <2>3. CopyOf(call, InUse[old]) = Wanted
      BY <2>1, <2>2 DEF CopyOf, Wanted, Entries
    <2> QED BY <1>6, <2>1, <2>2, <2>3
  <1>9. TextInv'
    BY <1>2 DEF DInv, TextInv
  <1> QED BY <1>2, <1>4, <1>5, <1>6, <1>7, <1>8, <1>9
          DEF DInv, DataInv, Late, Early, Renewed, Wanted

LEMMA DataSigned ==
  ASSUME IInv, EInv, DInv, NumInv',
         SwitchSign \/ SwitchSignString \/ SwitchInvalidate \/ kved_string_consistency_check
  PROVE  DInv'
  <1> USE DEF SwitchLabels, Early, Late, Goto
  <1>1. main \in MainType /\ ctrl.sector \in Sectors /\ str \in StrType /\ ctrl.str_sector \in Sectors
    BY Typed DEF IInv, TypeOK, CtrlType
  <1>2. ASSUME pc \in {"sw_sig", "sw_strsig", "sw_strend", "sw_inval", "check"},
               pc' \in {"sw_strsig", "sw_strend", "sw_inval", "check", "scan"},
               ctrl'.sector = ctrl.sector, call' = call, old' = old,
               \A s \in Sectors : main'[s].slot = main[s].slot
        PROVE  DataInv'
    <2>1. InUse' = InUse
      BY <1>1, <1>2 DEF InUse
    <2> QED BY <1>2, <2>1 DEF DInv, DataInv, Renewed, Wanted
  <1>3. CASE SwitchSign
    <2>1. /\ pc = "sw_sig" /\ pc' = "sw_strsig" /\ ctrl' = ctrl /\ call' = call /\ old' = old /\ str' = str
          /\ \A s \in Sectors : main'[s].slot = main[s].slot
      BY <1>1, <1>3 DEF SwitchSign, Sign, MainType, locals
    <2> QED BY <1>2, <2>1 DEF DInv, TextInv
  <1>4. CASE SwitchSignString
    <2>1. /\ pc \in {"sw_strsig", "sw_strend"} /\ pc' \in {"sw_strend", "sw_inval"}
          /\ ctrl' = ctrl /\ call' = call /\ old' = old /\ main' = main
      BY <1>4 DEF SwitchSignString, locals
    <2>2. TextInv'
      <3>1. CASE pc = "sw_strsig"
        <4>1. pc' = "sw_strend" /\ str' = [str EXCEPT ![ctrl.str_sector] = Program(@, 0, START)]
          BY <1>4, <3>1 DEF SwitchSignString
        <4>2. str[ctrl.str_sector] = ErasedStr
          BY <3>1 DEF DInv, TextInv
        <4>3. /\ str'[ctrl.str_sector][0] = START
              /\ str'[ctrl.str_sector][NumEntries + 1] = FREE
          BY <1>1, <4>1, <4>2, TextErased DEF StrType, Program
        <4> QED BY <2>1, <4>1, <4>3 DEF TextInv
      <3>2. CASE pc = "sw_strend"
        <4>1. pc' = "sw_inval"
              /\ str' = [str EXCEPT ![ctrl.str_sector] = Program(@, NumEntries + 1, END)]
          BY <1>4, <3>2 DEF SwitchSignString
        <4>2. str[ctrl.str_sector][0] = START /\ str[ctrl.str_sector][NumEntries + 1] = FREE
          BY <3>2 DEF DInv, TextInv
        <4>3. /\ str'[ctrl.str_sector][0] = START
              /\ str'[ctrl.str_sector][NumEntries + 1] = END
          BY <1>1, <4>1, <4>2, TextErased DEF StrType, Program
        <4> QED BY <2>1, <4>1, <4>3 DEF TextInv, StrSigned
      <3> QED BY <2>1, <3>1, <3>2
    <2> QED BY <1>2, <2>1, <2>2 DEF DInv
  <1>5. CASE SwitchInvalidate
    <2>1. /\ pc = "sw_inval" /\ pc' = "check" /\ ctrl' = ctrl /\ call' = call /\ old' = old /\ str' = str
          /\ \A s \in Sectors : main'[s].slot = main[s].slot
      BY <1>1, <1>5 DEF SwitchInvalidate, Unsign, MainType, locals
    <2> QED BY <1>2, <2>1 DEF DInv, TextInv, StrSigned
  <1>6. CASE kved_string_consistency_check
    <2>1. pc = "check" /\ main' = main
      BY <1>6 DEF kved_string_consistency_check, flash
    <2>2. CASE StrSigned(ctrl.str_sector)
      <3>1. pc' = "scan" /\ call' = call /\ old' = old /\ ctrl'.sector = ctrl.sector
        BY <1>6, <2>2, Typed DEF kved_string_consistency_check, CtrlType
      <3> QED BY <1>2, <2>1, <3>1 DEF DInv, TextInv
    <2>3. CASE ~StrSigned(ctrl.str_sector)
      <3>1. call.op = "init"
        BY <2>1, <2>3 DEF DInv, TextInv
      <3>2. pc' = "off"
        BY <1>6, <2>3, <3>1 DEF kved_string_consistency_check
      <3> QED BY <3>2, DataQuiet
    <2> QED BY <2>2, <2>3
  <1> QED BY <1>3, <1>4, <1>5, <1>6

LEMMA DataStep ==
  ASSUME WholeEntries, NumbersOnly, IInv, EInv, DInv, [Next]_vars
  PROVE  DInv'
  <1>1. EInv' /\ NumInv'
    BY EntriesStep, NumStep2 DEF DInv
  <1>2. CASE UNCHANGED vars
    <2>1. InUse' = InUse /\ Spare' = Spare
      BY <1>2 DEF vars, InUse, Spare
    <2> QED BY <1>1, <1>2, <2>1 DEF vars, DInv, DataInv, TextInv, Renewed, Wanted, StrSigned
  <1>3. CASE \/ kved_sector_consistency_check \/ InitIndexSector \/ InitFormatIndex
             \/ InitStringSector \/ InitFormatString \/ kved_data_consistency_check
             \/ kved_deinit \/ PowerCut
    BY <1>1, <1>3, DataInitSteps
  <1>4. CASE \/ ConsistencyCheckDone \/ Client \/ WriteRejected \/ WriteUnchanged \/ kved_dump
             \/ WriteSwitch \/ WriteAppend \/ WriteStringIndex \/ WriteStringData
             \/ WriteDeleteOld \/ kved_internal_data_delete
    BY <1>1, <1>4, DataCallSteps
  <1>5. CASE WriteFull \/ WriteValue \/ WriteKey
    BY <1>1, <1>5, DataWriteSteps
  <1>6. CASE SwitchErase
    BY <1>1, <1>6, DataErased
  <1>7. CASE SwitchCopy
    BY <1>1, <1>7, DataCopied
  <1>8. CASE SwitchAdopt
    BY <1>1, <1>8, DataAdopted
  <1>9. CASE SwitchSign \/ SwitchSignString \/ SwitchInvalidate \/ kved_string_consistency_check
    BY <1>1, <1>9, DataSigned
  <1> QED BY <1>2, <1>3, <1>4, <1>5, <1>6, <1>7, <1>8, <1>9 DEF Next, Step

THEOREM ValuesInvariant ==
  ASSUME WholeEntries, NumbersOnly
  PROVE  Spec => []DInv
  <1>1. Init => DInv
    BY InitDInv
  <1>2. IInv /\ EInv /\ DInv /\ [Next]_vars => DInv'
    BY DataStep
  <1> QED BY <1>1, <1>2, InductiveInvariant, EntriesInvariant, PTL DEF Spec

-----------------------------------------------------------------------------
(* What a table says of a key.                                              *)
LEMMA LastChosen ==
  ASSUME NEW S \in SUBSET Slots, \E n \in S : \A m \in S : m <= n
  PROVE  Last(S) \in S /\ \A m \in S : m <= Last(S)
  BY DEF Last

LEMMA LastIsGreatest ==
  ASSUME NEW S \in SUBSET Slots
  PROVE  /\ (Last(S) = 0) <=> (S = {})
         /\ S # {} => Last(S) \in S /\ \A m \in S : m <= Last(S)
  <1>1. CASE S = {}
    BY <1>1 DEF Last
  <1>2. CASE S # {}
    <2> DEFINE T == {d \in 0 .. NumEntries : NumEntries - d \in S}
    <2>1. T \in SUBSET Nat /\ T # {}
      <3>1. PICK n \in S : TRUE
        BY <1>2
      <3>2. NumEntries - n \in 0 .. NumEntries /\ NumEntries - (NumEntries - n) = n
        BY DEF Slots
      <3> QED BY <3>2
    <2> HIDE DEF T
    <2>2. PICK l \in T : \A d \in T : l <= d
      BY <2>1, LeastExists
    <2>3. NumEntries - l \in S
      BY <2>2 DEF T
    <2>4. \A m \in S : m <= NumEntries - l
      <3> SUFFICES ASSUME NEW m \in S PROVE m <= NumEntries - l
        OBVIOUS
      <3>1. NumEntries - m \in T /\ m \in Nat /\ l \in Nat
        BY <2>1, <2>2 DEF T, Slots
      <3>2. l <= NumEntries - m
        BY <2>2, <3>1
      <3> QED BY <3>1, <3>2
    <2>5. Last(S) \in S /\ \A m \in S : m <= Last(S)
      <3>1. \E n \in S : \A m \in S : m <= n
        BY <2>3, <2>4
      <3> QED BY <3>1, LastChosen
    <2>6. Last(S) # 0
      BY <2>5 DEF Slots
    <2>7. (Last(S) = 0) <=> (S = {})
      BY <1>2, <2>6
    <2> QED BY <2>5, <2>7
  <1> QED BY <1>1, <1>2

LEMMA ContentNone ==
  ASSUME NEW f, NEW k, \A n \in Slots : f[n].k # k
  PROVE  ContentOf(f, k) = NoEntry
  <1>1. {m \in Slots : f[m].k = k} = {}
    OBVIOUS
  <1> QED BY <1>1 DEF ContentOf, Last

LEMMA ContentAt ==
  ASSUME NEW f, NEW k, NEW n \in Slots, f[n].k = k, \A m \in Slots : m > n => f[m].k # k
  PROVE  ContentOf(f, k) = [type |-> f[n].t, val |-> f[n].v]
  <1> DEFINE S == {m \in Slots : f[m].k = k}
  <1>1. Last(S) \in S /\ \A m \in S : m <= Last(S)
    <2>1. S \in SUBSET Slots /\ S # {}
      OBVIOUS
    <2> QED BY <2>1, LastIsGreatest
  <1>2. Last(S) = n /\ n # 0
    BY <1>1 DEF Slots
  <1> HIDE DEF S
  <1>3. ContentOf(f, k) = IF Last(S) = 0 THEN NoEntry
                          ELSE [type |-> f[Last(S)].t, val |-> f[Last(S)].v]
    BY DEF ContentOf, S
  <1> QED BY <1>2, <1>3

(* Where no table has more than one entry, any entry of the key will do.    *)
LEMMA ContentUnique ==
  ASSUME NEW f, Unique(f), NEW n \in Slots, f[n].k \in Keys
  PROVE  ContentOf(f, f[n].k) = [type |-> f[n].t, val |-> f[n].v]
  <1>1. \A m \in Slots : m > n => f[m].k # f[n].k
    BY DEF Unique, Superseded, Slots
  <1> QED BY <1>1, ContentAt

(* Entries of other keys, and superseded ones, do not count.                *)
Aside(f, g, k, x) ==
  /\ \A n \in Slots : n # x => g[n] = f[n]
  /\ x \in Slots => g[x].k # k
  /\ x \in Slots /\ f[x].k = k => \E m \in Slots : m > x /\ f[m].k = k

LEMMA ContentSame ==
  ASSUME NEW f, NEW g, NEW k, NEW x, Aside(f, g, k, x)
  PROVE  ContentOf(g, k) = ContentOf(f, k)
  <1> USE DEF Aside
  <1> DEFINE S == {m \in Slots : f[m].k = k}
             T == {m \in Slots : g[m].k = k}
  <1>1. S \in SUBSET Slots /\ T \in SUBSET Slots
    OBVIOUS
  <1>2. CASE S = {}
    <2>1. \A n \in Slots : f[n].k # k
      BY <1>2
    <2>2. \A n \in Slots : g[n].k # k
      BY <2>1
    <2> QED BY <2>1, <2>2, ContentNone
  <1>3. CASE S # {}
    <2>1. PICK n \in S : \A m \in S : m <= n
      BY <1>1, <1>3, LastIsGreatest
    <2>2. n \in Slots /\ f[n].k = k /\ \A m \in Slots : m > n => f[m].k # k
      BY <2>1 DEF Slots
    <2>3. n # x
      BY <2>2
    <2>4. g[n] = f[n] /\ \A m \in Slots : m > n => g[m].k # k
      BY <2>2, <2>3
    <2>5. ContentOf(f, k) = [type |-> f[n].t, val |-> f[n].v]
      BY <2>2, ContentAt
    <2>6. ContentOf(g, k) = [type |-> g[n].t, val |-> g[n].v]
      BY <2>2, <2>4, ContentAt
    <2> QED BY <2>4, <2>5, <2>6
  <1> QED BY <1>2, <1>3

-----------------------------------------------------------------------------
(* What the flash holds is the content of one table.                        *)
LEMMA DurableNone == Durables = {} => DurableMap = [k \in Keys |-> NoEntry]
  BY DEF DurableMap

LEMMA EntryNumber ==
  ASSUME NEW m, NEW n, NEW words, n # 0 => m.slot[n].t # "str"
  PROVE  EntryAt(m, n, words)
           = IF n = 0 THEN NoEntry ELSE [type |-> m.slot[n].t, val |-> m.slot[n].v]
  BY DEF EntryAt

LEMMA DurableTable ==
  NumInv => \A s \in Sectors : (Durables = {s}) => DurableMap = Content(main[s].slot)
  <1> SUFFICES ASSUME NumInv, NEW s \in Sectors, Durables = {s}
               PROVE  DurableMap = Content(main[s].slot)
    OBVIOUS
  <1> DEFINE words == str[DurableStr]
             L(k) == Last({n \in Slots : main[s].slot[n].k = k})
  <1>1. DurableMap = [k \in Keys |-> EntryAt(main[s], L(k), words)]
    <2>1. (CHOOSE q \in {s} : TRUE) = s /\ {s} # {}
      OBVIOUS
    <2> QED BY <2>1 DEF DurableMap
  <1>2. ASSUME NEW k \in Keys
        PROVE  EntryAt(main[s], L(k), words) = ContentOf(main[s].slot, k)
    <2> DEFINE S == {n \in Slots : main[s].slot[n].k = k}
    <2>1. L(k) # 0 => L(k) \in S
      <3>1. S \in SUBSET Slots
        OBVIOUS
      <3> QED BY <3>1, LastIsGreatest
    <2>2. L(k) # 0 => main[s].slot[L(k)].t # "str"
      BY <2>1 DEF NumInv
    <2> HIDE DEF words
    <2>3. EntryAt(main[s], L(k), words) = IF L(k) = 0 THEN NoEntry
            ELSE [type |-> main[s].slot[L(k)].t, val |-> main[s].slot[L(k)].v]
      BY <2>2, EntryNumber
    <2> QED BY <2>3 DEF ContentOf
  <1> QED BY <1>1, <1>2 DEF Content

(* The sector that a restart would choose: while the copy is unsigned, the  *)
(* original.                                                                *)
Home == IF pc = "sw_sig" THEN Other(ctrl.sector) ELSE ctrl.sector
LEMMA HomeDurable == IInv /\ pc \notin Selecting => Home \in Sectors /\ Durables = {Home}
  <1> SUFFICES ASSUME IInv, pc \notin Selecting PROVE Home \in Sectors /\ Durables = {Home}
    OBVIOUS
  <1>1. /\ ctrl.sector \in Sectors /\ Other(ctrl.sector) \in Sectors /\ Home \in Sectors
        /\ Other(ctrl.sector) # ctrl.sector
        /\ \A s \in Sectors : s = ctrl.sector \/ s = Other(ctrl.sector)
    BY Typed DEF Home, Other, Sectors
  <1>2. Signed(Home)
    BY DEF IInv, SectorInv, Home
  <1>3. CASE pc \in BothSigned
    <2>1. Losers = {Other(ctrl.sector)}
      BY <1>3, NewestSector DEF NewestWins, BothSigned
    <2>2. Home = ctrl.sector
      BY <1>3 DEF Home, BothSigned
    <2> QED BY <1>1, <1>2, <2>1, <2>2 DEF Durables, Signed
  <1>4. CASE pc \notin BothSigned
    <2>1. ~(\A s \in Sectors : Signed(s))
      BY <1>4 DEF IInv, SectorInv, Selecting
    <2>2. Losers = {}
      BY <2>1 DEF Losers, Signed
    <2>3. \A s \in Sectors : Signed(s) => s = Home
      BY <1>1, <1>2, <2>1
    <2> QED BY <1>1, <1>2, <2>2, <2>3 DEF Durables, Signed
  <1> QED BY <1>3, <1>4

LEMMA Stored ==
  IInv /\ NumInv /\ pc \notin Selecting => DurableMap = Content(main[Home].slot)
  BY HomeDurable, DurableTable

LEMMA DurableOne == IInv => Durables = {} \/ \E s \in Sectors : Durables = {s}
  <1> SUFFICES ASSUME IInv PROVE Durables = {} \/ \E s \in Sectors : Durables = {s}
    OBVIOUS
  <1>1. CASE \A s \in Sectors : Signed(s)
    BY <1>1, LosersOne DEF Durables, Sectors
  <1>2. CASE ~\A s \in Sectors : Signed(s)
    BY <1>2 DEF Durables, Signed, Sectors
  <1> QED BY <1>1, <1>2

(* The flash as a dictionary, before and after a step.                      *)
LEMMA StoreSame ==
  ASSUME IInv, DInv, DInv', Durables' = Durables, \A s \in Sectors : main'[s].slot = main[s].slot
  PROVE  DurableMap' = DurableMap
  <1>1. (Durables = {} => DurableMap = [k \in Keys |-> NoEntry])'
    BY DurableNone, PTL
  <1>2. (NumInv => \A s \in Sectors : (Durables = {s}) => DurableMap = Content(main[s].slot))'
    BY DurableTable, PTL
  <1>3. CASE Durables = {}
    BY <1>1, <1>3, DurableNone
  <1>4. CASE \E s \in Sectors : Durables = {s}
    <2>1. PICK s \in Sectors : Durables = {s}
      BY <1>4
    <2>2. DurableMap = Content(main[s].slot)
      BY <2>1, DurableTable DEF DInv
    <2>3. DurableMap' = Content(main'[s].slot)
      BY <1>2, <2>1 DEF DInv
    <2> QED BY <2>2, <2>3
  <1> QED BY <1>3, <1>4, DurableOne

LEMMA StoreQuiet ==
  ASSUME IInv, DInv, DInv', main' = main
  PROVE  DurableMap' = DurableMap
  <1>1. Durables' = Durables
    BY DEF Durables, Losers
  <1> QED BY <1>1, StoreSame

LEMMA StoreTable ==
  ASSUME IInv, DInv, IInv', DInv', pc \notin Selecting, pc' \notin Selecting
  PROVE  /\ DurableMap = Content(main[Home].slot)
         /\ DurableMap' = Content(main'[Home'].slot)
         /\ Home \in Sectors
  <1>1. (IInv /\ NumInv /\ pc \notin Selecting => DurableMap = Content(main[Home].slot))'
    BY Stored, PTL
  <1> QED BY <1>1, Stored, HomeDurable DEF DInv

LEMMA StoreKept ==
  ASSUME IInv, DInv, IInv', DInv', pc \notin Selecting, pc' \notin Selecting,
         Home' = Home, \A k \in Keys : ContentOf(main'[Home].slot, k) = ContentOf(main[Home].slot, k)
  PROVE  DurableMap' = DurableMap
  <1>1. /\ DurableMap = Content(main[Home].slot)
        /\ DurableMap' = Content(main'[Home'].slot)
    BY StoreTable
  <1> QED BY <1>1 DEF Content

(* Between calls a reader finds what a restart would.                       *)
LEMMA VisibleContent ==
  IInv /\ EInv /\ NumInv /\ pc = "idle" =>
    /\ Unique(InUse)
    /\ DurableMap = Content(InUse)
    /\ \A k \in Keys : VisibleEntry(k) = ContentOf(InUse, k)
  <1> SUFFICES ASSUME IInv, EInv, NumInv, pc = "idle"
               PROVE  /\ Unique(InUse)
                      /\ DurableMap = Content(InUse)
                      /\ \A k \in Keys : VisibleEntry(k) = ContentOf(InUse, k)
    OBVIOUS
  <1>1. Unique(InUse) /\ pc \notin Selecting
    BY DEF EInv, UniqueInv, Recovering, Selecting, Formatting, InitLabels
  <1>2. DurableMap = Content(InUse)
    BY <1>1, Stored DEF Home, InUse
  <1>3. ASSUME NEW k \in Keys PROVE VisibleEntry(k) = ContentOf(InUse, k)
    <2> DEFINE S == {n \in Slots : InUse[n].k = k}
               words == str[ctrl.str_sector]
               x == kved_key_index_find(main, ctrl.sector, k)
    <2>1. x = First(S) /\ VisibleEntry(k) = EntryAt(main[ctrl.sector], x, words)
      BY DEF kved_key_index_find, InUse, VisibleEntry
    <2>2. /\ (First(S) = 0) <=> (S = {})
          /\ S # {} => First(S) \in S
      <3>1. S \in SUBSET Slots
        OBVIOUS
      <3> QED BY <3>1, FirstIsLeast
    <2>3. ctrl.sector \in Sectors
      BY Typed
    <2>4. x # 0 => main[ctrl.sector].slot[x].t # "str"
      BY <2>1, <2>2, <2>3 DEF NumInv, InUse
    <2> HIDE DEF words, x
    <2>5. VisibleEntry(k) = IF x = 0 THEN NoEntry
                            ELSE [type |-> InUse[x].t, val |-> InUse[x].v]
      BY <2>1, <2>4, EntryNumber DEF InUse
    <2>6. CASE x = 0
      <3>1. \A n \in Slots : InUse[n].k # k
        BY <2>1, <2>2, <2>6
      <3> QED BY <2>5, <2>6, <3>1, ContentNone
    <2>7. CASE x # 0
      <3>1. x \in Slots /\ InUse[x].k = k
        BY <2>1, <2>2, <2>7
      <3> QED BY <1>1, <2>5, <2>7, <3>1, ContentUnique
    <2> QED BY <2>6, <2>7
  <1> QED BY <1>1, <1>2, <1>3

(* Between calls a caller reads what it would read after a restart: the     *)
(* sectors in use are the ones kved_init selects, and no key has a second   *)
(* entry that a restart would prefer.                                       *)
THEOREM PersistentCorrect ==
  ASSUME WholeEntries, NumbersOnly
  PROVE  Spec => []Persistent
  <1>1. IInv /\ EInv /\ DInv => Persistent
    BY VisibleContent DEF DInv, Persistent, DurableEntry, Content
  <1> QED BY <1>1, InductiveInvariant, EntriesInvariant, ValuesInvariant, PTL

-----------------------------------------------------------------------------
(* The flash is a dictionary: each step is a step of KvStore, or none.      *)
Refines == D!Next \/ UNCHANGED D!vars

LEMMA Stutter ==
  ASSUME DurableMap' = DurableMap, Mode' = Mode, call' = call, ret' = ret
  PROVE  Refines
  BY DEF Refines, D!vars

LEMMA Stops ==
  ASSUME DurableMap' = DurableMap, Mode' = "off"
  PROVE  Refines
  BY DEF Refines, D!Next, D!Stop

LEMMA ModeOff == (call.op = "init" /\ pc # "idle" => Mode = "off") /\ (pc = "off" /\ call.op = "none" => Mode = "off")
  BY DEF Mode

LEMMA ContentFree == \A k \in Keys : ContentOf(EmptyTable, k) = NoEntry
  <1> SUFFICES ASSUME NEW k \in Keys PROVE ContentOf(EmptyTable, k) = NoEntry
    OBVIOUS
  <1>1. \A n \in Slots : EmptyTable[n].k # k
    BY KeyKinds DEF EmptyTable, FreeSlot
  <1> QED BY <1>1, ContentNone

(* Recovery chooses the sector that counts already.                         *)
LEMMA StoreSelected ==
  ASSUME IInv, EInv, DInv, DInv', kved_sector_consistency_check
  PROVE  Refines
  <1>1. main \in MainType
    BY Typed
  <1>2. main' = [s \in Sectors |-> IF s \in Losers THEN [main[s] EXCEPT !.sig = "zero"] ELSE main[s]]
    BY DEF kved_sector_consistency_check
  <1>3. \A s \in Sectors : main'[s].slot = main[s].slot
    BY <1>1, <1>2 DEF MainType
  <1>4. \A s \in Sectors : main'[s].sig = IF s \in Losers THEN "zero" ELSE main[s].sig
    BY <1>1, <1>2 DEF MainType
  <1>5. Losers' = {}
    <2>1. \E s \in Sectors : main'[s].sig # "ok"
      <3>1. CASE \A s \in Sectors : Signed(s)
        BY <1>4, <3>1, LosersOne
      <3>2. CASE ~\A s \in Sectors : Signed(s)
        <4>1. PICK s \in Sectors : main[s].sig # "ok"
          BY <3>2 DEF Signed
        <4> QED BY <1>4, <4>1
      <3> QED BY <3>1, <3>2
    <2> QED BY <2>1 DEF Losers
  <1>6. Durables' = Durables
    BY <1>4, <1>5 DEF Durables
  <1>7. DurableMap' = DurableMap
    BY <1>3, <1>6, StoreSame
  <1>8. Mode' = "off"
    BY DEF kved_sector_consistency_check, Mode, Goto, NoCall
  <1> QED BY <1>7, <1>8, Stops

LEMMA StoreStopped ==
  ASSUME IInv, DInv, DInv', kved_deinit \/ PowerCut
  PROVE  Refines
  <1>1. main' = main /\ Mode' = "off"
    BY DEF kved_deinit, PowerCut, PowerOff, flash, Mode, NoCall
  <1> QED BY <1>1, StoreQuiet, Stops

LEMMA StoreRead ==
  ASSUME IInv, DInv, DInv', InitIndexSector \/ InitStringSector \/ InitFormatString
  PROVE  Refines
  <1>1. call.op = "init"
    BY DEF InitIndexSector, InitStringSector, InitFormatString, IInv, CallInv, InitLabels
  <1>2. main' = main /\ call' = call /\ ret' = ret /\ pc # "idle" /\ pc' # "idle"
    BY DEF InitIndexSector, InitStringSector, InitFormatString, flash, Goto
  <1>3. Mode' = Mode
    BY <1>1, <1>2 DEF Mode
  <1> QED BY <1>2, <1>3, StoreQuiet, Stutter

LEMMA StoreFormatted ==
  ASSUME IInv, EInv, DInv, IInv', DInv', InitFormatIndex
  PROVE  Refines
  <1>1. /\ main \in MainType /\ \A s \in Sectors : ~Signed(s)
        /\ call.op = "init" /\ pc \in {"i_erase", "i_cnt", "i_sig"} /\ "A" \in Sectors
    BY Typed DEF InitFormatIndex, IInv, SectorInv, CallInv, Formatting, InitLabels, Sectors
  <1>2. call' = call /\ ret' = ret /\ pc' \in {"i_cnt", "i_sig", "i_string"}
    BY DEF InitFormatIndex, Goto
  <1>3. Mode' = Mode
    BY <1>1, <1>2 DEF Mode
  <1>4. DurableMap = [k \in Keys |-> NoEntry]
    BY <1>1, DurableNone DEF Durables, Signed
  <1>5. DurableMap' = [k \in Keys |-> NoEntry]
    <2>1. CASE pc # "i_sig"
      <3>1. \A s \in Sectors : main'[s].sig # "ok"
        BY <1>1, <2>1 DEF InitFormatIndex, MainType, Signed, ErasedMain
      <3>2. (Durables = {} => DurableMap = [k \in Keys |-> NoEntry])'
        BY DurableNone, PTL
      <3> QED BY <3>1, <3>2 DEF Durables
    <2>2. CASE pc = "i_sig"
      <3>1. pc' = "i_string" /\ main' = Sign(main, "A") /\ ctrl' = kved_sector_stats_read(main', "A")
        BY <2>2 DEF InitFormatIndex, Goto
      <3>2. main'["A"].slot = EmptyTable
        BY <1>1, <2>2, <3>1 DEF Sign, MainType, EInv, FormInv
      <3>3. ctrl'.sector = "A"
        <4>1. ctrl \in CtrlType
          BY Typed
        <4> QED BY <3>1, <4>1 DEF kved_sector_stats_read, CtrlType
      <3>4. (IInv /\ NumInv /\ pc \notin Selecting => DurableMap = Content(main[Home].slot))'
        BY Stored, PTL
      <3>5. DurableMap' = Content(main'[Home'].slot) /\ Home' = "A"
        BY <3>1, <3>3, <3>4 DEF Selecting, Formatting, Home, DInv
      <3>6. DurableMap' = Content(EmptyTable)
        BY <3>2, <3>5
      <3> QED BY <3>6, ContentFree DEF Content
    <2> QED BY <2>1, <2>2
  <1> QED BY <1>2, <1>3, <1>4, <1>5, Stutter

(* The checks that end a recovery, or a sector switch.                      *)
LEMMA StoreChecked ==
  ASSUME IInv, DInv, DInv', kved_string_consistency_check
  PROVE  Refines
  <1>1. pc = "check" /\ main' = main
    BY DEF kved_string_consistency_check, flash
  <1>2. /\ call' = call /\ ret' = ret /\ pc' \in {"scan", "off"}
        /\ pc' = "off" => call.op = "init"
    BY <1>1 DEF kved_string_consistency_check, Goto, locals, DInv, TextInv
  <1>3. Mode' = Mode
    BY <1>1, <1>2 DEF Mode
  <1> QED BY <1>1, <1>2, <1>3, StoreQuiet, Stutter

LEMMA StoreRepaired ==
  ASSUME IInv, EInv, DInv, IInv', DInv', kved_data_consistency_check
  PROVE  Refines
  <1> USE DEF Selecting, Formatting
  <1> DEFINE x == ToDelete
             S == {n \in Slots : /\ n >= i
                                 /\ \/ HalfWritten(main[ctrl.sector].slot[n])
                                    \/ DuplicatedAhead(ctrl.sector, n)}
  <1>1. /\ pc = "scan" /\ pc' = pc /\ call' = call /\ ret' = ret /\ x # 0
        /\ main' = DeleteSlot(main, ctrl.sector, x)
    BY DEF kved_data_consistency_check
  <1>2. main \in MainType /\ ctrl.sector \in Sectors /\ InUse \in Tables /\ ctrl \in CtrlType
    BY Typed
  <1>3. x \in Slots /\ (HalfWritten(InUse[x]) \/ DuplicatedAhead(ctrl.sector, x))
    <2>1. S \in SUBSET Slots /\ x = First(S)
      BY DEF ToDelete
    <2> QED BY <1>1, <2>1, FirstIsLeast DEF InUse
  <1>4. ctrl'.sector = ctrl.sector
    BY <1>2 DEF kved_data_consistency_check, CtrlType
  <1> HIDE DEF x
  <1>5. /\ main'[ctrl.sector].slot[x].k = "deleted"
        /\ \A n \in Slots : n # x => main'[ctrl.sector].slot[n] = InUse[n]
    BY <1>1, <1>2, <1>3 DEF DeleteSlot, InUse, MainType, Entries
  <1>6. ASSUME NEW k \in Keys
        PROVE  ContentOf(main'[ctrl.sector].slot, k) = ContentOf(InUse, k)
    <2>1. InUse[x].k = k => \E m \in Slots : m > x /\ InUse[m].k = k
      BY <1>3, KeyKinds DEF HalfWritten, DuplicatedAhead, InUse
    <2>2. main'[ctrl.sector].slot[x].k # k
      BY <1>5, KeyKinds
    <2> DEFINE g == main'[ctrl.sector].slot
    <2>3. Aside(InUse, g, k, x)
      BY <1>5, <2>1, <2>2 DEF Aside
    <2> HIDE DEF g
    <2>4. ContentOf(g, k) = ContentOf(InUse, k)
      BY <2>3, ContentSame
    <2> QED BY <2>4 DEF g
  <1>7. Home = ctrl.sector /\ Home' = Home
    BY <1>1, <1>4 DEF Home
  <1>8. DurableMap' = DurableMap
    BY <1>1, <1>6, <1>7, StoreKept DEF InUse
  <1>9. Mode' = Mode
    BY <1>1 DEF Mode
  <1> QED BY <1>1, <1>8, <1>9, Stutter

LEMMA StoreDone ==
  ASSUME IInv, EInv, DInv, DInv', ConsistencyCheckDone
  PROVE  Refines
  <1> USE DEF Selecting, Formatting, Goto
  <1>1. pc = "scan" /\ main' = main /\ ctrl' = ctrl /\ call.op \in {"init", "write", "compact"}
    BY DEF ConsistencyCheckDone, flash, EInv, ModeInv
  <1>2. DurableMap' = DurableMap
    BY <1>1, StoreQuiet
  <1>3. CASE call.op = "write" /\ old = 0
    <2>1. call' = call /\ ret' = ret /\ pc' \in {"w_stridx", "w_val"}
      BY <1>3 DEF ConsistencyCheckDone, AppendFrom
    <2>2. Mode' = Mode
      BY <1>1, <2>1 DEF Mode
    <2> QED BY <1>2, <2>1, <2>2, Stutter
  <1>4. CASE call.op = "init"
    <2>1. Mode = "off" /\ Mode' = "idle"
      BY <1>1, <1>4 DEF ConsistencyCheckDone, Return, Mode
    <2> QED BY <1>2, <2>1 DEF Refines, D!Next, D!Start
  <1>5. CASE call.op = "compact" \/ (call.op = "write" /\ old # 0)
    <2>1. Mode = "busy" /\ Mode' = "idle" /\ ret' = "KVED_OK"
      BY <1>1, <1>5 DEF ConsistencyCheckDone, Return, Mode
    <2>2. D!HasEffect(DurableMap)
      <3>1. CASE call.op = "compact"
        BY <3>1 DEF D!HasEffect
      <3>2. CASE call.op = "write" /\ old # 0
        <4>1. call.key \in Keys
          BY <1>1, <3>2 DEF IInv, CallInv
        <4>2. PICK n \in Slots : InUse[n] = Wanted
          BY <1>1, <3>2 DEF DInv, DataInv, Renewed, Late
        <4>3. InUse[n].k = call.key /\ InUse[n].t = call.type /\ InUse[n].v = call.val
          BY <4>2 DEF Wanted
        <4>4. ContentOf(InUse, call.key) = [type |-> call.type, val |-> call.val]
          <5>1. Unique(InUse)
            BY <1>1, <3>2 DEF EInv, UniqueInv, Recovering
          <5>2. ContentOf(InUse, InUse[n].k) = [type |-> InUse[n].t, val |-> InUse[n].v]
            BY <4>1, <4>3, <5>1, ContentUnique
          <5> QED BY <4>3, <5>2
        <4>5. DurableMap = Content(InUse)
          BY <1>1, Stored DEF DInv, Home, InUse
        <4> QED BY <3>2, <4>1, <4>4, <4>5 DEF D!HasEffect, Content
      <3> QED BY <1>5, <3>1, <3>2
    <2> QED BY <1>2, <2>1, <2>2 DEF Refines, D!Next, D!Return
  <1> QED BY <1>1, <1>3, <1>4, <1>5

(* The client calls, and reads.                                             *)
LEMMA StoreInvoked ==
  ASSUME IInv, DInv, DInv', kved_data_write \/ kved_data_delete \/ kved_compact_database
  PROVE  Refines
  <1>1. /\ pc = "idle" /\ main' = main /\ ret' = "none"
        /\ pc' \in {"write", "delete", "sw_erase"}
        /\ call'.op \in {"write", "delete", "compact"}
    BY DEF kved_data_write, kved_data_delete, kved_compact_database, Enter, flash, Goto
  <1>2. Mode = "idle" /\ Mode' = "busy"
    BY <1>1 DEF Mode
  <1>3. DurableMap' = DurableMap
    BY <1>1, StoreQuiet
  <1> QED BY <1>1, <1>2, <1>3 DEF Refines, D!Next, D!Invoke

LEMMA StoreReading ==
  ASSUME IInv, EInv, DInv, DInv', kved_data_read
  PROVE  Refines
  <1>1. pc = "idle" /\ pc' = pc /\ main' = main
    BY DEF kved_data_read, flash
  <1>2. Mode = "idle" /\ Mode' = "idle"
    BY <1>1 DEF Mode
  <1>3. DurableMap' = DurableMap
    BY <1>1, StoreQuiet
  <1>4. Unique(InUse) /\ DurableMap = Content(InUse)
    BY <1>1, VisibleContent DEF DInv
  <1>5. PICK k \in Keys \cup {BadKey} :
       LET n == kved_key_index_find(main, ctrl.sector, k)
       IN  IF k = BadKey \/ n = 0
             THEN /\ ret' = "KVED_INVALID_KEY"
                  /\ call' = [op |-> "read", key |-> k, type |-> "none", val |-> FREE]
             ELSE /\ ret' = "KVED_OK"
                  /\ \E d \in Decoded(main[ctrl.sector].slot[n], str[ctrl.str_sector]) :
                       call' = [op |-> "read", key |-> k, type |-> d.type, val |-> d.val]
    BY DEF kved_data_read
  <1> DEFINE S == {n \in Slots : InUse[n].k = k}
             n == kved_key_index_find(main, ctrl.sector, k)
  <1>6. /\ (n = 0) <=> (S = {})
        /\ S # {} => n \in S
    <2>1. S \in SUBSET Slots /\ n = First(S)
      BY DEF kved_key_index_find, InUse
    <2> QED BY <2>1, FirstIsLeast
  <1>7. CASE k = BadKey \/ n = 0
    <2>1. call'.op = "read" /\ call'.key = k /\ ret' = "KVED_INVALID_KEY"
      BY <1>5, <1>7
    <2>2. k \in Keys => DurableMap[k].type = "none"
      <3>1. k \in Keys => \A m \in Slots : InUse[m].k # k
        BY <1>6, <1>7, KeyKinds
      <3> QED BY <1>4, <3>1, ContentNone DEF Content, NoEntry
    <2> QED BY <1>2, <1>3, <2>1, <2>2 DEF Refines, D!Next, D!Read, D!Absent
  <1>8. CASE ~(k = BadKey \/ n = 0)
    <2>1. k \in Keys /\ n \in Slots /\ InUse[n].k = k
      BY <1>6, <1>8
    <2>2. InUse[n].t = "num"
      <3>1. ctrl.sector \in Sectors
        BY Typed
      <3> QED BY <2>1, <3>1 DEF DInv, NumInv, InUse
    <2> HIDE DEF n
    <2>3. PICK d \in Decoded(InUse[n], str[ctrl.str_sector]) :
            call' = [op |-> "read", key |-> k, type |-> d.type, val |-> d.val]
      BY <1>5, <1>8 DEF n, InUse
    <2>4. d.type = "num" /\ d.val = InUse[n].v
      BY <2>2 DEF Decoded
    <2>5. DurableMap[k] = [type |-> "num", val |-> InUse[n].v]
      <3>1. ContentOf(InUse, InUse[n].k) = [type |-> InUse[n].t, val |-> InUse[n].v]
        BY <1>4, <2>1, ContentUnique
      <3> QED BY <1>4, <2>1, <2>2, <3>1 DEF Content
    <2>6. call'.op = "read" /\ call'.key = k /\ call'.type = "num" /\ call'.val = InUse[n].v
      BY <2>3, <2>4
    <2>7. ret' = "KVED_OK"
      BY <1>5, <1>8 DEF n
    <2> QED BY <1>2, <1>3, <2>1, <2>5, <2>6, <2>7 DEF Refines, D!Next, D!Read, D!Absent
  <1> QED BY <1>7, <1>8

(* Where the call that writes stands.                                       *)
LEMMA Writer ==
  ASSUME IInv, EInv, DInv, pc = "write"
  PROVE  /\ call.op = "write" /\ call.type = "num" /\ call.key \in Keys \cup {BadKey}
         /\ Unique(InUse) /\ DurableMap = Content(InUse) /\ Mode = "busy"
  <1> USE DEF Selecting, Formatting, InitLabels
  <1>1. call.op = "write" /\ Unique(InUse)
    BY DEF EInv, ModeInv, UniqueInv, Recovering
  <1>2. call.type = "num" /\ call.key \in Keys \cup {BadKey}
    BY <1>1 DEF DInv, NumInv, IInv, CallInv
  <1>3. DurableMap = Content(InUse)
    BY Stored DEF DInv, Home, InUse
  <1> QED BY <1>1, <1>2, <1>3 DEF Mode

LEMMA StoreAnswered ==
  ASSUME IInv, EInv, DInv, DInv', WriteRejected \/ WriteUnchanged
  PROVE  Refines
  <1>1. pc = "write" /\ main' = main /\ Mode' = "idle"
    BY DEF WriteRejected, WriteUnchanged, flash, Return, Mode
  <1>2. DurableMap' = DurableMap
    BY <1>1, StoreQuiet
  <1>3. /\ call.op = "write" /\ call.type = "num" /\ call.key \in Keys \cup {BadKey}
        /\ Unique(InUse) /\ DurableMap = Content(InUse) /\ Mode = "busy"
    BY <1>1, Writer
  <1>4. CASE WriteRejected
    <2>1. ret' = "KVED_INVALID_KEY" /\ call.key \notin Keys
      BY <1>4, KeysAssumption DEF WriteRejected, Return, kved_is_valid_key
    <2> QED BY <1>1, <1>2, <1>3, <2>1 DEF Refines, D!Next, D!Fail
  <1>5. CASE WriteUnchanged
    <2>1. ret' = "KVED_OK" /\ call.key \in Keys /\ TRUE \in Unchanged
      BY <1>3, <1>5 DEF WriteUnchanged, Return, kved_is_valid_key
    <2>2. Found # 0 /\ Found \in Slots /\ InUse[Found].k = call.key
      <3>1. Found # 0
        BY <2>1 DEF Unchanged
      <3>2. Found \in 0 .. NumEntries
        BY FindType DEF Found
      <3> QED BY <1>3, <2>1, <3>1, <3>2, FoundEntry DEF Slots
    <2>3. InUse[Found].v = call.val
      <3>1. Unchanged = {InUse[Found].v = call.val}
        BY <1>3, <2>2 DEF Unchanged, Equal, InUse
      <3> QED BY <2>1, <3>1
    <2>4. InUse[Found].t = "num"
      <3>1. ctrl.sector \in Sectors
        BY Typed
      <3> QED BY <2>1, <2>2, <3>1 DEF DInv, NumInv, InUse
    <2>5. DurableMap[call.key] = [type |-> call.type, val |-> call.val]
      <3>1. ContentOf(InUse, InUse[Found].k) = [type |-> InUse[Found].t, val |-> InUse[Found].v]
        BY <1>3, <2>1, <2>2, ContentUnique
      <3> QED BY <1>3, <2>1, <2>2, <2>3, <2>4, <3>1 DEF Content
    <2>6. D!HasEffect(DurableMap)
      BY <1>3, <2>5 DEF D!HasEffect
    <2> QED BY <1>1, <1>2, <1>3, <2>1, <2>6 DEF Refines, D!Next, D!Return
  <1> QED BY <1>4, <1>5

(* The steps of a call that write nothing, or only the value or the text.   *)
LEMMA StorePrepared ==
  ASSUME IInv, EInv, DInv, DInv',
         WriteFull \/ WriteSwitch \/ WriteAppend \/ WriteStringIndex \/ WriteStringData
  PROVE  Refines
  <1> USE DEF Appending, Goto
  <1>1. /\ main' = main /\ call' = call /\ ret' = ret
        /\ pc \in {"write", "w_stridx", "w_strdata"}
        /\ pc' \in {"full", "sw_erase", "w_stridx", "w_strdata", "w_val"}
    BY DEF WriteFull, WriteSwitch, WriteAppend, Writing, WriteStringIndex, WriteStringData,
           AppendFrom, flash
  <1>2. call.op = "write"
    BY <1>1 DEF EInv, ModeInv
  <1>3. Mode' = Mode
    BY <1>1, <1>2 DEF Mode
  <1> QED BY <1>1, <1>3, StoreQuiet, Stutter

LEMMA StoreValue ==
  ASSUME IInv, EInv, DInv, IInv', DInv', WriteValue
  PROVE  Refines
  <1> USE DEF Selecting, Formatting, InitLabels
  <1> DEFINE x == ctrl.first_free
             g == main'[ctrl.sector].slot
  <1>1. /\ pc = "w_val" /\ pc' = "w_key" /\ call' = call /\ ret' = ret /\ ctrl' = ctrl
        /\ main' = [main EXCEPT ![ctrl.sector].slot[x] = ProgramValue(@, EncodedValue)]
    BY DEF WriteValue, Goto
  <1>2. main \in MainType /\ ctrl.sector \in Sectors /\ InUse \in Tables
    BY Typed
  <1>3. x \in Slots /\ InUse[x].k = "free"
    BY <1>1, NextFree
  <1>4. g[x].k = "free" /\ \A n \in Slots : n # x => g[n] = InUse[n]
    <2>1. g[x] = ProgramValue(InUse[x], EncodedValue) /\ \A n \in Slots : n # x => g[n] = InUse[n]
      BY <1>1, <1>2, <1>3 DEF InUse, MainType
    <2>2. InUse[x] \in Entries
      BY <1>2, <1>3 DEF Tables
    <2> QED BY <1>3, <2>1, <2>2 DEF ProgramValue, Entries
  <1> HIDE DEF g, x
  <1>5. ASSUME NEW k \in Keys PROVE ContentOf(g, k) = ContentOf(InUse, k)
    <2>1. Aside(InUse, g, k, x)
      BY <1>3, <1>4, KeyKinds DEF Aside
    <2> QED BY <2>1, ContentSame
  <1>6. Home = ctrl.sector /\ Home' = Home
    BY <1>1 DEF Home
  <1>7. DurableMap' = DurableMap
    BY <1>1, <1>5, <1>6, StoreKept DEF InUse, g
  <1>8. call.op = "write"
    BY <1>1 DEF EInv, ModeInv, Appending
  <1>9. Mode' = Mode
    BY <1>1, <1>8 DEF Mode
  <1> QED BY <1>1, <1>7, <1>9, Stutter

LEMMA StoreCardinality == \A S : D!Cardinality(S) = Cardinality(S)
  BY DEF D!Cardinality, Cardinality

(* The table is full when every entry holds another key.                    *)
LEMMA TableFull ==
  ASSUME InUse \in Tables, Unique(InUse), Num(InUse, Markers) = 0, DurableMap = Content(InUse),
         \A n \in Slots : InUse[n].k \in Keys => InUse[n].t = "num"
  PROVE  Cardinality({k \in Keys : ~D!Absent(DurableMap[k])}) = NumEntries
  <1> DEFINE T == {k \in Keys : ~D!Absent(DurableMap[k])}
             f == [n \in Slots |-> InUse[n].k]
  <1>1. \A n \in Slots : InUse[n].k \in Keys
    <2>1. \A n \in Slots : InUse[n].k \notin Markers
      BY NumType
    <2>2. \A n \in Slots : InUse[n].k \in Keys \cup Markers
      BY DEF Tables, Entries
    <2> QED BY <2>1, <2>2
  <1>2. \A n \in Slots : InUse[n].k \in T
    <2> SUFFICES ASSUME NEW n \in Slots PROVE InUse[n].k \in T
      OBVIOUS
    <2>1. ContentOf(InUse, InUse[n].k) = [type |-> InUse[n].t, val |-> InUse[n].v]
      BY <1>1, ContentUnique
    <2>2. DurableMap[InUse[n].k].type = "num"
      BY <1>1, <2>1 DEF Content
    <2> QED BY <1>1, <2>2 DEF D!Absent
  <1>3. \A k \in T : \E n \in Slots : InUse[n].k = k
    <2> SUFFICES ASSUME NEW k \in T, \A n \in Slots : InUse[n].k # k PROVE FALSE
      OBVIOUS
    <2>1. ContentOf(InUse, k) = NoEntry
      BY ContentNone
    <2> QED BY <2>1 DEF Content, NoEntry, D!Absent
  <1>4. \A n, m \in Slots : InUse[n].k = InUse[m].k => n = m
    <2> SUFFICES ASSUME NEW n \in Slots, NEW m \in Slots, InUse[n].k = InUse[m].k, n # m PROVE FALSE
      OBVIOUS
    <2>1. n < m \/ m < n
      BY DEF Slots
    <2> QED BY <1>1, <2>1 DEF Unique, Superseded
  <1>5. IsFiniteSet(Slots) /\ Cardinality(Slots) = NumEntries
    BY FS_Interval DEF Slots
  <1> HIDE DEF T
  <1>6. f \in Bijection(Slots, T)
    <2>1. f \in [Slots -> T]
      BY <1>2
    <2>2. f \in Injection(Slots, T)
      BY <1>4, <2>1 DEF Injection, IsInjective
    <2>3. f \in Surjection(Slots, T)
      BY <1>3, <2>1 DEF Surjection
    <2> QED BY <2>2, <2>3 DEF Bijection
  <1>7. Cardinality(T) = NumEntries
    BY <1>5, <1>6, FS_Bijection DEF ExistsBijection
  <1> QED BY <1>7 DEF T

LEMMA StoreFull ==
  ASSUME IInv, EInv, DInv, DInv', kved_dump
  PROVE  Refines
  <1> USE DEF Selecting, Formatting, InitLabels
  <1>1. pc = "full" /\ main' = main /\ Mode' = "idle" /\ ret' = "KVED_TABLE_FULL"
    BY DEF kved_dump, flash, Return, Mode
  <1>2. DurableMap' = DurableMap
    BY <1>1, StoreQuiet
  <1>3. call.op = "write" /\ call.key \in Keys /\ Unique(InUse)
    BY <1>1 DEF EInv, ModeInv, UniqueInv, Recovering
  <1>4. DurableMap = Content(InUse) /\ InUse \in Tables /\ ctrl.sector \in Sectors
    BY <1>1, Stored, Typed DEF DInv, Home, InUse
  <1>5. Num(InUse, Markers) = 0
    <2>1. ctrl.used = NumEntries /\ ctrl.used = NumEntries - Num(InUse, Markers)
      BY <1>1 DEF DInv, DataInv, EInv, CountInv, Agrees
    <2>2. Num(InUse, Markers) \in 0 .. NumEntries
      BY NumType
    <2> QED BY <2>1, <2>2
  <1>6. \A n \in Slots : InUse[n].k \in Keys => InUse[n].t = "num"
    BY <1>4 DEF DInv, NumInv, InUse
  <1>7. Cardinality({k \in Keys : ~D!Absent(DurableMap[k])}) = NumEntries
    BY <1>3, <1>4, <1>5, <1>6, TableFull
  <1>8. DurableMap[call.key] # [type |-> call.type, val |-> call.val]
    <2> SUFFICES ASSUME ContentOf(InUse, call.key) = [type |-> call.type, val |-> call.val] PROVE FALSE
      BY <1>3, <1>4 DEF Content
    <2>1. call.type = "num"
      BY <1>3 DEF DInv, NumInv
    <2>2. PICK n \in Slots : InUse[n].k = call.key
      BY <2>1, ContentNone DEF NoEntry
    <2>3. ContentOf(InUse, InUse[n].k) = [type |-> InUse[n].t, val |-> InUse[n].v]
      BY <1>3, <2>2, ContentUnique
    <2>4. InUse[n] = Wanted
      <3>1. InUse[n] \in Entries /\ InUse[n].t = call.type /\ InUse[n].v = call.val
        BY <1>4, <2>2, <2>3 DEF Tables
      <3>2. InUse[n] = [k |-> InUse[n].k, t |-> InUse[n].t, v |-> InUse[n].v]
        BY <3>1 DEF Entries
      <3> QED BY <2>2, <3>1, <3>2 DEF Wanted
    <2> QED BY <1>1, <2>4 DEF DInv, DataInv
  <1>9. ~D!HasEffect(DurableMap)
    BY <1>3, <1>8 DEF D!HasEffect
  <1>10. Mode = "busy"
    BY <1>1, <1>3 DEF Mode
  <1>11. D!Cardinality({k \in Keys : ~D!Absent(DurableMap[k])}) = NumEntries
    BY <1>7, StoreCardinality
  <1> QED BY <1>1, <1>2, <1>3, <1>9, <1>10, <1>11 DEF Refines, D!Next, D!Fail

(* The steps that change the dictionary: the key of a new entry ...         *)
LEMMA StoreKey ==
  ASSUME IInv, EInv, DInv, IInv', DInv', WriteKey
  PROVE  Refines
  <1> USE DEF Selecting, Formatting, InitLabels
  <1> DEFINE x == ctrl.first_free
             g == main'[ctrl.sector].slot
  <1>1. /\ pc = "w_key" /\ ctrl'.sector = ctrl.sector
        /\ main' = [main EXCEPT ![ctrl.sector].slot[x] = ProgramKey(@, call.key, call.type)]
        /\ \/ pc' = "idle" /\ ret' = "KVED_OK"
           \/ pc' = "w_del" /\ call' = call /\ ret' = ret
    <2>1. ctrl \in CtrlType
      BY Typed
    <2> QED BY <2>1 DEF WriteKey, Return, Goto, CtrlType
  <1>2. main \in MainType /\ ctrl.sector \in Sectors /\ InUse \in Tables
    BY Typed
  <1>3. call.op = "write" /\ call.key \in Keys /\ Mode = "busy"
    BY <1>1 DEF EInv, ModeInv, Appending, IInv, CallInv, Mode
  <1>4. /\ x \in Slots /\ InUse[x].k = "free" /\ InUse[x].v = call.val
        /\ \A n \in Slots : n > x => InUse[n].k = "free"
    <2>1. x \in Slots /\ InUse[x].k = "free" /\ \A n \in Slots : (InUse[n].k = "free") <=> (n >= x)
      BY <1>1, NextFree
    <2> QED BY <1>1, <2>1 DEF DInv, DataInv, Slots
  <1>5. g[x] = Wanted /\ \A n \in Slots : n # x => g[n] = InUse[n]
    <2>1. /\ g[x] = ProgramKey(InUse[x], call.key, call.type)
          /\ \A n \in Slots : n # x => g[n] = InUse[n]
      BY <1>1, <1>2, <1>4 DEF InUse, MainType
    <2>2. InUse[x] \in Entries
      BY <1>2, <1>4 DEF Tables
    <2>3. ProgramKey(InUse[x], call.key, call.type) = Wanted
      BY <1>4, <2>2 DEF ProgramKey, Entries, Wanted
    <2> QED BY <2>1, <2>3
  <1> HIDE DEF g, x
  <1>6. ContentOf(g, call.key) = [type |-> call.type, val |-> call.val]
    <2>1. g[x].k = call.key /\ g[x].t = call.type /\ g[x].v = call.val
      BY <1>5 DEF Wanted
    <2>2. \A n \in Slots : n > x => g[n].k # call.key
      <3> SUFFICES ASSUME NEW n \in Slots, n > x PROVE g[n].k # call.key
        OBVIOUS
      <3>1. n # x
        BY <1>4 DEF Slots
      <3> QED BY <1>3, <1>4, <1>5, <3>1, KeyKinds
    <2>3. ContentOf(g, call.key) = [type |-> g[x].t, val |-> g[x].v]
      BY <1>4, <2>1, <2>2, ContentAt
    <2> QED BY <2>1, <2>3
  <1>7. ASSUME NEW k \in Keys \ {call.key} PROVE ContentOf(g, k) = ContentOf(InUse, k)
    <2>1. Aside(InUse, g, k, x)
      BY <1>4, <1>5, KeyKinds DEF Aside, Wanted
    <2> QED BY <2>1, ContentSame
  <1>8. DurableMap = Content(InUse) /\ DurableMap' = Content(g)
    <2>1. Home = ctrl.sector /\ Home' = ctrl.sector
      BY <1>1 DEF Home
    <2> QED BY <1>1, <2>1, StoreTable DEF InUse, g
  <1>9. D!TakesEffect
    <2>1. D!HasEffect(DurableMap')
      BY <1>3, <1>6, <1>8 DEF D!HasEffect, Content
    <2>2. \A k \in Keys \ {call.key} : DurableMap'[k] = DurableMap[k]
      BY <1>7, <1>8 DEF Content
    <2> QED BY <1>3, <2>1, <2>2 DEF D!TakesEffect
  <1>10. CASE pc' = "idle" /\ ret' = "KVED_OK"
    <2>1. Mode' = "idle"
      BY <1>10 DEF Mode
    <2> QED BY <1>3, <1>9, <1>10, <2>1 DEF Refines, D!Next, D!Return
  <1>11. CASE pc' = "w_del" /\ call' = call /\ ret' = ret
    <2>1. Mode' = Mode
      BY <1>1, <1>3, <1>11 DEF Mode
    <2> QED BY <1>3, <1>9, <1>11, <2>1 DEF Refines, D!Next, D!Apply
  <1> QED BY <1>1, <1>10, <1>11

(* ... and a deletion, but not that of the entry that has been replaced.    *)
LEMMA StoreReplaced ==
  ASSUME IInv, EInv, DInv, IInv', DInv', WriteDeleteOld
  PROVE  Refines
  <1> USE DEF Selecting, Formatting, InitLabels
  <1> DEFINE l == ctrl.first_free - 1
             g == main'[ctrl.sector].slot
  <1>1. /\ pc = "w_del" /\ pc' = "idle" /\ ret' = "KVED_OK" /\ ctrl'.sector = ctrl.sector
        /\ main' = DeleteSlot(main, ctrl.sector, old)
    <2>1. ctrl \in CtrlType
      BY Typed
    <2> QED BY <2>1 DEF WriteDeleteOld, Return, CtrlType
  <1>2. main \in MainType /\ ctrl.sector \in Sectors /\ InUse \in Tables
    BY Typed
  <1>3. call.op = "write" /\ call.key \in Keys /\ Mode = "busy" /\ Mode' = "idle"
    BY <1>1 DEF EInv, ModeInv, Appending, IInv, CallInv, Mode
  <1>4. old \in Slots /\ l \in Slots /\ old < l /\ InUse[l] = Wanted
    BY <1>1, Typed DEF EInv, OldInv, DInv, DataInv, Slots
  <1>5. \A n \in Slots : (InUse[n].k = call.key) <=> (n = old \/ n = l)
    BY <1>1 DEF EInv, OldInv
  <1>6. g[old].k = "deleted" /\ \A n \in Slots : n # old => g[n] = InUse[n]
    BY <1>1, <1>2, <1>4 DEF DeleteSlot, InUse, MainType, Entries
  <1> HIDE DEF g, l
  <1>7. ASSUME NEW k \in Keys PROVE ContentOf(g, k) = ContentOf(InUse, k)
    <2>1. InUse[old].k = k => \E m \in Slots : m > old /\ InUse[m].k = k
      <3>1. l > old
        BY <1>4 DEF Slots
      <3> QED BY <1>4, <1>5, <3>1
    <2>2. Aside(InUse, g, k, old)
      BY <1>6, <2>1, KeyKinds DEF Aside
    <2> QED BY <2>2, ContentSame
  <1>8. Home = ctrl.sector /\ Home' = Home
    BY <1>1 DEF Home
  <1>9. DurableMap' = DurableMap
    BY <1>1, <1>7, <1>8, StoreKept DEF InUse, g
  <1>10. DurableMap[call.key] = [type |-> call.type, val |-> call.val]
    <2>1. DurableMap = Content(InUse)
      BY <1>1, <1>8, Stored DEF DInv, InUse
    <2>2. InUse[l].k = call.key /\ InUse[l].t = call.type /\ InUse[l].v = call.val
      BY <1>4 DEF Wanted
    <2>3. \A n \in Slots : n > l => InUse[n].k # call.key
      BY <1>4, <1>5 DEF Slots
    <2>4. ContentOf(InUse, call.key) = [type |-> InUse[l].t, val |-> InUse[l].v]
      BY <1>4, <2>2, <2>3, ContentAt
    <2> QED BY <1>3, <2>1, <2>2, <2>4 DEF Content
  <1>11. D!HasEffect(DurableMap)
    BY <1>3, <1>10 DEF D!HasEffect
  <1> QED BY <1>1, <1>3, <1>9, <1>11 DEF Refines, D!Next, D!Return

LEMMA StoreDeleted ==
  ASSUME IInv, EInv, DInv, IInv', DInv', kved_internal_data_delete
  PROVE  Refines
  <1> USE DEF Selecting, Formatting, InitLabels
  <1> DEFINE g == main'[ctrl.sector].slot
  <1>1. pc = "delete" /\ pc' = "idle"
    BY DEF kved_internal_data_delete, Return
  <1>2. main \in MainType /\ ctrl.sector \in Sectors /\ InUse \in Tables /\ ctrl \in CtrlType
    BY Typed
  <1>3. call.op = "delete" /\ Mode = "busy" /\ Mode' = "idle" /\ Unique(InUse)
    BY <1>1 DEF EInv, ModeInv, UniqueInv, Recovering, Mode
  <1>4. DurableMap = Content(InUse) /\ Home = ctrl.sector
    BY <1>1, Stored DEF DInv, Home, InUse
  <1>5. CASE kved_is_valid_key(call.key) /\ Found # 0
    <2>1. /\ main' = DeleteSlot(main, ctrl.sector, Found) /\ ret' = "KVED_OK"
          /\ ctrl'.sector = ctrl.sector
      BY <1>2, <1>5 DEF kved_internal_data_delete, Return, CtrlType
    <2>2. Found \in Slots /\ InUse[Found].k = call.key /\ call.key \in Keys
      <3> DEFINE S == {n \in Slots : InUse[n].k = call.key}
      <3>1. Found \in S
        <4>1. S \in SUBSET Slots /\ Found = First(S)
          BY DEF Found, kved_key_index_find, InUse
        <4> QED BY <1>5, <4>1, FirstIsLeast
      <3>2. InUse[Found].k \in Keys \cup Markers
        BY <1>2, <3>1 DEF Tables, Entries
      <3> QED BY <1>5, <3>1, <3>2, KeyKinds
    <2>3. g[Found].k = "deleted" /\ \A n \in Slots : n # Found => g[n] = InUse[n]
      BY <1>2, <2>1, <2>2 DEF DeleteSlot, InUse, MainType, Entries
    <2>4. DurableMap' = Content(g)
      <3>1. Home' = ctrl.sector
        BY <1>1, <2>1 DEF Home
      <3> QED BY <1>1, <3>1, StoreTable
    <2>5. \A n \in Slots : (InUse[n].k = call.key) <=> (n = Found)
      BY <1>3, <2>2, FoundEntry
    <2> HIDE DEF g
    <2>6. ContentOf(g, call.key) = NoEntry
      <3>1. \A n \in Slots : g[n].k # call.key
        BY <2>2, <2>3, <2>5, KeyKinds
      <3> QED BY <3>1, ContentNone
    <2>7. ASSUME NEW k \in Keys \ {call.key} PROVE ContentOf(g, k) = ContentOf(InUse, k)
      <3>1. Aside(InUse, g, k, Found)
        BY <2>2, <2>3, KeyKinds DEF Aside
      <3> QED BY <3>1, ContentSame
    <2>8. D!TakesEffect
      <3>1. DurableMap'[call.key].type = "none"
        BY <2>2, <2>4, <2>6 DEF Content, NoEntry
      <3>2. D!HasEffect(DurableMap')
        BY <1>3, <3>1 DEF D!HasEffect, D!Absent
      <3>3. \A k \in Keys \ {call.key} : DurableMap'[k] = DurableMap[k]
        BY <1>4, <2>4, <2>7 DEF Content
      <3> QED BY <1>3, <2>2, <3>2, <3>3 DEF D!TakesEffect
    <2> QED BY <1>3, <2>1, <2>8 DEF Refines, D!Next, D!Return
  <1>6. CASE ~(kved_is_valid_key(call.key) /\ Found # 0)
    <2>1. main' = main /\ ret' = "KVED_INVALID_KEY"
      BY <1>6 DEF kved_internal_data_delete, Return
    <2>2. DurableMap' = DurableMap
      BY <2>1, StoreQuiet
    <2>3. call.key \in Keys => DurableMap[call.key].type = "none"
      <3> SUFFICES ASSUME call.key \in Keys PROVE DurableMap[call.key].type = "none"
        OBVIOUS
      <3>1. Found = 0
        BY <1>6, KeyKinds
      <3>2. \A n \in Slots : InUse[n].k # call.key
        BY <1>3, <3>1, FoundEntry DEF Slots
      <3> QED BY <1>4, <3>2, ContentNone DEF Content, NoEntry
    <2> QED BY <1>3, <2>1, <2>2, <2>3 DEF Refines, D!Next, D!Fail, D!Absent
  <1> QED BY <1>5, <1>6

(* A sector switch: up to the signature of the copy the original counts.    *)
LEMMA SwitchCaller ==
  ASSUME IInv, EInv, pc \in SwitchLabels
  PROVE  call.op \in {"write", "compact"} /\ Mode = "busy"
  BY DEF EInv, ModeInv, Mode, SwitchLabels

LEMMA StoreErased ==
  ASSUME IInv, EInv, DInv, IInv', DInv', SwitchErase \/ SwitchCopy
  PROVE  Refines
  <1> USE DEF Selecting, Formatting, SwitchLabels, Goto
  <1>1. /\ main \in MainType /\ ctrl.sector \in Sectors /\ Other(ctrl.sector) \in Sectors
        /\ Other(ctrl.sector) # ctrl.sector
    BY Typed
  <1>2. /\ pc \in {"sw_erase", "sw_strerase", "sw_copy"} /\ pc' \in {"sw_strerase", "sw_copy"}
        /\ ctrl' = ctrl /\ call' = call /\ ret' = ret
    BY DEF SwitchErase, SwitchCopy
  <1>3. main'[ctrl.sector].slot = main[ctrl.sector].slot
    <2>1. CASE SwitchErase
      BY <1>1, <2>1 DEF SwitchErase, MainType
    <2>2. CASE SwitchCopy
      <3>1. main' = main \/ \E e : main' = [main EXCEPT ![Other(ctrl.sector)].slot[nxt] = e]
        BY <2>2 DEF SwitchCopy, flash
      <3> QED BY <1>1, <3>1 DEF MainType
    <2> QED BY <2>1, <2>2
  <1>4. Home = ctrl.sector /\ Home' = Home
    BY <1>2 DEF Home
  <1>5. DurableMap' = DurableMap
    BY <1>2, <1>3, <1>4, StoreKept
  <1>6. Mode' = Mode
    BY <1>2 DEF Mode
  <1> QED BY <1>2, <1>5, <1>6, Stutter

LEMMA StoreAdopted ==
  ASSUME IInv, EInv, DInv, IInv', DInv', SwitchAdopt \/ SwitchInvalidate
  PROVE  Refines
  <1> USE DEF Selecting, Formatting, SwitchLabels, Goto
  <1>1. /\ main \in MainType /\ ctrl.sector \in Sectors /\ Other(ctrl.sector) \in Sectors
        /\ Other(Other(ctrl.sector)) = ctrl.sector
    BY Typed DEF Other, Sectors
  <1>2. /\ pc \in {"sw_copy", "sw_inval"} /\ pc' \in {"sw_sig", "check"}
        /\ call' = call /\ ret' = ret
    BY DEF SwitchAdopt, SwitchInvalidate
  <1>3. \A s \in Sectors : main'[s].slot = main[s].slot
    <2>1. CASE SwitchAdopt
      BY <1>1, <2>1 DEF SwitchAdopt, MainType
    <2>2. CASE SwitchInvalidate
      BY <1>1, <2>2 DEF SwitchInvalidate, Unsign, MainType
    <2> QED BY <2>1, <2>2
  <1>4. Home = ctrl.sector /\ Home' = Home
    <2>1. CASE SwitchAdopt
      <3>1. pc = "sw_copy" /\ pc' = "sw_sig" /\ ctrl'.sector = Other(ctrl.sector)
        BY <2>1 DEF SwitchAdopt
      <3> QED BY <1>1, <3>1 DEF Home, Other
    <2>2. CASE SwitchInvalidate
      BY <2>2 DEF SwitchInvalidate, Home
    <2> QED BY <2>1, <2>2
  <1>5. DurableMap' = DurableMap
    BY <1>1, <1>2, <1>3, <1>4, StoreKept
  <1>6. call.op \in {"write", "compact"}
    BY <1>2, SwitchCaller
  <1>7. Mode' = Mode
    BY <1>2, <1>6 DEF Mode
  <1> QED BY <1>2, <1>5, <1>7, Stutter

LEMMA StoreText ==
  ASSUME IInv, EInv, DInv, DInv', SwitchSignString
  PROVE  Refines
  <1>1. /\ pc \in {"sw_strsig", "sw_strend"} /\ pc' \in {"sw_strend", "sw_inval"}
        /\ main' = main /\ call' = call /\ ret' = ret
    BY DEF SwitchSignString, Goto
  <1>2. Mode' = Mode
    BY <1>1 DEF Mode
  <1> QED BY <1>1, <1>2, StoreQuiet, Stutter

(* The copy says what the original says, but for the key being written.     *)
LEMMA CopySame ==
  ASSUME IInv, EInv, DInv, pc = "sw_sig", NEW k \in Keys, ~(Renewed /\ k = call.key)
  PROVE  ContentOf(InUse, k) = ContentOf(Spare, k)
  <1> USE DEF Selecting, Formatting, InitLabels
  <1>1. /\ \A n \in Slots : InUse[n].k \in Keys =>
             \E j \in Slots : Spare[j].k \in Keys /\ InUse[n] = CopyOf(call, Spare[j])
        /\ \A j \in Slots : Spare[j].k \in Keys =>
             \E n \in Slots : InUse[n] = CopyOf(call, Spare[j])
        /\ Unique(Spare)
        /\ call.op = "write" => \A n \in Slots : (Spare[n].k = call.key) <=> (n = old)
    BY DEF DInv, DataInv
  <1>2. Unique(InUse) /\ Spare \in Tables
    BY Typed DEF EInv, UniqueInv, Recovering
  <1>3. \A j \in Slots : CopyOf(call, Spare[j]).k = Spare[j].k
    BY <1>2 DEF Tables, Entries, CopyOf
  <1>4. CASE \E j \in Slots : Spare[j].k = k
    <2>1. PICK j \in Slots : Spare[j].k = k
      BY <1>4
    <2>2. ~(call.op = "write" /\ Spare[j].k = call.key)
      BY <1>1, <2>1 DEF Renewed, Slots
    <2>3. CopyOf(call, Spare[j]) = Spare[j]
      BY <1>2, <2>1, <2>2 DEF Tables, Entries, CopyOf
    <2>4. PICK n \in Slots : InUse[n] = Spare[j]
      BY <1>1, <2>1, <2>3
    <2>5. ContentOf(Spare, Spare[j].k) = [type |-> Spare[j].t, val |-> Spare[j].v]
      BY <1>1, <2>1, ContentUnique
    <2>6. ContentOf(InUse, InUse[n].k) = [type |-> InUse[n].t, val |-> InUse[n].v]
      BY <1>2, <2>1, <2>4, ContentUnique
    <2> QED BY <2>1, <2>4, <2>5, <2>6
  <1>5. CASE ~\E j \in Slots : Spare[j].k = k
    <2>1. \A n \in Slots : InUse[n].k # k
      BY <1>1, <1>3, <1>5
    <2>2. ContentOf(InUse, k) = NoEntry
      BY <2>1, ContentNone
    <2>3. ContentOf(Spare, k) = NoEntry
      BY <1>5, ContentNone
    <2> QED BY <2>2, <2>3
  <1> QED BY <1>4, <1>5

(* The signature makes the copy count, with the new value of the key being  *)
(* written, if it was in the database.                                      *)
LEMMA StoreSigned ==
  ASSUME IInv, EInv, DInv, IInv', DInv', SwitchSign
  PROVE  Refines
  <1> USE DEF Selecting, Formatting, InitLabels, SwitchLabels
  <1>1. /\ pc = "sw_sig" /\ pc' = "sw_strsig" /\ ctrl' = ctrl /\ call' = call /\ ret' = ret
        /\ main' = Sign(main, ctrl.sector)
    BY DEF SwitchSign, Goto
  <1>2. main \in MainType /\ ctrl.sector \in Sectors
    BY Typed
  <1>3. \A s \in Sectors : main'[s].slot = main[s].slot
    BY <1>1, <1>2 DEF Sign, MainType
  <1>4. DurableMap = Content(Spare) /\ DurableMap' = Content(InUse)
    <2>1. Home = Other(ctrl.sector) /\ Home' = ctrl.sector
      BY <1>1 DEF Home
    <2> QED BY <1>1, <1>2, <1>3, <2>1, StoreTable DEF InUse, Spare
  <1>5. Mode = "busy" /\ Mode' = Mode
    BY <1>1, SwitchCaller DEF Mode
  <1>6. CASE ~Renewed
    <2>1. \A k \in Keys : ContentOf(InUse, k) = ContentOf(Spare, k)
      BY <1>1, <1>6, CopySame
    <2>2. DurableMap' = DurableMap
      BY <1>4, <2>1 DEF Content
    <2> QED BY <1>1, <1>5, <2>2, Stutter
  <1>7. CASE Renewed
    <2>1. call.op = "write" /\ call.key \in Keys
      BY <1>1, <1>7 DEF Renewed, IInv, CallInv
    <2>2. PICK n \in Slots : InUse[n] = Wanted
      BY <1>1, <1>7 DEF DInv, DataInv, Late, Early
    <2>3. InUse[n].k = call.key /\ InUse[n].t = call.type /\ InUse[n].v = call.val
      BY <2>2 DEF Wanted
    <2>4. ContentOf(InUse, InUse[n].k) = [type |-> InUse[n].t, val |-> InUse[n].v]
      <3>1. Unique(InUse)
        BY <1>1 DEF EInv, UniqueInv, Recovering
      <3> QED BY <2>1, <2>3, <3>1, ContentUnique
    <2>5. D!HasEffect(DurableMap')
      BY <1>4, <2>1, <2>3, <2>4 DEF D!HasEffect, Content
    <2>6. \A k \in Keys \ {call.key} : DurableMap'[k] = DurableMap[k]
      <3>1. \A k \in Keys \ {call.key} : ContentOf(InUse, k) = ContentOf(Spare, k)
        BY <1>1, CopySame
      <3> QED BY <1>4, <3>1 DEF Content
    <2>7. D!TakesEffect
      BY <2>1, <2>5, <2>6 DEF D!TakesEffect
    <2> QED BY <1>1, <1>5, <2>7 DEF Refines, D!Next, D!Apply
  <1> QED BY <1>6, <1>7

LEMMA StoreStep ==
  ASSUME WholeEntries, NumbersOnly, IInv, EInv, DInv, IInv', [Next]_vars
  PROVE  Refines
  <1>a. DInv'
    BY DataStep
  <1>1. CASE UNCHANGED vars
    <2>1. main' = main /\ call' = call /\ ret' = ret /\ pc' = pc
      BY <1>1 DEF vars
    <2>2. Mode' = Mode
      BY <2>1 DEF Mode
    <2> QED BY <1>a, <2>1, <2>2, StoreQuiet, Stutter
  <1>2. CASE kved_sector_consistency_check
    BY <1>a, <1>2, StoreSelected
  <1>3. CASE kved_deinit \/ PowerCut
    BY <1>a, <1>3, StoreStopped
  <1>4. CASE InitIndexSector \/ InitStringSector \/ InitFormatString
    BY <1>a, <1>4, StoreRead
  <1>5. CASE InitFormatIndex
    BY <1>a, <1>5, StoreFormatted
  <1>6. CASE kved_string_consistency_check
    BY <1>a, <1>6, StoreChecked
  <1>7. CASE kved_data_consistency_check
    BY <1>a, <1>7, StoreRepaired
  <1>8. CASE ConsistencyCheckDone
    BY <1>a, <1>8, StoreDone
  <1>9. CASE Client
    <2>1. CASE kved_data_write \/ kved_data_delete \/ kved_compact_database
      BY <1>a, <2>1, StoreInvoked
    <2>2. CASE kved_data_read
      BY <1>a, <2>2, StoreReading
    <2> QED BY <1>9, <2>1, <2>2 DEF Client
  <1>10. CASE WriteRejected \/ WriteUnchanged
    BY <1>a, <1>10, StoreAnswered
  <1>11. CASE WriteFull \/ WriteSwitch \/ WriteAppend \/ WriteStringIndex \/ WriteStringData
    BY <1>a, <1>11, StorePrepared
  <1>12. CASE kved_dump
    BY <1>a, <1>12, StoreFull
  <1>13. CASE WriteValue
    BY <1>a, <1>13, StoreValue
  <1>14. CASE WriteKey
    BY <1>a, <1>14, StoreKey
  <1>15. CASE WriteDeleteOld
    BY <1>a, <1>15, StoreReplaced
  <1>16. CASE kved_internal_data_delete
    BY <1>a, <1>16, StoreDeleted
  <1>17. CASE SwitchErase \/ SwitchCopy
    BY <1>a, <1>17, StoreErased
  <1>18. CASE SwitchAdopt \/ SwitchInvalidate
    BY <1>a, <1>18, StoreAdopted
  <1>19. CASE SwitchSign
    BY <1>a, <1>19, StoreSigned
  <1>20. CASE SwitchSignString
    BY <1>a, <1>20, StoreText
  <1> QED BY <1>1, <1>2, <1>3, <1>4, <1>5, <1>6, <1>7, <1>8, <1>9, <1>10, <1>11, <1>12, <1>13,
             <1>14, <1>15, <1>16, <1>17, <1>18, <1>19, <1>20 DEF Next, Step

LEMMA StoreInit == Init => D!Init
  <1> SUFFICES ASSUME Init PROVE D!Init
    OBVIOUS
  <1>1. Mode = "off"
    BY DEF Init, Mode, NoCall
  <1>2. \A s \in Sectors : main[s].sig # "ok"
    BY DEF Init, ErasedMain
  <1>3. DurableMap = [k \in Keys |-> NoEntry]
    BY <1>2, DurableNone DEF Durables
  <1> QED BY <1>1, <1>3 DEF D!Init, D!Absent, NoEntry

(* The flash is a dictionary that survives restarts, for every set of keys, *)
(* number of entries and range of the counters, wherever power fails except *)
(* between the value and the key of an entry: a call changes its own key    *)
(* only and in one step (the write of a key, a deletion, or the signature   *)
(* of a copied sector), has taken effect when it returns KVED_OK, and a     *)
(* restart loses nothing (kved_internal_data_write, kved_sector_switch).    *)
THEOREM DurableStoreCorrect ==
  ASSUME WholeEntries, NumbersOnly
  PROVE  Spec => DurableStore
  <1>1. Init => D!Init
    BY StoreInit
  <1>2. IInv /\ IInv' /\ EInv /\ DInv /\ [Next]_vars => [D!Next]_(D!vars)
    BY StoreStep DEF Refines
  <1> QED BY <1>1, <1>2, InductiveInvariant, EntriesInvariant, ValuesInvariant, PTL
          DEF Spec, DurableStore, D!Spec

-----------------------------------------------------------------------------
(* The string table.  After a restart kved forgets where the texts end      *)
(* (README, deviations): one session.                                       *)
OneSession == ~Restarts /\ CutPoints = {}

Headers == 0 .. NumEntries - 1
HeaderAt(h) == kved_string_entry_to_header(h)
TextAt(h) == kved_string_entry_to_start_sector(h * (SectorLen + 1))

(* The first heads headers and the first texts texts are written.           *)
Filled(words, heads, texts) ==
  \A h \in Headers :
    /\ words[HeaderAt(h)] = IF h < heads THEN Ptr(h * (SectorLen + 1)) ELSE FREE
    /\ h >= texts => words[TextAt(h)] = FREE

(* The signatures.                                                          *)
Unsealed(words) == words[0] = FREE /\ words[NumEntries + 1] = FREE
HalfSealed(words) == words[0] = START /\ words[NumEntries + 1] = FREE
SealInv ==
  /\ pc = "i_strsig" => Unsealed(str["A"])
  /\ pc = "i_strend" => HalfSealed(str["A"])
  /\ pc = "sw_copy" => Unsealed(str[Other(ctrl.str_sector)])
  /\ pc \in {"sw_sig", "sw_strsig"} => Unsealed(str[ctrl.str_sector])
  /\ pc = "sw_strend" => HalfSealed(str[ctrl.str_sector])
  /\ pc \in {"sw_inval", "check"} => StrSigned(ctrl.str_sector)

(* The texts are where ctrl says, one for each entry at most: the one of an *)
(* entry that is being written is not yet paid for.                         *)
Starting == InitLabels \cup {"off"}
Pending == IF pc \in {"w_val", "w_key"} /\ call.type = "str" THEN 1 ELSE 0
Headed == IF pc = "w_strdata" THEN ctrl.next_idx + 1 ELSE ctrl.next_idx
PlaceInv ==
  /\ ctrl.next_off = ctrl.next_idx * (SectorLen + 1)
  /\ pc \in Starting => ctrl.next_idx = 0 /\ \A s \in Sectors : Filled(str[s], 0, 0)
  /\ pc \notin Starting =>
       /\ Filled(str[ctrl.str_sector], Headed, ctrl.next_idx)
       /\ ctrl.next_idx + ctrl.free <= NumEntries + Pending
  /\ pc \in {"w_stridx", "w_strdata"} => call.type = "str"
  /\ pc = "sw_copy" => sidx < nxt /\ Filled(str[Other(ctrl.str_sector)], sidx, sidx)

SInv == SealInv /\ PlaceInv

(* The words of a string sector.                                            *)
LEMMA Places ==
  /\ \A h \in Headers : HeaderAt(h) \in StrWords /\ HeaderAt(h) \in 1 .. NumEntries
  /\ \A h \in Headers : TextAt(h) \in StrWords /\ TextAt(h) > NumEntries + 1
  /\ \A g, h \in Headers : (HeaderAt(g) = HeaderAt(h)) => g = h
  /\ \A g, h \in Headers : (TextAt(g) = TextAt(h)) => g = h
  /\ \A g, h \in Headers : HeaderAt(g) # TextAt(h)
  /\ \A h \in Headers : Ptr(h * (SectorLen + 1)) > 0
  BY DEF Headers, HeaderAt, TextAt, StrWords, SectorLen, Ptr, kved_string_entry_to_header,
         kved_string_entry_to_start_sector

LEMMA Programmed ==
  ASSUME NEW words \in [StrWords -> Strs \cup Int], NEW w \in StrWords, NEW x
  PROVE  /\ \A z \in StrWords : z # w => Program(words, w, x)[z] = words[z]
         /\ words[w] = FREE => Program(words, w, x)[w] = x
  BY TextErased DEF Program

LEMMA FilledErased == Filled(ErasedStr, 0, 0)
  BY Places DEF Filled, Headers, ErasedStr

LEMMA FilledHeader ==
  ASSUME NEW words \in [StrWords -> Strs \cup Int], NEW h \in Headers, NEW t \in Nat, Filled(words, h, t)
  PROVE  Filled(Program(words, HeaderAt(h), Ptr(h * (SectorLen + 1))), h + 1, t)
  <1> DEFINE p == Ptr(h * (SectorLen + 1))
             P == Program(words, HeaderAt(h), p)
  <1>1. words[HeaderAt(h)] = FREE
    BY DEF Filled, Headers
  <1>2. HeaderAt(h) \in StrWords
    BY Places
  <1> HIDE DEF p
  <1>3. P[HeaderAt(h)] = p /\ \A z \in StrWords : z # HeaderAt(h) => P[z] = words[z]
    BY <1>1, <1>2, Programmed
  <1> HIDE DEF P
  <1>4. ASSUME NEW g \in Headers
        PROVE  P[HeaderAt(g)] = IF g < h + 1 THEN Ptr(g * (SectorLen + 1)) ELSE FREE
    <2>1. CASE g = h
      BY <1>3, <2>1 DEF p, Headers
    <2>2. CASE g # h
      <3>1. P[HeaderAt(g)] = words[HeaderAt(g)]
        BY <1>3, <2>2, Places
      <3>2. (g < h + 1) <=> (g < h)
        BY <2>2 DEF Headers
      <3> QED BY <3>1, <3>2 DEF Filled
    <2> QED BY <2>1, <2>2
  <1>5. \A g \in Headers : P[TextAt(g)] = words[TextAt(g)]
    BY <1>3, Places
  <1>6. \A g \in Headers : g >= t => P[TextAt(g)] = FREE
    BY <1>5 DEF Filled
  <1>7. Filled(P, h + 1, t)
    BY <1>4, <1>6 DEF Filled
  <1> QED BY <1>7 DEF P, p

LEMMA FilledText ==
  ASSUME NEW words \in [StrWords -> Strs \cup Int], NEW h \in Headers, NEW a \in Nat, Filled(words, a, h),
         NEW x
  PROVE  Filled(Program(words, TextAt(h), x), a, h + 1)
  <1> DEFINE P == Program(words, TextAt(h), x)
  <1>1. TextAt(h) \in StrWords
    BY Places
  <1>2. \A z \in StrWords : z # TextAt(h) => P[z] = words[z]
    BY <1>1, Programmed
  <1> HIDE DEF P
  <1>3. \A g \in Headers : P[HeaderAt(g)] = words[HeaderAt(g)]
    BY <1>2, Places
  <1>4. ASSUME NEW g \in Headers, g >= h + 1 PROVE P[TextAt(g)] = FREE
    <2>1. g # h /\ g >= h
      BY <1>4 DEF Headers
    <2>2. TextAt(g) # TextAt(h) /\ TextAt(g) \in StrWords
      BY <2>1, Places
    <2> QED BY <1>2, <2>1, <2>2 DEF Filled
  <1>5. Filled(P, a, h + 1)
    BY <1>3, <1>4 DEF Filled
  <1> QED BY <1>5 DEF P

LEMMA FilledSeal ==
  ASSUME NEW words \in [StrWords -> Strs \cup Int], NEW a, NEW b, Filled(words, a, b),
         NEW w \in {0, NumEntries + 1}, NEW x
  PROVE  Filled(Program(words, w, x), a, b)
  <1> DEFINE P == Program(words, w, x)
  <1>1. w \in StrWords
    BY TextErased
  <1>2. \A z \in StrWords : z # w => P[z] = words[z]
    BY <1>1, Programmed
  <1> HIDE DEF P
  <1>3. \A g \in Headers : HeaderAt(g) \in StrWords /\ HeaderAt(g) # w
    BY Places
  <1>4. \A g \in Headers : TextAt(g) \in StrWords /\ TextAt(g) # w
    <2>1. \A z \in StrWords : z > NumEntries + 1 => z # w
      BY DEF StrWords
    <2> QED BY <2>1, Places
  <1>5. Filled(P, a, b)
    BY <1>2, <1>3, <1>4 DEF Filled
  <1> QED BY <1>5 DEF P

LEMMA FirstChosen ==
  ASSUME NEW S, \E n \in S : \A m \in S : n <= m
  PROVE  First(S) \in S /\ \A m \in S : First(S) <= m
  BY DEF First

(* kved_string_consistency_check finds the next header.                     *)
LEMMA NextHeader ==
  ASSUME NEW words, NEW a \in 0 .. NumEntries, NEW b, Filled(words, a, b)
  PROVE  LET free == {n \in 0 .. NumEntries - 1 : words[kved_string_entry_to_header(n)] = FREE}
         IN  free # {} => First(free) = a
  <1> DEFINE free == {n \in 0 .. NumEntries - 1 : words[kved_string_entry_to_header(n)] = FREE}
  <1>1. \A n \in Headers : (words[HeaderAt(n)] = FREE) <=> (n >= a)
    <2> SUFFICES ASSUME NEW n \in Headers PROVE (words[HeaderAt(n)] = FREE) <=> (n >= a)
      OBVIOUS
    <2>1. words[HeaderAt(n)] = IF n < a THEN Ptr(n * (SectorLen + 1)) ELSE FREE
      BY DEF Filled
    <2>2. Ptr(n * (SectorLen + 1)) # FREE
      <3>1. Ptr(n * (SectorLen + 1)) > 0
        BY Places
      <3> QED BY <3>1 DEF FREE
    <2>3. n \in Nat
      BY DEF Headers
    <2>4. CASE n < a
      BY <2>1, <2>2, <2>3, <2>4
    <2>5. CASE n >= a
      BY <2>1, <2>3, <2>5
    <2> QED BY <2>3, <2>4, <2>5
  <1>2. free = {n \in Headers : n >= a}
    BY <1>1 DEF Headers, HeaderAt
  <1> HIDE DEF free
  <1> SUFFICES ASSUME free # {} PROVE First(free) = a
    BY DEF free
  <1>3. a \in free /\ \A n \in free : n \in Nat /\ a <= n
    BY <1>2 DEF Headers
  <1>4. First(free) \in free /\ \A n \in free : First(free) <= n
    <2>1. \E n \in free : \A m \in free : n <= m
      BY <1>3
    <2> QED BY <2>1, FirstChosen
  <1>5. First(free) <= a /\ a <= First(free) /\ First(free) \in Nat
    BY <1>3, <1>4
  <1> QED BY <1>5

-----------------------------------------------------------------------------
(* The string table is kept.  First, the steps that leave it alone.         *)
LEMMA Texts ==
  ASSUME IInv
  PROVE  /\ \A s \in Sectors : str[s] \in [StrWords -> Strs \cup Int]
         /\ str \in StrType /\ ctrl.str_sector \in Sectors /\ Other(ctrl.str_sector) \in Sectors
         /\ Other(ctrl.str_sector) # ctrl.str_sector
         /\ ctrl.next_idx \in Nat /\ ctrl.next_off \in Nat /\ ctrl.free \in Int /\ sidx \in Nat
         /\ Pending \in {0, 1}
  BY DEF IInv, TypeOK, StrType, CtrlType, Sectors, Other, Pending

LEMMA InitSInv == Init => SInv
  <1> SUFFICES ASSUME Init PROVE SInv
    OBVIOUS
  <1>1. pc = "off" /\ ctrl.next_idx = 0 /\ ctrl.next_off = 0 /\ \A s \in Sectors : str[s] = ErasedStr
    BY DEF Init, ZeroCtrl
  <1>2. SealInv
    BY <1>1 DEF SealInv
  <1>3. PlaceInv
    BY <1>1, FilledErased DEF PlaceInv, Starting, InitLabels, SectorLen
  <1> QED BY <1>2, <1>3 DEF SInv

(* The place of the next string.                                            *)
SamePlace(c, d) ==
  d.str_sector = c.str_sector /\ d.next_idx = c.next_idx /\ d.next_off = c.next_off
Elsewhere == Starting \cup {"w_strdata", "sw_copy"}
LEMMA PlaceKept ==
  ASSUME SInv, str' = str, SamePlace(ctrl, ctrl'),
         pc \notin Elsewhere \ {"sw_copy"}, pc' \notin Elsewhere,
         ctrl'.next_idx + ctrl'.free <= NumEntries + Pending',
         pc' = "w_stridx" => call'.type = "str"
  PROVE  PlaceInv'
  <1>1. Headed = ctrl.next_idx /\ Headed' = ctrl'.next_idx
    BY DEF Headed, Elsewhere
  <1>2. Filled(str[ctrl.str_sector], ctrl.next_idx, ctrl.next_idx)
    BY <1>1 DEF SInv, PlaceInv, Elsewhere, Starting, InitLabels
  <1>3. Filled(str'[ctrl'.str_sector], Headed', ctrl'.next_idx)
    BY <1>1, <1>2 DEF SamePlace
  <1>4. ctrl'.next_off = ctrl'.next_idx * (SectorLen + 1)
    BY DEF SInv, PlaceInv, SamePlace
  <1> QED BY <1>3, <1>4 DEF PlaceInv, Elsewhere

LEMMA SealKept ==
  ASSUME SInv, str' = str, pc' \notin {"i_strsig", "i_strend", "check"} \cup SwitchLabels
  PROVE  SealInv'
  BY DEF SealInv, SwitchLabels

(* kved_init                                                                *)
LEMMA StringsStarted ==
  ASSUME IInv, EInv, SInv,
         \/ kved_sector_consistency_check \/ InitIndexSector \/ InitFormatIndex
         \/ InitStringSector \/ InitFormatString
  PROVE  SInv'
  <1> USE DEF InitLabels, Starting, Goto
  <1>a. ctrl \in CtrlType /\ \A s \in Sectors : str[s] \in [StrWords -> Strs \cup Int]
    BY Typed, Texts
  <1>b. /\ pc \in Starting /\ ctrl.next_idx = 0 /\ ctrl.next_off = 0
        /\ \A s \in Sectors : Filled(str[s], 0, 0)
    <2>1. pc \in Starting
      BY DEF kved_sector_consistency_check, InitIndexSector, InitFormatIndex, InitStringSector,
             InitFormatString
    <2>2. ctrl.next_idx = 0 /\ \A s \in Sectors : Filled(str[s], 0, 0)
      BY <2>1 DEF SInv, PlaceInv
    <2> QED BY <2>1, <2>2 DEF SInv, PlaceInv, SectorLen
  <1>1. ctrl'.next_idx = 0 /\ ctrl'.next_off = 0
    <2>1. CASE kved_sector_consistency_check
      BY <2>1 DEF kved_sector_consistency_check, ZeroCtrl
    <2>2. CASE InitIndexSector
      BY <1>a, <1>b, <2>2 DEF InitIndexSector, kved_sector_stats_read, CtrlType
    <2>3. CASE InitFormatIndex
      BY <1>a, <1>b, <2>3 DEF InitFormatIndex, kved_sector_stats_read, CtrlType
    <2>4. CASE InitStringSector
      BY <1>a, <1>b, <2>4 DEF InitStringSector, CtrlType
    <2>5. CASE InitFormatString
      BY <1>a, <1>b, <2>5 DEF InitFormatString, CtrlType
    <2> QED BY <2>1, <2>2, <2>3, <2>4, <2>5
  <1>2. ASSUME pc' \in Starting, \A s \in Sectors : Filled(str'[s], 0, 0)
        PROVE  PlaceInv'
    BY <1>1, <1>2 DEF PlaceInv, SectorLen
  <1>3. ASSUME pc' = "check", \A s \in Sectors : Filled(str'[s], 0, 0), ctrl'.str_sector \in Sectors,
               ctrl'.free = ctrl.free, pc \in {"i_string", "i_strend"}
        PROVE  PlaceInv'
    <2>1. ctrl.free \in 0 .. NumEntries
      <3>1. Agrees(ctrl, InUse)
        BY <1>3 DEF EInv, CountInv, Selecting, Formatting
      <3> QED BY <3>1, NumNat DEF Agrees
    <2>2. Headed' = 0 /\ Pending' = 0
      BY <1>1, <1>3 DEF Headed, Pending
    <2>3. ctrl'.next_idx + ctrl'.free <= NumEntries + Pending'
      BY <1>1, <1>3, <2>1, <2>2
    <2> QED BY <1>1, <1>3, <2>2, <2>3 DEF PlaceInv, SectorLen
  <1>4. CASE kved_sector_consistency_check \/ InitIndexSector \/ InitFormatIndex
    <2>1. str' = str /\ pc' \in {"i_index", "i_string", "i_erase", "i_cnt", "i_sig"}
      BY <1>4 DEF kved_sector_consistency_check, InitIndexSector, InitFormatIndex, flash
    <2> QED BY <1>b, <1>2, <2>1 DEF SInv, SealInv
  <1>5. CASE InitStringSector
    <2>1. pc = "i_string" /\ str' = str
      BY <1>5 DEF InitStringSector, flash
    <2>2. CASE \E s \in Sectors : StrSigned(s)
      <3>1. /\ pc' = "check" /\ ctrl'.free = ctrl.free /\ ctrl'.str_sector \in Sectors
            /\ ctrl'.str_sector = (IF StrSigned("A") THEN "A" ELSE "B")
        BY <1>a, <1>5, <2>2 DEF InitStringSector, CtrlType, Sectors
      <3>2. StrSigned(ctrl'.str_sector)
        BY <2>2, <3>1 DEF Sectors
      <3>3. SealInv'
        BY <2>1, <3>1, <3>2 DEF SealInv, StrSigned
      <3> QED BY <1>b, <1>3, <2>1, <3>1, <3>3 DEF SInv
    <2>3. CASE ~(\E s \in Sectors : StrSigned(s))
      <3>1. pc' = "i_strerase"
        BY <1>5, <2>3 DEF InitStringSector
      <3> QED BY <1>b, <1>2, <2>1, <3>1 DEF SInv, SealInv
    <2> QED BY <2>2, <2>3
  <1>6. CASE InitFormatString
    <2>1. ctrl'.str_sector = "A" /\ ctrl'.free = ctrl.free /\ "A" \in Sectors /\ str \in StrType
      BY <1>a, <1>6, Texts DEF InitFormatString, CtrlType, Sectors
    <2>2. CASE pc = "i_strerase"
      <3>1. pc' = "i_strsig" /\ str' = [str EXCEPT !["A"] = ErasedStr]
        BY <1>6, <2>2 DEF InitFormatString
      <3>2. str'["A"] = ErasedStr /\ \A s \in Sectors : s # "A" => str'[s] = str[s]
        BY <2>1, <3>1 DEF StrType
      <3>3. \A s \in Sectors : Filled(str'[s], 0, 0)
        BY <1>b, <3>2, FilledErased
      <3> QED BY <1>2, <3>1, <3>2, <3>3, TextErased DEF SInv, SealInv, Unsealed
    <2>3. CASE pc = "i_strsig"
      <3>1. pc' = "i_strend" /\ str' = [str EXCEPT !["A"] = Program(@, 0, START)]
        BY <1>6, <2>3 DEF InitFormatString
      <3>2. str'["A"] = Program(str["A"], 0, START) /\ \A s \in Sectors : s # "A" => str'[s] = str[s]
        BY <2>1, <3>1 DEF StrType
      <3>3. \A s \in Sectors : Filled(str'[s], 0, 0)
        BY <1>a, <1>b, <2>1, <3>2, FilledSeal
      <3>4. HalfSealed(str'["A"])
        BY <1>a, <2>1, <2>3, <3>2, Programmed, TextErased DEF SInv, SealInv, Unsealed, HalfSealed
      <3> QED BY <1>2, <3>1, <3>3, <3>4 DEF SInv, SealInv
    <2>4. CASE pc = "i_strend"
      <3>1. pc' = "check" /\ str' = [str EXCEPT !["A"] = Program(@, NumEntries + 1, END)]
        BY <1>6, <2>4 DEF InitFormatString
      <3>2. str'["A"] = Program(str["A"], NumEntries + 1, END) /\ \A s \in Sectors : s # "A" => str'[s] = str[s]
        BY <2>1, <3>1 DEF StrType
      <3>3. \A s \in Sectors : Filled(str'[s], 0, 0)
        BY <1>a, <1>b, <2>1, <3>2, FilledSeal
      <3>4. StrSigned("A")'
        BY <1>a, <2>1, <2>4, <3>2, Programmed, TextErased DEF SInv, SealInv, HalfSealed, StrSigned
      <3> QED BY <1>3, <2>1, <2>4, <3>1, <3>3, <3>4 DEF SInv, SealInv, StrSigned
    <2> QED BY <1>6, <2>2, <2>3, <2>4 DEF InitFormatString
  <1> QED BY <1>4, <1>5, <1>6

(* The checks, and the calls up to the first write.                         *)
LEMMA StringsChecked ==
  ASSUME IInv, EInv, SInv, kved_string_consistency_check
  PROVE  SInv' /\ StrSigned(ctrl.str_sector) /\ ctrl' = ctrl
  <1> DEFINE free == {n \in 0 .. NumEntries - 1 :
                        str[ctrl.str_sector][kved_string_entry_to_header(n)] = FREE}
  <1>1. pc = "check" /\ str' = str
    BY DEF kved_string_consistency_check, flash
  <1>2. StrSigned(ctrl.str_sector)
    BY <1>1 DEF SInv, SealInv
  <1>3. pc' = "scan" /\ ctrl' = IF free = {} THEN ctrl ELSE [ctrl EXCEPT !.next_idx = First(free)]
    BY <1>2 DEF kved_string_consistency_check, Goto
  <1>4. Pending = 0 /\ Pending' = 0
    BY <1>1, <1>3 DEF Pending
  <1>5. /\ Filled(str[ctrl.str_sector], ctrl.next_idx, ctrl.next_idx)
        /\ ctrl.next_idx + ctrl.free <= NumEntries
    <2>1. pc \notin Starting /\ Headed = ctrl.next_idx
      BY <1>1 DEF Starting, InitLabels, Headed
    <2> QED BY <1>4, <2>1 DEF SInv, PlaceInv
  <1>6. ctrl.next_idx \in 0 .. NumEntries
    <2>1. ctrl.free \in Nat
      <3>1. Agrees(ctrl, InUse)
        BY <1>1 DEF EInv, CountInv, Selecting, Formatting
      <3> QED BY <3>1, NumNat DEF Agrees
    <2> QED BY <1>5, <2>1, Texts
  <1>7. free # {} => First(free) = ctrl.next_idx
    BY <1>5, <1>6, NextHeader
  <1> HIDE DEF free
  <1>8. ctrl' = ctrl
    <2>1. \A c \in CtrlType : [c EXCEPT !.next_idx = c.next_idx] = c
      BY DEF CtrlType
    <2> QED BY <1>3, <1>7, <2>1, Typed
  <1>9. PlaceInv'
    <2>1. ctrl'.next_idx + ctrl'.free <= NumEntries + Pending'
      BY <1>4, <1>5, <1>8, Texts
    <2> QED BY <1>1, <1>3, <1>8, <2>1, PlaceKept DEF SamePlace, Elsewhere, Starting, InitLabels
  <1>10. SealInv'
    BY <1>1, <1>3, SealKept DEF SwitchLabels
  <1> QED BY <1>2, <1>8, <1>9, <1>10 DEF SInv

LEMMA StringsScanned ==
  ASSUME IInv, EInv, SInv, kved_data_consistency_check \/ ConsistencyCheckDone
  PROVE  SInv'
  <1> USE DEF Elsewhere, Starting, InitLabels, SwitchLabels, Goto
  <1>1. pc = "scan" /\ str' = str /\ Pending = 0
    BY DEF kved_data_consistency_check, ConsistencyCheckDone, flash, Pending
  <1>2. ctrl.next_idx + ctrl.free <= NumEntries
    BY <1>1 DEF SInv, PlaceInv
  <1>3. pc' \in {"scan", "idle", "w_stridx", "w_val"} /\ (pc' = "w_stridx" => call'.type = "str")
    BY <1>1 DEF kved_data_consistency_check, ConsistencyCheckDone, AppendFrom, Return
  <1>4. SamePlace(ctrl, ctrl') /\ ctrl'.free <= ctrl.free /\ ctrl'.free \in Int
    <2>1. CASE kved_data_consistency_check
      BY <2>1, Typed DEF kved_data_consistency_check, SamePlace, CtrlType
    <2>2. CASE ConsistencyCheckDone
      BY <2>2, Typed DEF ConsistencyCheckDone, SamePlace, CtrlType
    <2> QED BY <2>1, <2>2
  <1>5. Pending' \in {0, 1}
    BY DEF Pending
  <1>6. ctrl'.next_idx + ctrl'.free <= NumEntries + Pending'
    BY <1>2, <1>4, <1>5, Texts DEF SamePlace
  <1> QED BY <1>1, <1>3, <1>4, <1>6, PlaceKept, SealKept DEF SInv

LEMMA StringsCalls ==
  ASSUME IInv, EInv, SInv,
         \/ Client \/ WriteRejected \/ WriteUnchanged \/ kved_dump \/ WriteFull \/ WriteSwitch
         \/ WriteAppend
  PROVE  SInv'
  <1> USE DEF Elsewhere, Starting, InitLabels, SwitchLabels, Goto
  <1>1. /\ pc \in {"idle", "write", "full"} /\ str' = str /\ ctrl' = ctrl
        /\ pc' \in {"idle", "write", "full", "delete", "sw_erase", "w_stridx", "w_val"}
        /\ pc' = "w_stridx" => call'.type = "str"
    <2>1. CASE kved_data_write \/ kved_data_delete \/ kved_compact_database
      BY <2>1 DEF kved_data_write, kved_data_delete, kved_compact_database, Enter, flash
    <2>2. CASE kved_data_read
      BY <2>2 DEF kved_data_read, flash
    <2>3. CASE WriteRejected \/ WriteUnchanged \/ kved_dump
      BY <2>3 DEF WriteRejected, WriteUnchanged, kved_dump, Return, flash
    <2>4. CASE WriteFull \/ WriteSwitch \/ WriteAppend
      BY <2>4 DEF WriteFull, WriteSwitch, WriteAppend, Writing, AppendFrom, flash
    <2> QED BY <2>1, <2>2, <2>3, <2>4 DEF Client
  <1>2. ctrl.next_idx + ctrl.free <= NumEntries
    <2>1. Pending = 0
      BY <1>1 DEF Pending
    <2> QED BY <1>1, <2>1 DEF SInv, PlaceInv
  <1>3. ctrl'.next_idx + ctrl'.free <= NumEntries + Pending'
    <2>1. Pending' \in {0, 1}
      BY DEF Pending
    <2> QED BY <1>1, <1>2, <2>1, Texts
  <1>4. PlaceInv'
    BY <1>1, <1>3, PlaceKept DEF SamePlace
  <1>5. SealInv'
    BY <1>1 DEF SealInv
  <1> QED BY <1>4, <1>5 DEF SInv

(* The writing of a text.                                                   *)
LEMMA StringsText ==
  ASSUME IInv, EInv, SInv, WriteStringIndex \/ WriteStringData
  PROVE  /\ SInv' /\ ctrl.next_idx \in Headers /\ call.type = "str"
         /\ ctrl.next_off = ctrl.next_idx * (SectorLen + 1)
  <1> USE DEF Starting, InitLabels, SwitchLabels, Appending, Goto
  <1> DEFINE h == ctrl.next_idx
             s == ctrl.str_sector
             W == str[s]
  <1>1. pc \in {"w_stridx", "w_strdata"}
    BY DEF WriteStringIndex, WriteStringData
  <1>2. /\ h \in Headers /\ h \in Nat /\ ctrl.next_off = h * (SectorLen + 1) /\ call.type = "str"
        /\ Filled(W, Headed, h) /\ h + ctrl.free <= NumEntries
    <2>1. Pending = 0
      BY <1>1 DEF Pending
    <2>2. h + ctrl.free <= NumEntries /\ h \in Nat /\ ctrl.free \in Int
      BY <1>1, <2>1, Texts DEF SInv, PlaceInv
    <2>3. ctrl.free > 0
      BY <1>1 DEF EInv, RoomInv
    <2>4. h \in Headers
      BY <2>2, <2>3 DEF Headers
    <2> QED BY <1>1, <2>2, <2>4 DEF SInv, PlaceInv
  <1>3. /\ W \in [StrWords -> Strs \cup Int] /\ s \in Sectors /\ str \in StrType
        /\ ctrl \in CtrlType
    BY Texts, Typed
  <1> HIDE DEF h, W
  <1>4. CASE WriteStringIndex
    <2>1. /\ pc = "w_stridx" /\ pc' = "w_strdata" /\ ctrl' = ctrl /\ call' = call
          /\ str' = [str EXCEPT ![s] = Program(@, HeaderAt(h), Ptr(ctrl.next_off))]
      BY <1>4 DEF WriteStringIndex, HeaderAt, h
    <2>2. str'[s] = Program(W, HeaderAt(h), Ptr(h * (SectorLen + 1)))
      BY <1>2, <1>3, <2>1 DEF StrType, W
    <2>3. Headed = h /\ Headed' = h + 1 /\ Pending' = 0
      BY <2>1 DEF Headed, Pending, h
    <2>4. Filled(str'[s], h + 1, h)
      BY <1>2, <1>3, <2>2, <2>3, FilledHeader
    <2>5. PlaceInv'
      BY <1>2, <2>1, <2>3, <2>4 DEF PlaceInv, h
    <2>6. SealInv'
      BY <2>1 DEF SealInv
    <2> QED BY <1>2, <2>5, <2>6 DEF SInv, h
  <1>5. CASE WriteStringData
    <2>1. /\ pc = "w_strdata" /\ pc' = "w_val" /\ call' = call
          /\ str' = [str EXCEPT ![s] = Program(@, TextAt(h), call.val)]
          /\ ctrl' = [ctrl EXCEPT !.next_idx = @ + 1, !.next_off = @ + SectorLen + 1]
      BY <1>2, <1>5 DEF WriteStringData, TextAt
    <2>2. str'[s] = Program(W, TextAt(h), call.val)
      BY <1>2, <1>3, <2>1 DEF StrType, W
    <2>3. /\ ctrl'.next_idx = h + 1 /\ ctrl'.next_off = ctrl.next_off + SectorLen + 1
          /\ ctrl'.free = ctrl.free /\ ctrl'.str_sector = s
      BY <1>3, <2>1 DEF CtrlType, h
    <2>4. Headed = h + 1 /\ Headed' = h + 1 /\ Pending' = 1
      BY <1>2, <2>1, <2>3 DEF Headed, Pending, h
    <2>5. Filled(str'[s], h + 1, h + 1)
      BY <1>2, <1>3, <2>2, <2>4, FilledText
    <2>6. ctrl'.next_off = ctrl'.next_idx * (SectorLen + 1)
      BY <1>2, <2>3 DEF SectorLen
    <2>7. ctrl'.next_idx + ctrl'.free <= NumEntries + Pending'
      BY <1>2, <2>3, <2>4, Texts
    <2>8. PlaceInv'
      BY <2>1, <2>3, <2>4, <2>5, <2>6, <2>7 DEF PlaceInv
    <2>9. SealInv'
      BY <2>1 DEF SealInv
    <2> QED BY <1>2, <2>8, <2>9 DEF SInv, h
  <1> QED BY <1>4, <1>5

(* The writing and the deletion of an entry.                                *)
LEMMA StringsEntry ==
  ASSUME IInv, EInv, SInv,
         WriteValue \/ WriteKey \/ WriteDeleteOld \/ kved_internal_data_delete
  PROVE  SInv'
  <1> USE DEF Elsewhere, Starting, InitLabels, SwitchLabels, Goto
  <1>1. ctrl \in CtrlType
    BY Typed
  <1>2. ASSUME str' = str, SamePlace(ctrl, ctrl'), pc \in {"w_val", "w_key", "w_del", "delete"},
               pc' \in {"w_key", "w_del", "idle"}, ctrl'.free \in Int,
               ctrl'.free - Pending' <= ctrl.free - Pending
        PROVE  SInv'
    <2>1. ctrl.next_idx + ctrl.free <= NumEntries + Pending
      BY <1>2 DEF SInv, PlaceInv
    <2>2. Pending' \in {0, 1}
      BY DEF Pending
    <2>3. ctrl'.next_idx + ctrl'.free <= NumEntries + Pending'
      BY <1>2, <2>1, <2>2, Texts DEF SamePlace
    <2> QED BY <1>2, <2>3, PlaceKept, SealKept DEF SInv
  <1>3. CASE WriteValue
    <2>1. pc = "w_val" /\ pc' = "w_key" /\ ctrl' = ctrl /\ call' = call /\ str' = str
      BY <1>3 DEF WriteValue
    <2>2. Pending' = Pending
      BY <2>1 DEF Pending
    <2> QED BY <1>2, <2>1, <2>2, Texts DEF SamePlace
  <1>4. CASE WriteKey
    <2>1. pc = "w_key" /\ pc' \in {"w_del", "idle"} /\ str' = str
      BY <1>4 DEF WriteKey, Return
    <2>2. SamePlace(ctrl, ctrl') /\ ctrl'.free = ctrl.free - 1
      BY <1>1, <1>4 DEF WriteKey, SamePlace, CtrlType
    <2>3. Pending' = 0
      BY <2>1 DEF Pending
    <2> QED BY <1>2, <2>1, <2>2, <2>3, Texts
  <1>5. CASE WriteDeleteOld \/ kved_internal_data_delete
    <2>1. pc \in {"w_del", "delete"} /\ pc' = "idle" /\ str' = str
      BY <1>5 DEF WriteDeleteOld, kved_internal_data_delete, Return
    <2>2. SamePlace(ctrl, ctrl') /\ ctrl'.free = ctrl.free
      BY <1>1, <1>5 DEF WriteDeleteOld, kved_internal_data_delete, SamePlace, CtrlType
    <2>3. Pending' = 0 /\ Pending = 0
      BY <2>1 DEF Pending
    <2> QED BY <1>2, <2>1, <2>2, <2>3, Texts
  <1> QED BY <1>3, <1>4, <1>5

(* The copying of the texts.                                                *)
LEMMA Roomy ==
  ASSUME IInv, SInv, pc \in SwitchLabels
  PROVE  /\ Headed = ctrl.next_idx /\ Pending = 0
         /\ Filled(str[ctrl.str_sector], ctrl.next_idx, ctrl.next_idx)
         /\ ctrl.next_idx + ctrl.free <= NumEntries + Pending
  <1>1. Headed = ctrl.next_idx /\ Pending = 0
    BY DEF Headed, Pending, SwitchLabels
  <1> QED BY <1>1 DEF SInv, PlaceInv, Starting, InitLabels, SwitchLabels

LEMMA StringsErased ==
  ASSUME IInv, EInv, SInv, SwitchErase
  PROVE  SInv'
  <1> USE DEF Elsewhere, Starting, InitLabels, SwitchLabels, Goto
  <1>1. CASE pc = "sw_erase"
    <2>1. pc' = "sw_strerase" /\ str' = str /\ ctrl' = ctrl
      BY <1>1 DEF SwitchErase
    <2>2. Pending' = 0
      BY <2>1 DEF Pending
    <2>3. ctrl'.next_idx + ctrl'.free <= NumEntries + Pending'
      BY <1>1, <2>1, <2>2, Roomy
    <2>4. PlaceInv'
      BY <1>1, <2>1, <2>3, PlaceKept DEF SamePlace
    <2>5. SealInv'
      BY <2>1 DEF SealInv
    <2> QED BY <2>4, <2>5 DEF SInv
  <1>2. CASE pc # "sw_erase"
    <2> DEFINE q == Other(ctrl.str_sector)
    <2>1. /\ pc = "sw_strerase" /\ pc' = "sw_copy" /\ ctrl' = ctrl /\ nxt' = 1 /\ sidx' = 0
          /\ str' = [str EXCEPT ![q] = ErasedStr]
      BY <1>2 DEF SwitchErase
    <2>2. str'[q] = ErasedStr /\ str'[ctrl.str_sector] = str[ctrl.str_sector]
      BY <2>1, Texts DEF StrType
    <2>3. Pending' = 0 /\ Headed' = ctrl.next_idx
      BY <2>1 DEF Pending, Headed
    <2>4. PlaceInv'
      <3>1. Filled(str'[ctrl.str_sector], Headed', ctrl.next_idx)
        BY <2>1, <2>2, <2>3, Roomy
      <3>2. ctrl'.next_idx + ctrl'.free <= NumEntries + Pending'
        BY <2>1, <2>3, Roomy
      <3>3. Filled(str'[q], 0, 0)
        BY <2>2, FilledErased
      <3> QED BY <2>1, <3>1, <3>2, <3>3 DEF PlaceInv, SInv
    <2>5. SealInv'
      BY <2>1, <2>2, TextErased DEF SealInv, Unsealed
    <2> QED BY <2>4, <2>5 DEF SInv
  <1> QED BY <1>1, <1>2

(* What the copying of one text does to the words.                          *)
TextAdded(words, h, text) ==
  Program(Program(words, TextAt(h), text), HeaderAt(h), Ptr(h * (SectorLen + 1)))
LEMMA TextAddedTo ==
  ASSUME NEW words \in [StrWords -> Strs \cup Int], NEW h \in Headers, Filled(words, h, h),
         NEW text \in Strs \cup Int
  PROVE  /\ Filled(TextAdded(words, h, text), h + 1, h + 1)
         /\ TextAdded(words, h, text)[TextAt(h)] = text
         /\ \A g \in Headers : g # h => TextAdded(words, h, text)[TextAt(g)] = words[TextAt(g)]
         /\ Unsealed(words) => Unsealed(TextAdded(words, h, text))
  <1> DEFINE p == Ptr(h * (SectorLen + 1))
             P == Program(words, TextAt(h), text)
             Q == Program(P, HeaderAt(h), p)
  <1>1. h \in Nat /\ h + 1 \in Nat
    BY DEF Headers
  <1>2. P \in [StrWords -> Strs \cup Int]
    BY ProgramType
  <1>3. Filled(P, h, h + 1)
    BY <1>1, FilledText
  <1>4. TextAt(h) \in StrWords /\ HeaderAt(h) \in StrWords
    BY Places
  <1>5. P[TextAt(h)] = text /\ \A z \in StrWords : z # TextAt(h) => P[z] = words[z]
    <2>1. words[TextAt(h)] = FREE
      BY DEF Filled, Headers
    <2> QED BY <1>4, <2>1, Programmed
  <1> HIDE DEF P
  <1>6. Filled(Q, h + 1, h + 1)
    BY <1>1, <1>2, <1>3, FilledHeader
  <1> HIDE DEF p
  <1>7. \A z \in StrWords : z # HeaderAt(h) => Q[z] = P[z]
    BY <1>2, <1>4, Programmed
  <1>8. Q = TextAdded(words, h, text)
    BY DEF TextAdded, P, p
  <1> HIDE DEF Q
  <1>9. Q[TextAt(h)] = text
    BY <1>4, <1>5, <1>7, Places
  <1>10. \A g \in Headers : g # h => Q[TextAt(g)] = words[TextAt(g)]
    BY <1>5, <1>7, Places
  <1>11. Unsealed(words) => Unsealed(Q)
    <2>1. 0 \in StrWords /\ NumEntries + 1 \in StrWords
      BY TextErased
    <2>2. HeaderAt(h) \in 1 .. NumEntries /\ TextAt(h) > NumEntries + 1 /\ TextAt(h) \in StrWords
      BY Places
    <2>3. 0 # HeaderAt(h) /\ 0 # TextAt(h) /\ NumEntries + 1 # HeaderAt(h) /\ NumEntries + 1 # TextAt(h)
      BY <2>2 DEF StrWords
    <2> QED BY <1>5, <1>7, <2>1, <2>3 DEF Unsealed
  <1> QED BY <1>6, <1>8, <1>9, <1>10, <1>11

LEMMA StringsCopied ==
  ASSUME IInv, EInv, SInv, SwitchCopy
  PROVE  SInv' /\ sidx \in Headers
  <1> USE DEF Starting, InitLabels, SwitchLabels
  <1> DEFINE q == Other(ctrl.str_sector)
             e == main[ctrl.sector].slot[i]
  <1>1. /\ pc = "sw_copy" /\ pc' = pc /\ ctrl' = ctrl /\ call' = call /\ i \in Slots
    BY DEF SwitchCopy
  <1>2. /\ nxt \in 1 .. i /\ sidx < nxt /\ sidx \in Nat /\ nxt \in Nat
        /\ Filled(str[q], sidx, sidx) /\ Unsealed(str[q])
    BY <1>1, Texts DEF EInv, CopyInv, SInv, PlaceInv, SealInv
  <1>3. sidx \in Headers
    BY <1>1, <1>2 DEF Slots, Headers
  <1>4. Pending' = 0 /\ Headed' = ctrl.next_idx
    BY <1>1 DEF Pending, Headed
  <1>5. ASSUME str'[ctrl.str_sector] = str[ctrl.str_sector],
               sidx' < nxt', Filled(str'[q], sidx', sidx'), Unsealed(str'[q])
        PROVE  SInv'
    <2>1. Filled(str'[ctrl.str_sector], Headed', ctrl.next_idx)
      BY <1>1, <1>4, <1>5, Roomy
    <2>2. ctrl'.next_idx + ctrl'.free <= NumEntries + Pending'
      BY <1>1, <1>4, Roomy
    <2>3. PlaceInv'
      BY <1>1, <1>5, <2>1, <2>2 DEF PlaceInv, SInv
    <2>4. SealInv'
      BY <1>1, <1>5 DEF SealInv
    <2> QED BY <2>3, <2>4 DEF SInv
  <1>6. CASE str' = str /\ sidx' = sidx /\ nxt' \in {nxt, nxt + 1}
    <2>1. sidx' < nxt'
      BY <1>2, <1>6
    <2> QED BY <1>2, <1>3, <1>5, <1>6, <2>1
  <1>7. CASE kved_is_valid_key(e.k) /\ e.t = "str"
    <2> DEFINE o == sidx * (SectorLen + 1)
    <2>1. nxt' = nxt + 1 /\ sidx' = sidx + 1
      BY <1>7 DEF SwitchCopy
    <2>2. PICK text \in CopiedTexts(e) :
            str' = [str EXCEPT ![q] = Program(Program(@, kved_string_entry_to_start_sector(o), text),
                                              kved_string_entry_to_header(sidx), Ptr(o))]
      BY <1>7 DEF SwitchCopy
    <2>3. str' = [str EXCEPT ![q] = TextAdded(@, sidx, text)]
      BY <2>2 DEF TextAdded, TextAt, HeaderAt
    <2>4. /\ str'[q] = TextAdded(str[q], sidx, text)
          /\ str'[ctrl.str_sector] = str[ctrl.str_sector]
      BY <2>3, Texts DEF StrType
    <2>5. text \in Strs \cup Int
      <3>1. call.val \in Strs \cup Int
        BY Typed DEF CallType
      <3> QED BY <2>2, <3>1, DecodeType DEF CopiedTexts, GARBLED
    <2>6. Filled(str'[q], sidx + 1, sidx + 1) /\ Unsealed(str'[q])
      BY <1>2, <1>3, <2>4, <2>5, Texts, TextAddedTo
    <2>7. sidx' < nxt'
      BY <1>2, <2>1
    <2> QED BY <1>3, <1>5, <2>1, <2>4, <2>6, <2>7
  <1>8. CASE ~(kved_is_valid_key(e.k) /\ e.t = "str")
    <2>1. str' = str /\ sidx' = sidx /\ nxt' \in {nxt, nxt + 1}
      BY <1>8 DEF SwitchCopy, flash
    <2> QED BY <1>6, <2>1
  <1> QED BY <1>3, <1>7, <1>8

LEMMA StringsAdopted ==
  ASSUME IInv, EInv, SInv, SwitchAdopt
  PROVE  SInv'
  <1> USE DEF Starting, InitLabels, SwitchLabels, Goto
  <1> DEFINE q == Other(ctrl.str_sector)
  <1>1. /\ pc = "sw_copy" /\ pc' = "sw_sig" /\ str' = str /\ ctrl'.str_sector = q
        /\ ctrl'.next_idx = sidx /\ ctrl'.next_off = sidx * (SectorLen + 1)
        /\ ctrl'.free = NumEntries - (nxt - 1)
    BY DEF SwitchAdopt
  <1>2. /\ sidx < nxt /\ sidx \in Nat /\ nxt \in Nat
        /\ Filled(str[q], sidx, sidx) /\ Unsealed(str[q])
    BY <1>1, Texts, Typed DEF SInv, PlaceInv, SealInv
  <1>3. Pending' = 0 /\ Headed' = sidx
    BY <1>1 DEF Pending, Headed
  <1>4. ctrl'.next_idx + ctrl'.free <= NumEntries + Pending'
    BY <1>1, <1>2, <1>3
  <1>5. PlaceInv'
    BY <1>1, <1>2, <1>3, <1>4 DEF PlaceInv
  <1>6. SealInv'
    BY <1>1, <1>2 DEF SealInv
  <1> QED BY <1>5, <1>6 DEF SInv

LEMMA StringsSigned ==
  ASSUME IInv, EInv, SInv, SwitchSign \/ SwitchSignString \/ SwitchInvalidate
  PROVE  SInv'
  <1> USE DEF Elsewhere, Starting, InitLabels, SwitchLabels, Goto
  <1> DEFINE s == ctrl.str_sector
  <1>1. /\ pc \in {"sw_sig", "sw_strsig", "sw_strend", "sw_inval"} /\ ctrl' = ctrl
        /\ pc' \in {"sw_strsig", "sw_strend", "sw_inval", "check"}
    BY DEF SwitchSign, SwitchSignString, SwitchInvalidate
  <1>2. Pending' = 0 /\ Headed' = ctrl.next_idx
    BY <1>1 DEF Pending, Headed
  <1>3. ctrl'.next_idx + ctrl'.free <= NumEntries + Pending'
    BY <1>1, <1>2, Roomy
  <1>4. ASSUME Filled(str'[s], ctrl.next_idx, ctrl.next_idx)
        PROVE  PlaceInv'
    BY <1>1, <1>2, <1>3, <1>4 DEF PlaceInv, SInv
  <1>5. Filled(str[s], ctrl.next_idx, ctrl.next_idx)
    BY <1>1, Roomy
  <1>6. CASE SwitchSign \/ SwitchInvalidate
    <2>1. str' = str
      BY <1>6 DEF SwitchSign, SwitchInvalidate
    <2>2. \/ pc = "sw_sig" /\ pc' = "sw_strsig"
          \/ pc = "sw_inval" /\ pc' = "check"
      BY <1>6 DEF SwitchSign, SwitchInvalidate
    <2>3. SealInv'
      BY <1>1, <2>1, <2>2 DEF SealInv, SInv, StrSigned
    <2> QED BY <1>4, <1>5, <2>1, <2>3 DEF SInv
  <1>7. CASE SwitchSignString /\ pc = "sw_strsig"
    <2>1. pc' = "sw_strend" /\ str' = [str EXCEPT ![s] = Program(@, 0, START)]
      BY <1>7 DEF SwitchSignString
    <2>2. str'[s] = Program(str[s], 0, START)
      BY <2>1, Texts DEF StrType
    <2>3. Filled(str'[s], ctrl.next_idx, ctrl.next_idx)
      BY <1>5, <2>2, Texts, FilledSeal
    <2>4. HalfSealed(str'[s])
      BY <1>7, <2>2, Texts, Programmed, TextErased DEF SInv, SealInv, Unsealed, HalfSealed
    <2> QED BY <1>1, <1>4, <2>1, <2>3, <2>4 DEF SInv, SealInv
  <1>8. CASE SwitchSignString /\ pc # "sw_strsig"
    <2>1. pc = "sw_strend" /\ pc' = "sw_inval" /\ str' = [str EXCEPT ![s] = Program(@, NumEntries + 1, END)]
      BY <1>8 DEF SwitchSignString
    <2>2. str'[s] = Program(str[s], NumEntries + 1, END)
      BY <2>1, Texts DEF StrType
    <2>3. Filled(str'[s], ctrl.next_idx, ctrl.next_idx)
      BY <1>5, <2>2, Texts, FilledSeal
    <2>4. str'[s][0] = START /\ str'[s][NumEntries + 1] = END
      BY <2>1, <2>2, Texts, Programmed, TextErased DEF SInv, SealInv, HalfSealed
    <2>5. SealInv'
      BY <1>1, <2>1, <2>4 DEF SealInv, StrSigned
    <2> QED BY <1>4, <2>3, <2>5 DEF SInv
  <1> QED BY <1>6, <1>7, <1>8

LEMMA StringsStep ==
  ASSUME OneSession, IInv, EInv, SInv, [Next]_vars
  PROVE  SInv'
  <1>1. CASE UNCHANGED vars
    <2>1. SealInv' <=> SealInv
      BY <1>1 DEF vars, SealInv, StrSigned
    <2>2. PlaceInv' <=> PlaceInv
      BY <1>1 DEF vars, PlaceInv, Headed, Pending
    <2> QED BY <2>1, <2>2 DEF SInv
  <1>2. CASE \/ kved_sector_consistency_check \/ InitIndexSector \/ InitFormatIndex
             \/ InitStringSector \/ InitFormatString
    BY <1>2, StringsStarted
  <1>3. CASE kved_string_consistency_check
    BY <1>3, StringsChecked
  <1>4. CASE kved_data_consistency_check \/ ConsistencyCheckDone
    BY <1>4, StringsScanned
  <1>5. CASE \/ Client \/ WriteRejected \/ WriteUnchanged \/ kved_dump \/ WriteFull \/ WriteSwitch
             \/ WriteAppend
    BY <1>5, StringsCalls
  <1>6. CASE WriteStringIndex \/ WriteStringData
    BY <1>6, StringsText
  <1>7. CASE WriteValue \/ WriteKey \/ WriteDeleteOld \/ kved_internal_data_delete
    BY <1>7, StringsEntry
  <1>8. CASE SwitchErase
    BY <1>8, StringsErased
  <1>9. CASE SwitchCopy
    BY <1>9, StringsCopied
  <1>10. CASE SwitchAdopt
    BY <1>10, StringsAdopted
  <1>11. CASE SwitchSign \/ SwitchSignString \/ SwitchInvalidate
    BY <1>11, StringsSigned
  <1>12. ~kved_deinit /\ ~PowerCut
    BY DEF OneSession, kved_deinit, PowerCut
  <1> QED BY <1>1, <1>2, <1>3, <1>4, <1>5, <1>6, <1>7, <1>8, <1>9, <1>10, <1>11, <1>12
          DEF Next, Step

(* The invariant of the string table: in one session a text for every entry *)
(* at most, next_free_index and next_free_sector at the end of what is      *)
(* written, and the sector in use signed (kved_internal_strdata_write,      *)
(* kved_sector_switch, kved_string_consistency_check).                      *)
THEOREM StringsInvariant ==
  ASSUME OneSession
  PROVE  Spec => []SInv
  <1>0. WholeEntries
    BY DEF OneSession, WholeEntries
  <1>1. Init => SInv
    BY InitSInv
  <1>2. IInv /\ EInv /\ SInv /\ [Next]_vars => SInv'
    BY StringsStep
  <1>3. Spec => []EInv
    BY <1>0, EntriesInvariant
  <1> QED BY <1>1, <1>2, <1>3, InductiveInvariant, PTL DEF Spec

(* As long as the index has a free entry, the string table has a free       *)
(* header and free words for a text, in one session of any length, with any *)
(* number of switches (kved_internal_strdata_write, kved_sector_switch).    *)
THEOREM StringSpaceCorrect ==
  ASSUME OneSession
  PROVE  Spec => []StringSpace
  <1>1. IInv /\ SInv => StringSpace
    <2> SUFFICES ASSUME IInv, SInv, pc = "idle", ctrl.free > 0
                 PROVE  /\ ctrl.next_idx < NumEntries
                        /\ LET words == str[ctrl.str_sector]
                           IN  /\ words[kved_string_entry_to_header(ctrl.next_idx)] = FREE
                               /\ words[kved_string_entry_to_start_sector(ctrl.next_off)] = FREE
      BY DEF StringSpace
    <2>1. Headed = ctrl.next_idx /\ Pending = 0
      BY DEF Headed, Pending
    <2>2. /\ Filled(str[ctrl.str_sector], ctrl.next_idx, ctrl.next_idx)
          /\ ctrl.next_idx + ctrl.free <= NumEntries + 0
          /\ ctrl.next_off = ctrl.next_idx * (SectorLen + 1)
      BY <2>1 DEF SInv, PlaceInv, Starting, InitLabels
    <2>3. ctrl.next_idx < NumEntries /\ ctrl.next_idx \in Headers
      BY <2>2, Texts DEF Headers
    <2>4. ctrl.next_idx >= ctrl.next_idx /\ ~(ctrl.next_idx < ctrl.next_idx)
      BY <2>3 DEF Headers
    <2>5. /\ str[ctrl.str_sector][HeaderAt(ctrl.next_idx)] = FREE
          /\ str[ctrl.str_sector][TextAt(ctrl.next_idx)] = FREE
      BY <2>2, <2>3, <2>4 DEF Filled
    <2> QED BY <2>2, <2>3, <2>5 DEF HeaderAt, TextAt
  <1> QED BY <1>1, InductiveInvariant, StringsInvariant, PTL

-----------------------------------------------------------------------------
(* The database of one session as a dictionary, strings included.  A key is *)
(* always written with one type (README, deviations).                       *)
OneType == \A k \in Keys : \A t, u \in KeyTypes[k] : t = u

(* An entry as it is read: a string entry means its text.                   *)
Meant(words, e) == [k |-> e.k, t |-> e.t, v |-> IF e.t = "str" THEN words[TextAt(e.v)] ELSE e.v]
Words == str[ctrl.str_sector]
SpareWords == str[Other(ctrl.str_sector)]

(* An entry is one of the client's, and its text among the first texts.     *)
Sound(words, texts, e) ==
  e.k \in Keys =>
    /\ e.t \in KeyTypes[e.k]
    /\ e.t = "str" => e.v \in 0 .. texts - 1 /\ words[TextAt(e.v)] \in Strs

SoundInv ==
  /\ call.op = "write" /\ call.key \in Keys =>
       call.type \in KeyTypes[call.key] /\ (call.type = "str" => call.val \in Strs)
  /\ pc \in Starting \/ Recovering => \A s \in Sectors : main[s].slot = EmptyTable
  /\ \A n \in Slots : Sound(Words, ctrl.next_idx, InUse[n])
  /\ pc = "sw_copy" => \A n \in Slots : n < nxt => Sound(SpareWords, sidx, Spare[n])

(* What the entries that a call has written mean.                           *)
MeantInv ==
  /\ pc = "full" => ctrl.used = NumEntries /\ \A n \in Slots : Meant(Words, InUse[n]) # Wanted
  /\ pc \in {"w_val", "w_key"} /\ call.type = "str" =>
       ctrl.next_idx > 0 /\ Words[TextAt(ctrl.next_idx - 1)] = call.val
  /\ pc = "w_key" => InUse[ctrl.first_free].v = EncodedValue
  /\ pc = "w_del" => /\ ctrl.first_free - 1 \in Slots /\ old < ctrl.first_free - 1
                     /\ Meant(Words, InUse[ctrl.first_free - 1]) = Wanted
  /\ pc = "sw_copy" =>
       /\ \A n \in Slots : n < nxt =>
            \E j \in Slots : /\ j < i /\ InUse[j].k \in Keys
                             /\ Meant(SpareWords, Spare[n]) = CopyOf(call, Meant(Words, InUse[j]))
       /\ \A j \in Slots : j < i /\ InUse[j].k \in Keys =>
            \E n \in Slots : /\ n < nxt
                             /\ Meant(SpareWords, Spare[n]) = CopyOf(call, Meant(Words, InUse[j]))
  /\ Renewed /\ pc \in Late => \E n \in Slots : Meant(Words, InUse[n]) = Wanted

RInv == SoundInv /\ MeantInv

(* The first texts texts stay as they are.                                  *)
SameTexts(words, other, texts) ==
  \A h \in 0 .. texts - 1 : other[TextAt(h)] = words[TextAt(h)]

LEMMA MeantSame ==
  ASSUME NEW words, NEW other, NEW t, NEW e, e.k \in Keys, Sound(words, t, e),
         SameTexts(words, other, t)
  PROVE  Meant(other, e) = Meant(words, e)
  <1>1. e.t = "str" => other[TextAt(e.v)] = words[TextAt(e.v)]
    BY DEF Sound, SameTexts
  <1> QED BY <1>1 DEF Meant

LEMMA SoundSame ==
  ASSUME NEW words, NEW other, NEW t, NEW e, Sound(words, t, e), SameTexts(words, other, t)
  PROVE  Sound(other, t, e)
  BY DEF Sound, SameTexts

LEMMA SoundMore ==
  ASSUME NEW words, NEW t \in Nat, NEW u \in Nat, t <= u, NEW e, Sound(words, t, e)
  PROVE  Sound(words, u, e)
  BY DEF Sound

LEMMA SoundOther ==
  ASSUME NEW words, NEW t, NEW e, e.k \notin Keys
  PROVE  Sound(words, t, e)
  BY DEF Sound

LEMMA EmptySound == \A n \in Slots : EmptyTable[n].k \notin Keys
  BY KeyKinds DEF EmptyTable, FreeSlot

LEMMA TypeKinds == \A k \in Keys : \A t \in KeyTypes[k] : t \in {"num", "str"}
  BY KeyTypesAssumption DEF Types

(* There are at most as many texts as entries.                              *)
LEMMA TextBound ==
  ASSUME IInv, EInv, SInv
  PROVE  ctrl.next_idx \in 0 .. NumEntries /\ ctrl.next_idx \in Nat
  <1>1. CASE pc \in Starting
    BY <1>1 DEF SInv, PlaceInv
  <1>2. CASE pc \notin Starting
    <2>1. ctrl.next_idx + ctrl.free <= NumEntries + Pending
      BY <1>2 DEF SInv, PlaceInv
    <2>2. ctrl.free \in Nat
      <3>1. Agrees(ctrl, InUse)
        BY <1>2 DEF EInv, CountInv, Selecting, Formatting, Starting, InitLabels
      <3> QED BY <3>1, NumNat DEF Agrees
    <2>3. Pending = 1 => ctrl.free > 0
      BY DEF EInv, RoomInv, Pending, Appending
    <2> QED BY <2>1, <2>2, <2>3, Texts
  <1> QED BY <1>1, <1>2

(* kved_value_string_decode finds the text of every entry.                  *)
LEMMA Readable ==
  ASSUME IInv, EInv, SInv, SoundInv, NEW n \in Slots, InUse[n].k \in Keys
  PROVE  /\ InUse[n].t \in {"num", "str"}
         /\ InUse[n].t = "str" =>
              kved_value_string_decode(Words, InUse[n].v) = {Meant(Words, InUse[n]).v}
         /\ InUse[n].t # "str" => Meant(Words, InUse[n]).v = InUse[n].v
  <1> DEFINE v == InUse[n].v
  <1>1. pc \notin Starting
    <2>1. pc \in Starting => InUse = EmptyTable
      BY Typed DEF SoundInv, InUse
    <2> QED BY <2>1, EmptySound
  <1>2. InUse[n].t \in {"num", "str"}
    BY TypeKinds DEF SoundInv, Sound
  <1>3. InUse[n].t # "str" => Meant(Words, InUse[n]).v = InUse[n].v
    BY DEF Meant
  <1> SUFFICES ASSUME InUse[n].t = "str"
               PROVE  kved_value_string_decode(Words, v) = {Meant(Words, InUse[n]).v}
    BY <1>2, <1>3
  <1>4. v \in 0 .. ctrl.next_idx - 1 /\ Words[TextAt(v)] \in Strs
    BY DEF SoundInv, Sound
  <1>5. Meant(Words, InUse[n]).v = Words[TextAt(v)]
    BY DEF Meant
  <1> HIDE DEF v
  <1>6. v \in Headers /\ v < ctrl.next_idx
    BY <1>4, TextBound DEF Headers
  <1>7. Words[HeaderAt(v)] = Ptr(v * (SectorLen + 1))
    <2>1. Filled(Words, Headed, ctrl.next_idx)
      BY <1>1 DEF SInv, PlaceInv, Words
    <2>2. v < Headed
      BY <1>6, TextBound DEF Headed, Headers
    <2> QED BY <1>6, <2>1, <2>2 DEF Filled
  <1>8. Offset(Words[HeaderAt(v)]) = v * (SectorLen + 1) /\ ~(Words[HeaderAt(v)] <= 0)
    BY <1>6, <1>7 DEF Offset, Ptr, SectorLen, Headers
  <1>9. ~(v < 0 \/ v > NumEntries)
    BY <1>6 DEF Headers
  <1>10. kved_value_string_decode(Words, v) = {Words[TextAt(v)]}
    BY <1>4, <1>8, <1>9 DEF kved_value_string_decode, TextAt, HeaderAt
  <1> QED BY <1>5, <1>10

LEMMA InitRInv == Init => RInv
  <1> SUFFICES ASSUME Init PROVE RInv
    OBVIOUS
  <1>1. pc = "off" /\ call.op = "none" /\ old = 0
    BY DEF Init, NoCall
  <1>2. \A s \in Sectors : main[s].slot = EmptyTable
    BY DEF Init, ErasedMain, EmptyTable
  <1>3. InUse = EmptyTable
    BY <1>2 DEF Init, ZeroCtrl, Sectors, InUse
  <1>4. SoundInv
    BY <1>1, <1>2, <1>3, EmptySound, SoundOther DEF SoundInv
  <1> QED BY <1>1, <1>4 DEF RInv, MeantInv, Renewed

(* The steps that leave the entries and their texts alone.                  *)
LEMMA SoundQuiet ==
  ASSUME SoundInv, InUse' = InUse, SameTexts(Words, Words', ctrl.next_idx),
         ctrl.next_idx \in Nat, ctrl'.next_idx \in Nat, ctrl'.next_idx >= ctrl.next_idx,
         pc' \notin Starting \cup {"sw_copy"},
         pc' \in {"check", "scan"} /\ call'.op = "init" => pc \in {"check", "scan"} /\ call.op = "init" /\ main' = main,
         call' = call \/ call'.op # "write"
  PROVE  SoundInv'
  <1>1. \A n \in Slots : Sound(Words', ctrl'.next_idx, InUse'[n])
    <2> SUFFICES ASSUME NEW n \in Slots PROVE Sound(Words', ctrl'.next_idx, InUse'[n])
      OBVIOUS
    <2>1. Sound(Words, ctrl.next_idx, InUse[n])
      BY DEF SoundInv
    <2>2. Sound(Words', ctrl.next_idx, InUse[n])
      BY <2>1, SoundSame
    <2>3. Sound(Words', ctrl'.next_idx, InUse[n])
      BY <2>2, SoundMore
    <2> QED BY <2>3
  <1>2. Recovering' => Recovering /\ main' = main
    BY DEF Recovering, Starting
  <1> QED BY <1>1, <1>2 DEF SoundInv

LEMMA SameWords == \A words, t : SameTexts(words, words, t)
  BY DEF SameTexts

LEMMA MeantQuiet ==
  ASSUME pc' \notin {"full", "w_val", "w_key", "w_del", "sw_copy"} \cup Late
  PROVE  MeantInv'
  BY DEF MeantInv

(* kved_init                                                                *)
LEMMA ReadableInit ==
  ASSUME IInv, EInv, SInv, RInv, IInv',
         \/ kved_sector_consistency_check \/ InitIndexSector \/ InitFormatIndex
         \/ InitStringSector \/ InitFormatString
  PROVE  RInv'
  <1> USE DEF InitLabels, Starting, Goto
  <1>1. pc \in Starting /\ pc' \in InitLabels \cup {"check"}
    BY DEF kved_sector_consistency_check, InitIndexSector, InitFormatIndex, InitStringSector,
           InitFormatString
  <1>2. call'.op = "init"
    <2>1. CASE kved_sector_consistency_check
      BY <2>1, Typed DEF kved_sector_consistency_check, NoCall
    <2>2. CASE ~kved_sector_consistency_check
      <3>1. call' = call /\ pc \in InitLabels
        BY <2>2 DEF InitIndexSector, InitFormatIndex, InitStringSector, InitFormatString
      <3> QED BY <3>1 DEF IInv, CallInv
    <2> QED BY <2>1, <2>2
  <1>3. \A s \in Sectors : main[s].slot = EmptyTable
    BY <1>1 DEF RInv, SoundInv
  <1>4. \A s \in Sectors : main'[s].slot = EmptyTable
    <2>1. CASE kved_sector_consistency_check
      BY <1>3, <2>1, Typed DEF kved_sector_consistency_check, MainType
    <2>2. CASE InitFormatIndex
      BY <1>3, <2>2, Typed DEF InitFormatIndex, MainType, ErasedMain, EmptyTable, Sign, Sectors
    <2>3. CASE InitIndexSector \/ InitStringSector \/ InitFormatString
      BY <1>3, <2>3 DEF InitIndexSector, InitStringSector, InitFormatString, flash
    <2> QED BY <2>1, <2>2, <2>3
  <1>5. InUse' = EmptyTable
    <2>1. ctrl'.sector \in Sectors
      BY DEF IInv, TypeOK, CtrlType
    <2> QED BY <1>4, <2>1 DEF InUse
  <1>6. SoundInv'
    BY <1>1, <1>2, <1>4, <1>5, EmptySound, SoundOther DEF SoundInv
  <1>7. MeantInv'
    BY <1>1, <1>2 DEF MeantInv, Renewed
  <1> QED BY <1>6, <1>7 DEF RInv

(* The checks: a session never finds anything to repair.                    *)
LEMMA NothingToRepair ==
  ASSUME IInv, EInv, SoundInv
  PROVE  ~kved_data_consistency_check
  <1> SUFFICES ASSUME pc = "scan", ToDelete # 0 PROVE FALSE
    BY DEF kved_data_consistency_check
  <1> DEFINE S == {q \in Slots : /\ q >= i
                                 /\ \/ HalfWritten(main[ctrl.sector].slot[q])
                                    \/ DuplicatedAhead(ctrl.sector, q)}
  <1>1. PICK x \in Slots : \/ HalfWritten(main[ctrl.sector].slot[x])
                           \/ DuplicatedAhead(ctrl.sector, x)
    <2>1. S \in SUBSET Slots /\ ToDelete = First(S)
      BY DEF ToDelete
    <2> QED BY <2>1, FirstIsLeast
  <1>2. call.op = "init"
    BY ScanFinds
  <1>3. main[ctrl.sector].slot = EmptyTable
    BY <1>2, Typed DEF SoundInv, Recovering
  <1>4. ~HalfWritten(main[ctrl.sector].slot[x])
    BY <1>3 DEF HalfWritten, EmptyTable, FreeSlot
  <1>5. ~DuplicatedAhead(ctrl.sector, x)
    BY <1>3, KeyKinds DEF DuplicatedAhead, EmptyTable, FreeSlot
  <1> QED BY <1>1, <1>4, <1>5

LEMMA ReadableChecked ==
  ASSUME IInv, EInv, SInv, RInv, kved_string_consistency_check \/ ConsistencyCheckDone
  PROVE  RInv'
  <1> USE DEF Starting, InitLabels, Goto
  <1>1. /\ pc \in {"check", "scan"} /\ main' = main /\ str' = str /\ ctrl' = ctrl
    <2>1. CASE kved_string_consistency_check
      BY <2>1, StringsChecked DEF kved_string_consistency_check, flash
    <2>2. CASE ConsistencyCheckDone
      BY <2>2 DEF ConsistencyCheckDone, flash
    <2> QED BY <2>1, <2>2
  <1>2. InUse' = InUse /\ Words' = Words
    BY <1>1 DEF InUse, Words
  <1>3. ASSUME pc' \notin Starting \cup {"sw_copy", "check"}, pc' = "scan" => pc \in {"check", "scan"},
               call' = call \/ call'.op = "none"
        PROVE  SoundInv'
    BY <1>1, <1>2, <1>3, SoundQuiet, SameWords, TextBound DEF RInv
  <1>4. CASE kved_string_consistency_check
    <2>1. pc' = "scan" /\ call' = call /\ old' = old
      BY <1>4, StringsChecked DEF kved_string_consistency_check
    <2>2. MeantInv'
      BY <1>1, <1>2, <2>1 DEF RInv, MeantInv, Renewed, Wanted, Late, Early, SwitchLabels
    <2>3. SoundInv'
      BY <1>1, <1>3, <2>1
    <2> QED BY <2>2, <2>3 DEF RInv
  <1>5. CASE ConsistencyCheckDone
    <2>1. CASE call.op = "write" /\ old = 0
      <3>1. /\ call' = call /\ pc' \in {"w_stridx", "w_val"}
            /\ pc' = "w_val" => call.type # "str"
        BY <1>5, <2>1 DEF ConsistencyCheckDone, AppendFrom
      <3>2. MeantInv'
        BY <3>1 DEF MeantInv, Late, Early, SwitchLabels
      <3> QED BY <1>3, <3>1, <3>2 DEF RInv
    <2>2. CASE ~(call.op = "write" /\ old = 0)
      <3>1. pc' = "idle" /\ call'.op = "none"
        BY <1>5, <2>2 DEF ConsistencyCheckDone, Return, NoCall
      <3>2. MeantInv'
        BY <3>1 DEF MeantInv, Late, Early, SwitchLabels
      <3> QED BY <1>3, <3>1, <3>2 DEF RInv
    <2> QED BY <2>1, <2>2
  <1> QED BY <1>4, <1>5

(* The calls.                                                               *)
LEMMA ReadableCalls ==
  ASSUME IInv, EInv, SInv, RInv, Client \/ WriteRejected \/ WriteUnchanged \/ kved_dump
  PROVE  RInv'
  <1> USE DEF Starting, InitLabels, SwitchLabels, Early, Late, Goto
  <1>1. /\ pc \in {"idle", "write", "full"} /\ main' = main /\ ctrl' = ctrl /\ str' = str
        /\ pc' \in {"write", "delete", "sw_erase", "idle"}
        /\ \/ call'.op # "write"
           \/ /\ call'.key \in Keys =>
                   call'.type \in KeyTypes[call'.key] /\ (call'.type = "str" => call'.val \in Strs)
    <2>1. CASE kved_data_write
      <3>1. \/ \E k \in Keys : \E t \in KeyTypes[k] : \E v \in Values(t) : Enter("write", k, t, v, "write")
            \/ \E v \in Nums : Enter("write", BadKey, "num", v, "write")
        BY <2>1 DEF kved_data_write
      <3>2. CASE \E v \in Nums : Enter("write", BadKey, "num", v, "write")
        BY <3>2, KeyKinds DEF Enter, flash
      <3>3. CASE \E k \in Keys : \E t \in KeyTypes[k] : \E v \in Values(t) : Enter("write", k, t, v, "write")
        <4>k. PICK k \in Keys : \E t \in KeyTypes[k] : \E v \in Values(t) : Enter("write", k, t, v, "write")
          BY <3>3
        <4>t. PICK t \in KeyTypes[k] : \E v \in Values(t) : Enter("write", k, t, v, "write")
          BY <4>k
        <4>1. PICK v \in Values(t) : Enter("write", k, t, v, "write")
          BY <4>t
        <4>2. call'.key = k /\ call'.type = t /\ call'.val = v
          BY <4>1 DEF Enter
        <4>3. t = "str" => v \in Strs
          BY DEF Values
        <4> QED BY <4>1, <4>2, <4>3 DEF Enter, flash
      <3> QED BY <3>1, <3>2, <3>3
    <2>2. CASE kved_data_delete \/ kved_compact_database
      BY <2>2 DEF kved_data_delete, kved_compact_database, Enter, flash
    <2>3. CASE kved_data_read
      <3>1. pc = "idle" /\ pc' = pc /\ main' = main /\ ctrl' = ctrl /\ str' = str
        BY <2>3 DEF kved_data_read, flash
      <3>2. call'.op = "read"
        BY <2>3 DEF kved_data_read
      <3> QED BY <3>1, <3>2
    <2>4. CASE WriteRejected
      BY <2>4 DEF WriteRejected, Return, NoCall, flash
    <2>5. CASE WriteUnchanged
      BY <2>5 DEF WriteUnchanged, Return, NoCall, flash
    <2>6. CASE kved_dump
      BY <2>6 DEF kved_dump, Return, NoCall, flash
    <2> QED BY <2>1, <2>2, <2>3, <2>4, <2>5, <2>6 DEF Client
  <1>2. InUse' = InUse /\ Words' = Words
    BY <1>1 DEF InUse, Words
  <1>3. MeantInv'
    BY <1>1, MeantQuiet
  <1>4. \A n \in Slots : Sound(Words', ctrl'.next_idx, InUse'[n])
    BY <1>1, <1>2 DEF RInv, SoundInv
  <1>5. SoundInv'
    BY <1>1, <1>4 DEF SoundInv, Recovering
  <1> QED BY <1>3, <1>5 DEF RInv

(* Where the call that writes stands.                                       *)
LEMMA WriterFinds ==
  ASSUME IInv, EInv, SInv, RInv, Writing \/ WriteUnchanged
  PROVE  /\ pc = "write" /\ call.op = "write" /\ call.key \in Keys /\ Unique(InUse)
         /\ call.type \in KeyTypes[call.key] /\ (call.type = "str" => call.val \in Strs)
         /\ \A n \in Slots : (InUse[n].k = call.key) <=> (n = Found)
  <1> USE DEF Selecting, Formatting, InitLabels
  <1>1. pc = "write" /\ kved_is_valid_key(call.key)
    BY DEF Writing, WriteUnchanged
  <1>2. call.op = "write" /\ Unique(InUse)
    BY <1>1 DEF EInv, ModeInv, UniqueInv, Recovering
  <1>3. call.key \in Keys
    BY <1>1, <1>2 DEF IInv, CallInv, kved_is_valid_key
  <1> QED BY <1>1, <1>2, <1>3, FoundEntry DEF RInv, SoundInv

(* kved_data_write compares the value of the entry with the new one.        *)
LEMMA Compared ==
  ASSUME OneType, IInv, EInv, SInv, RInv, Writing \/ WriteUnchanged, Found # 0
  PROVE  /\ Found \in Slots /\ InUse[Found].k = call.key /\ InUse[Found].t = call.type
         /\ Unchanged = {Meant(Words, InUse[Found]).v = call.val}
  <1>1. Found \in Slots /\ InUse[Found].k = call.key /\ call.key \in Keys
    <2>1. Found \in 0 .. NumEntries
      BY FindType DEF Found
    <2>2. Found \in Slots
      BY <2>1 DEF Slots
    <2> QED BY <2>2, WriterFinds
  <1>2. InUse[Found].t = call.type
    <2>1. InUse[Found].t \in KeyTypes[call.key] /\ call.type \in KeyTypes[call.key]
      BY <1>1, WriterFinds DEF RInv, SoundInv, Sound
    <2> QED BY <1>1, <2>1 DEF OneType
  <1>3. Unchanged = Equal(InUse[Found])
    BY DEF Unchanged, InUse
  <1>4. Equal(InUse[Found]) = {Meant(Words, InUse[Found]).v = call.val}
    <2> DEFINE m == Meant(Words, InUse[Found]).v
    <2>1. CASE call.type = "str"
      <3>1. kved_value_string_decode(Words, InUse[Found].v) = {m}
        BY <1>1, <1>2, <2>1, Readable DEF RInv
      <3> HIDE DEF m
      <3>2. {text = call.val : text \in {m}} = {m = call.val}
        OBVIOUS
      <3>3. Equal(InUse[Found]) = {text = call.val : text \in kved_value_string_decode(Words, InUse[Found].v)}
        BY <2>1 DEF Equal, Words
      <3>4. Equal(InUse[Found]) = {m = call.val}
        BY <3>1, <3>2, <3>3
      <3> QED BY <3>4 DEF m
    <2>2. CASE call.type # "str"
      <3>1. m = InUse[Found].v
        BY <1>1, <1>2, <2>2, Readable DEF RInv
      <3> HIDE DEF m
      <3>2. Equal(InUse[Found]) = {m = call.val}
        BY <2>2, <3>1 DEF Equal
      <3> QED BY <3>2 DEF m
    <2> QED BY <2>1, <2>2
  <1> QED BY <1>1, <1>2, <1>3, <1>4

LEMMA ReadableWriting ==
  ASSUME OneType, IInv, EInv, SInv, RInv, WriteFull \/ WriteSwitch \/ WriteAppend
  PROVE  RInv'
  <1> USE DEF Starting, InitLabels, SwitchLabels, Early, Late, Goto
  <1>1. Writing /\ main' = main /\ ctrl' = ctrl /\ str' = str /\ call' = call
    BY DEF WriteFull, WriteSwitch, WriteAppend, flash
  <1>2. InUse' = InUse /\ Words' = Words
    BY <1>1 DEF InUse, Words
  <1>3. pc' \in {"full", "sw_erase", "w_stridx", "w_val"}
    BY DEF WriteFull, WriteSwitch, WriteAppend, AppendFrom
  <1>4. SoundInv'
    BY <1>1, <1>2, <1>3, SoundQuiet, SameWords, TextBound DEF RInv
  <1>5. MeantInv'
    <2>1. CASE WriteFull
      <3>1. pc' = "full" /\ ctrl.used = NumEntries /\ FALSE \in Unchanged
        BY <2>1 DEF WriteFull, Writing
      <3>2. ASSUME NEW n \in Slots, Meant(Words, InUse[n]) = Wanted PROVE FALSE
        <4>1. InUse[n].k = call.key /\ Meant(Words, InUse[n]).v = call.val
          BY <3>2 DEF Meant, Wanted
        <4>2. n = Found /\ Found # 0
          BY <1>1, <4>1, WriterFinds DEF Slots
        <4>3. Unchanged = {Meant(Words, InUse[Found]).v = call.val}
          BY <1>1, <4>2, Compared
        <4> QED BY <3>1, <4>1, <4>2, <4>3
      <3>3. \A n \in Slots : Meant(Words', InUse'[n]) # Wanted'
        BY <1>1, <1>2, <3>2 DEF Wanted
      <3> QED BY <1>1, <3>1, <3>3 DEF MeantInv
    <2>2. CASE WriteSwitch \/ WriteAppend
      <3>1. pc' \in {"sw_erase", "w_stridx", "w_val"} /\ (pc' = "w_val" => call'.type # "str")
        BY <1>1, <2>2 DEF WriteSwitch, WriteAppend, AppendFrom
      <3> QED BY <3>1 DEF MeantInv
    <2> QED BY <2>1, <2>2
  <1> QED BY <1>4, <1>5 DEF RInv

LEMMA ReadableText ==
  ASSUME IInv, EInv, SInv, RInv, WriteStringIndex \/ WriteStringData
  PROVE  /\ RInv' /\ InUse' = InUse /\ SameTexts(Words, Words', ctrl.next_idx)
  <1> USE DEF Starting, InitLabels, SwitchLabels, Early, Late, Appending, Goto
  <1> DEFINE h == ctrl.next_idx
             s == ctrl.str_sector
  <1>1. /\ h \in Headers /\ h \in Nat /\ call.type = "str" /\ ctrl.next_off = h * (SectorLen + 1)
        /\ main' = main /\ call' = call
        /\ Words \in [StrWords -> Strs \cup Int] /\ s \in Sectors /\ str \in StrType
        /\ ctrl \in CtrlType
    BY StringsText, Texts, Typed DEF WriteStringIndex, WriteStringData, Words
  <1> HIDE DEF h
  <1>2. \A g \in 0 .. h - 1 : g \in Headers /\ g # h
    BY <1>1 DEF Headers
  <1>3. CASE WriteStringIndex
    <2>1. /\ pc' = "w_strdata" /\ ctrl' = ctrl
          /\ str' = [str EXCEPT ![s] = Program(@, HeaderAt(h), Ptr(ctrl.next_off))]
      BY <1>3 DEF WriteStringIndex, HeaderAt, h
    <2>2. Words' = Program(Words, HeaderAt(h), Ptr(ctrl.next_off))
      BY <1>1, <2>1 DEF StrType, Words
    <2>3. \A g \in Headers : Words'[TextAt(g)] = Words[TextAt(g)]
      BY <1>1, <2>2, Programmed, Places
    <2>4. SameTexts(Words, Words', h)
      BY <1>2, <2>3 DEF SameTexts
    <2>5. InUse' = InUse
      BY <1>1, <2>1 DEF InUse
    <2>6. SoundInv'
      BY <1>1, <2>1, <2>4, <2>5, SoundQuiet DEF h, RInv
    <2>7. MeantInv'
      BY <2>1, MeantQuiet
    <2> QED BY <2>4, <2>5, <2>6, <2>7 DEF h, RInv
  <1>4. CASE WriteStringData
    <2>1. /\ pc = "w_strdata" /\ pc' = "w_val"
          /\ str' = [str EXCEPT ![s] = Program(@, TextAt(h), call.val)]
          /\ ctrl' = [ctrl EXCEPT !.next_idx = @ + 1, !.next_off = @ + SectorLen + 1]
      BY <1>1, <1>4 DEF WriteStringData, TextAt, h
    <2>2. /\ ctrl'.next_idx = h + 1 /\ ctrl'.sector = ctrl.sector /\ ctrl'.str_sector = s
      BY <1>1, <2>1 DEF CtrlType, h
    <2>3. Words' = Program(Words, TextAt(h), call.val)
      BY <1>1, <2>1, <2>2 DEF StrType, Words
    <2>4. TextAt(h) \in StrWords /\ Words[TextAt(h)] = FREE
      <3>1. Filled(Words, Headed, h)
        BY <2>1 DEF SInv, PlaceInv, Words, h
      <3>2. h >= h
        BY <1>1
      <3> QED BY <1>1, <3>1, <3>2, Places DEF Filled
    <2>5. Words'[TextAt(h)] = call.val /\ \A g \in Headers : g # h => Words'[TextAt(g)] = Words[TextAt(g)]
      BY <1>1, <2>3, <2>4, Programmed, Places
    <2>6. SameTexts(Words, Words', h)
      BY <1>2, <2>5 DEF SameTexts
    <2>7. InUse' = InUse
      BY <1>1, <2>2 DEF InUse
    <2>8. h + 1 \in Nat /\ h + 1 >= h /\ h + 1 > 0 /\ (h + 1) - 1 = h
      BY <1>1
    <2>9. SoundInv'
      BY <1>1, <2>1, <2>2, <2>6, <2>7, <2>8, SoundQuiet DEF h, RInv
    <2>10. MeantInv'
      BY <1>1, <2>1, <2>2, <2>5, <2>8 DEF MeantInv
    <2> QED BY <2>6, <2>7, <2>9, <2>10 DEF h, RInv
  <1> QED BY <1>3, <1>4

(* The writing of an entry: its value, ...                                  *)
LEMMA ReadableValue ==
  ASSUME IInv, EInv, SInv, RInv, WriteValue
  PROVE  /\ RInv' /\ Words' = Words /\ ctrl.first_free \in Slots
         /\ InUse[ctrl.first_free].k \notin Keys /\ InUse'[ctrl.first_free].k \notin Keys
         /\ \A n \in Slots : n # ctrl.first_free => InUse'[n] = InUse[n]
  <1> USE DEF Selecting, Formatting, InitLabels, Starting, SwitchLabels, Early, Late
  <1> DEFINE x == ctrl.first_free
  <1>1. /\ pc = "w_val" /\ pc' = "w_key" /\ call' = call /\ ctrl' = ctrl /\ str' = str
        /\ main' = [main EXCEPT ![ctrl.sector].slot[x] = ProgramValue(@, EncodedValue)]
    BY DEF WriteValue, Goto
  <1>2. main \in MainType /\ ctrl.sector \in Sectors /\ InUse \in Tables
    BY Typed
  <1>3. x \in Slots /\ InUse[x].k = "free" /\ InUse[x].v = FREE
    <2>1. x \in Slots /\ InUse[x].k = "free"
      BY <1>1, NextFree
    <2>2. Formed(InUse, 0)
      BY <1>1, <1>2 DEF EInv, FormInv, InUse, Hole
    <2> QED BY <2>1, <2>2 DEF Formed, Slots
  <1>4. Words' = Words
    BY <1>1 DEF Words
  <1>5. /\ InUse'[x].k = "free" /\ InUse'[x].v = EncodedValue
        /\ \A n \in Slots : n # x => InUse'[n] = InUse[n]
    <2>1. /\ InUse'[x] = ProgramValue(InUse[x], EncodedValue)
          /\ \A n \in Slots : n # x => InUse'[n] = InUse[n]
      BY <1>1, <1>2, <1>3 DEF InUse, MainType
    <2>2. InUse[x] \in Entries
      BY <1>2, <1>3 DEF Tables
    <2>3. And(FREE, EncodedValue) = EncodedValue
      BY TextErased
    <2> QED BY <1>3, <2>1, <2>2, <2>3 DEF ProgramValue, Entries
  <1> HIDE DEF x
  <1>6. \A n \in Slots : Sound(Words', ctrl'.next_idx, InUse'[n])
    <2> SUFFICES ASSUME NEW n \in Slots PROVE Sound(Words', ctrl'.next_idx, InUse'[n])
      OBVIOUS
    <2>1. CASE n = x
      BY <1>5, <2>1, KeyKinds, SoundOther
    <2>2. CASE n # x
      BY <1>1, <1>4, <1>5, <2>2 DEF RInv, SoundInv
    <2> QED BY <2>1, <2>2
  <1>7. SoundInv'
    BY <1>1, <1>6 DEF RInv, SoundInv, Recovering
  <1>8. MeantInv'
    <2>1. EncodedValue' = EncodedValue
      BY <1>1 DEF EncodedValue
    <2>2. InUse'[ctrl'.first_free].v = EncodedValue'
      BY <1>1, <1>5, <2>1 DEF x
    <2>3. call'.type = "str" =>
            ctrl'.next_idx > 0 /\ Words'[TextAt(ctrl'.next_idx - 1)] = call'.val
      BY <1>1, <1>4 DEF RInv, MeantInv
    <2> QED BY <1>1, <2>2, <2>3 DEF MeantInv
  <1> QED BY <1>3, <1>4, <1>5, <1>7, <1>8, KeyKinds DEF RInv, x

(* ... its key, ...                                                         *)
LEMMA WantedWritten ==
  ASSUME IInv, EInv, SInv, RInv, WriteKey
  PROVE  /\ Words' = Words /\ ctrl.first_free \in Slots /\ ctrl'.first_free = ctrl.first_free + 1
         /\ ctrl'.next_idx = ctrl.next_idx
         /\ InUse[ctrl.first_free].k = "free"
         /\ \A n \in Slots : (InUse[n].k = "free") <=> (n >= ctrl.first_free)
         /\ call.op = "write" /\ call.key \in Keys
         /\ Meant(Words, InUse'[ctrl.first_free]) = Wanted
         /\ Sound(Words, ctrl.next_idx, InUse'[ctrl.first_free])
         /\ InUse'[ctrl.first_free].k = call.key
         /\ \A n \in Slots : n # ctrl.first_free => InUse'[n] = InUse[n]
  <1> USE DEF Selecting, Formatting, InitLabels, Starting, SwitchLabels, Early, Late
  <1> DEFINE x == ctrl.first_free
             e == [k |-> call.key, t |-> call.type, v |-> EncodedValue]
  <1>1. /\ pc = "w_key" /\ str' = str
        /\ main' = [main EXCEPT ![ctrl.sector].slot[x] = ProgramKey(@, call.key, call.type)]
    BY DEF WriteKey
  <1>2. main \in MainType /\ ctrl.sector \in Sectors /\ InUse \in Tables /\ ctrl \in CtrlType
    BY Typed
  <1>3. /\ ctrl'.sector = ctrl.sector /\ ctrl'.str_sector = ctrl.str_sector
        /\ ctrl'.first_free = ctrl.first_free + 1 /\ ctrl'.next_idx = ctrl.next_idx
    BY <1>2 DEF WriteKey, CtrlType
  <1>4. /\ x \in Slots /\ InUse[x].k = "free" /\ InUse[x].v = EncodedValue
        /\ \A n \in Slots : (InUse[n].k = "free") <=> (n >= x)
    BY <1>1, NextFree DEF RInv, MeantInv
  <1>5. /\ call.op = "write" /\ call.key \in Keys
        /\ call.type \in KeyTypes[call.key] /\ (call.type = "str" => call.val \in Strs)
    <2>1. call.op = "write" /\ call.key \in Keys
      BY <1>1 DEF EInv, ModeInv, Appending, IInv, CallInv
    <2> QED BY <2>1 DEF RInv, SoundInv
  <1>6. Words' = Words
    BY <1>1, <1>3 DEF Words
  <1>7. InUse'[x] = e /\ \A n \in Slots : n # x => InUse'[n] = InUse[n]
    <2>1. /\ InUse'[x] = ProgramKey(InUse[x], call.key, call.type)
          /\ \A n \in Slots : n # x => InUse'[n] = InUse[n]
      BY <1>1, <1>2, <1>3, <1>4 DEF InUse, MainType
    <2>2. InUse[x] \in Entries
      BY <1>2, <1>4 DEF Tables
    <2>3. ProgramKey(InUse[x], call.key, call.type) = e
      BY <1>4, <2>2 DEF ProgramKey, Entries
    <2> QED BY <2>1, <2>3
  <1>8. call.type = "str" =>
          /\ EncodedValue = ctrl.next_idx - 1 /\ ctrl.next_idx > 0 /\ ctrl.next_idx \in Nat
          /\ Words[TextAt(ctrl.next_idx - 1)] = call.val
    BY <1>1, TextBound DEF RInv, MeantInv, EncodedValue
  <1>9. call.type # "str" => EncodedValue = call.val
    BY DEF EncodedValue
  <1>10. Meant(Words, e) = Wanted
    <2>1. CASE call.type = "str"
      BY <1>8, <2>1 DEF Meant, Wanted
    <2>2. CASE call.type # "str"
      BY <1>9, <2>2 DEF Meant, Wanted
    <2> QED BY <2>1, <2>2
  <1>11. Sound(Words, ctrl.next_idx, e)
    <2>1. CASE call.type = "str"
      <3>1. EncodedValue \in 0 .. ctrl.next_idx - 1 /\ Words[TextAt(EncodedValue)] \in Strs
        BY <1>5, <1>8, <2>1
      <3> HIDE DEF EncodedValue
      <3> QED BY <1>5, <3>1 DEF Sound
    <2>2. CASE call.type # "str"
      BY <1>5, <2>2 DEF Sound
    <2> QED BY <2>1, <2>2
  <1> QED BY <1>3, <1>4, <1>5, <1>6, <1>7, <1>10, <1>11

LEMMA ReadableKey ==
  ASSUME IInv, EInv, SInv, RInv, WriteKey
  PROVE  RInv'
  <1> USE DEF Selecting, Formatting, InitLabels, Starting, SwitchLabels, Early, Late
  <1> DEFINE x == ctrl.first_free
  <1>1. /\ pc = "w_key"
        /\ \/ pc' = "idle" /\ call'.op = "none"
           \/ pc' = "w_del" /\ call' = call /\ old' = old /\ old # 0
    BY DEF WriteKey, Return, Goto, NoCall, locals
  <1>2. \A n \in Slots : Sound(Words', ctrl'.next_idx, InUse'[n])
    <2> SUFFICES ASSUME NEW n \in Slots PROVE Sound(Words', ctrl'.next_idx, InUse'[n])
      OBVIOUS
    <2>1. CASE n = x
      BY <2>1, WantedWritten
    <2>2. CASE n # x
      BY <2>2, WantedWritten DEF RInv, SoundInv
    <2> QED BY <2>1, <2>2
  <1>3. SoundInv'
    BY <1>1, <1>2 DEF RInv, SoundInv, Recovering
  <1>4. MeantInv'
    <2>1. CASE pc' = "idle"
      BY <2>1, MeantQuiet
    <2>2. CASE pc' = "w_del" /\ call' = call /\ old' = old /\ old # 0
      <3>1. ctrl'.first_free - 1 = x
        BY WantedWritten DEF Slots
      <3>2. x \in Slots /\ Meant(Words', InUse'[x]) = Wanted'
        BY <2>2, WantedWritten DEF Wanted
      <3>3. old < x
        <4>1. old \in Slots
          BY <2>2, Typed DEF Slots
        <4>2. InUse[old].k = call.key
          BY <1>1, <4>1, WantedWritten DEF EInv, OldInv, Appending
        <4>3. InUse[old].k # "free"
          BY <4>2, WantedWritten, KeyKinds
        <4> QED BY <4>1, <4>3, WantedWritten DEF Slots
      <3> QED BY <2>2, <3>1, <3>2, <3>3 DEF MeantInv
    <2> QED BY <1>1, <2>1, <2>2
  <1> QED BY <1>3, <1>4 DEF RInv

(* ... and the deletion of the one it replaces, or of any other.            *)
LEMMA ReadableDeleted ==
  ASSUME IInv, EInv, SInv, RInv, WriteDeleteOld \/ kved_internal_data_delete
  PROVE  /\ RInv' /\ Words' = Words
         /\ InUse' = InUse \/ \E x \in Slots :
              /\ x = IF pc = "w_del" THEN old ELSE Found
              /\ InUse'[x].k \notin Keys /\ \A n \in Slots : n # x => InUse'[n] = InUse[n]
  <1> USE DEF Selecting, Formatting, InitLabels, Starting, SwitchLabels, Early, Late
  <1> DEFINE x == IF pc = "w_del" THEN old ELSE Found
  <1>1. /\ pc \in {"w_del", "delete"} /\ pc' = "idle" /\ call'.op = "none" /\ str' = str
    BY DEF WriteDeleteOld, kved_internal_data_delete, Return, NoCall
  <1>2. main \in MainType /\ ctrl.sector \in Sectors /\ InUse \in Tables /\ ctrl \in CtrlType
    BY Typed
  <1>3. /\ ctrl'.sector = ctrl.sector /\ ctrl'.str_sector = ctrl.str_sector
        /\ ctrl'.next_idx = ctrl.next_idx
        /\ main' = main \/ (main' = DeleteSlot(main, ctrl.sector, x) /\ x # 0)
    <2>1. CASE WriteDeleteOld
      BY <1>2, <2>1 DEF WriteDeleteOld, CtrlType, EInv, OldInv
    <2>2. CASE kved_internal_data_delete
      <3>1. pc = "delete"
        BY <2>2 DEF kved_internal_data_delete
      <3> QED BY <1>2, <2>2, <3>1 DEF kved_internal_data_delete, CtrlType
    <2> QED BY <2>1, <2>2
  <1>4. x \in 0 .. NumEntries
    BY Typed, FindType DEF Found
  <1> HIDE DEF x
  <1>5. Words' = Words
    BY <1>1, <1>3 DEF Words
  <1>6. \/ InUse' = InUse
        \/ x \in Slots /\ InUse'[x].k \notin Keys /\ \A n \in Slots : n # x => InUse'[n] = InUse[n]
    <2>1. CASE main' = main
      BY <1>3, <2>1 DEF InUse
    <2>2. CASE main' = DeleteSlot(main, ctrl.sector, x) /\ x # 0
      <3>1. x \in Slots
        BY <1>4, <2>2 DEF Slots
      <3>2. InUse'[x].k = "deleted" /\ \A n \in Slots : n # x => InUse'[n] = InUse[n]
        BY <1>2, <1>3, <2>2, <3>1 DEF DeleteSlot, InUse, MainType, Entries
      <3> QED BY <3>1, <3>2, KeyKinds
    <2> QED BY <1>3, <2>1, <2>2
  <1>7. \A n \in Slots : Sound(Words', ctrl'.next_idx, InUse'[n])
    <2> SUFFICES ASSUME NEW n \in Slots PROVE Sound(Words', ctrl'.next_idx, InUse'[n])
      OBVIOUS
    <2>1. InUse'[n] = InUse[n] \/ InUse'[n].k \notin Keys
      BY <1>6
    <2>2. Sound(Words, ctrl.next_idx, InUse[n])
      BY DEF RInv, SoundInv
    <2>3. CASE InUse'[n] = InUse[n]
      BY <1>3, <1>5, <2>2, <2>3
    <2>4. CASE InUse'[n].k \notin Keys
      BY <2>4, SoundOther
    <2> QED BY <2>1, <2>3, <2>4
  <1>8. SoundInv'
    BY <1>1, <1>7 DEF SoundInv, Recovering
  <1>9. MeantInv'
    BY <1>1, MeantQuiet
  <1> QED BY <1>5, <1>6, <1>8, <1>9 DEF RInv, x

(* A sector switch: erasing, ...                                            *)
LEMMA ReadableErased ==
  ASSUME IInv, EInv, SInv, RInv, SwitchErase
  PROVE  RInv' /\ InUse' = InUse /\ Words' = Words
  <1> USE DEF Starting, InitLabels, SwitchLabels, Early, Late, Goto
  <1>1. /\ pc \in {"sw_erase", "sw_strerase"} /\ pc' \in {"sw_strerase", "sw_copy"}
        /\ ctrl' = ctrl /\ call' = call /\ nxt' = 1 /\ i' = 1
    BY DEF SwitchErase
  <1>2. InUse' = InUse
    BY <1>1, Typed DEF SwitchErase, InUse, MainType
  <1>3. Words' = Words
    BY <1>1, Texts DEF SwitchErase, Words, StrType
  <1>4. \A n \in Slots : ~(n < 1)
    BY DEF Slots
  <1>5. SoundInv'
    BY <1>1, <1>2, <1>3, <1>4 DEF RInv, SoundInv, Recovering
  <1>6. MeantInv'
    BY <1>1, <1>4 DEF MeantInv
  <1> QED BY <1>2, <1>3, <1>5, <1>6 DEF RInv

(* ... copying ...                                                          *)
LEMMA CopyOfMeant ==
  ASSUME NEW words, NEW e
  PROVE  /\ CopyOf(call, Meant(words, e)).k = e.k
         /\ CopyOf(call, Meant(words, e)).t = e.t
         /\ CopyOf(call, Meant(words, e))
              = [k |-> e.k, t |-> e.t,
                 v |-> IF call.op = "write" /\ e.k = call.key THEN call.val ELSE Meant(words, e).v]
  BY DEF CopyOf, Meant

(* What is copied is what the original means, or the new value.             *)
LEMMA CopiedValue ==
  ASSUME OneType, IInv, EInv, SInv, RInv, NEW n \in Slots, InUse[n].k \in Keys
  PROVE  LET c == CopyOf(call, Meant(Words, InUse[n]))
         IN  /\ InUse[n].t = "str" => c.v \in Strs /\ CopiedTexts(InUse[n]) = {c.v}
             /\ InUse[n].t # "str" => CopiedNumber(InUse[n]) = c.v
  <1> DEFINE e == InUse[n]
             c == CopyOf(call, Meant(Words, e))
             m == Meant(Words, e)
  <1>1. e.t \in {"num", "str"} /\ e.t \in KeyTypes[e.k]
    BY Readable DEF RInv, SoundInv, Sound
  <1>2. c.v = IF call.op = "write" /\ e.k = call.key THEN call.val ELSE m.v
    BY CopyOfMeant
  <1>3. CASE call.op = "write" /\ e.k = call.key
    <2>1. call.type = e.t /\ (call.type = "str" => call.val \in Strs)
      BY <1>1, <1>3 DEF OneType, RInv, SoundInv
    <2>2. CopiedTexts(e) = IF call.type = "str" THEN {call.val} ELSE {GARBLED}
      BY <1>3 DEF CopiedTexts
    <2>3. CopiedNumber(e) = IF call.type = "num" THEN call.val ELSE GARBLED
      BY <1>3 DEF CopiedNumber
    <2> HIDE DEF e, c, m
    <2>4. /\ e.t = "str" => c.v \in Strs /\ CopiedTexts(e) = {c.v}
          /\ e.t # "str" => CopiedNumber(e) = c.v
      BY <1>1, <1>2, <1>3, <2>1, <2>2, <2>3
    <2> QED BY <2>4 DEF e, c
  <1>4. CASE ~(call.op = "write" /\ e.k = call.key)
    <2>1. c.v = m.v
      BY <1>2, <1>4
    <2>2. CopiedTexts(e) = kved_value_string_decode(Words, e.v)
      BY <1>4 DEF CopiedTexts, Words
    <2>3. CopiedNumber(e) = e.v
      BY <1>4 DEF CopiedNumber
    <2>4. e.t = "str" => kved_value_string_decode(Words, e.v) = {m.v}
      BY Readable DEF RInv
    <2>5. e.t # "str" => m.v = e.v
      BY Readable DEF RInv
    <2>6. e.t = "str" => m.v \in Strs
      BY DEF Meant, RInv, SoundInv, Sound
    <2> HIDE DEF e, c, m
    <2>7. /\ e.t = "str" => c.v \in Strs /\ CopiedTexts(e) = {c.v}
          /\ e.t # "str" => CopiedNumber(e) = c.v
      BY <2>1, <2>2, <2>3, <2>4, <2>5, <2>6
    <2> QED BY <2>7 DEF e, c
  <1> QED BY <1>3, <1>4

(* One more entry of the copy.                                              *)
LEMMA CopyGrows ==
  ASSUME IInv, EInv, SInv, RInv, IInv', pc = "sw_copy", pc' = pc, ctrl' = ctrl, call' = call, old' = old,
         i \in Slots, i' = i + 1, nxt' = nxt + 1, sidx' \in Nat, sidx <= sidx',
         InUse' = InUse, Words' = Words, InUse[i].k \in Keys,
         \A n \in Slots : n # nxt => Spare'[n] = Spare[n],
         SameTexts(SpareWords, SpareWords', sidx),
         Sound(SpareWords', sidx', Spare'[nxt]),
         Meant(SpareWords', Spare'[nxt]) = CopyOf(call, Meant(Words, InUse[i]))
  PROVE  RInv'
  <1> USE DEF Starting, InitLabels, SwitchLabels, Early, Late
  <1>1. nxt \in 1 .. i /\ nxt \in Nat /\ nxt \in Slots /\ sidx \in Nat
    BY Texts DEF EInv, CopyInv, Slots
  <1>2. /\ \A n \in Slots : n < nxt =>
             /\ Sound(SpareWords, sidx, Spare[n]) /\ Spare[n].k \in Keys
             /\ \E j \in Slots : /\ j < i /\ InUse[j].k \in Keys
                                 /\ Meant(SpareWords, Spare[n]) = CopyOf(call, Meant(Words, InUse[j]))
        /\ \A j \in Slots : j < i /\ InUse[j].k \in Keys =>
             \E n \in Slots : n < nxt /\ Meant(SpareWords, Spare[n]) = CopyOf(call, Meant(Words, InUse[j]))
    BY DEF RInv, SoundInv, MeantInv, EInv, CopyInv
  <1>3. \A n \in Slots : (n < nxt + 1) <=> (n = nxt \/ n < nxt)
    BY <1>1 DEF Slots
  <1>4. \A j \in Slots : (j < i + 1) <=> (j = i \/ j < i)
    BY DEF Slots
  <1>5. ASSUME NEW n \in Slots, n < nxt
        PROVE  /\ Spare'[n] = Spare[n] /\ Meant(SpareWords', Spare'[n]) = Meant(SpareWords, Spare[n])
               /\ Sound(SpareWords', sidx', Spare'[n])
    <2>1. Spare'[n] = Spare[n]
      BY <1>1, <1>5 DEF Slots
    <2>2. Meant(SpareWords', Spare[n]) = Meant(SpareWords, Spare[n])
      BY <1>2, <1>5, MeantSame
    <2>3. Sound(SpareWords', sidx, Spare[n])
      BY <1>2, <1>5, SoundSame
    <2>4. Sound(SpareWords', sidx', Spare[n])
      BY <1>1, <2>3, SoundMore
    <2> QED BY <2>1, <2>2, <2>4
  <1>6. \A n \in Slots : n < nxt + 1 => Sound(SpareWords', sidx', Spare'[n])
    BY <1>3, <1>5
  <1>7. \A n \in Slots : n < nxt + 1 =>
          \E j \in Slots : /\ j < i + 1 /\ InUse[j].k \in Keys
                           /\ Meant(SpareWords', Spare'[n]) = CopyOf(call, Meant(Words, InUse[j]))
    <2> SUFFICES ASSUME NEW n \in Slots, n < nxt + 1
                 PROVE  \E j \in Slots : /\ j < i + 1 /\ InUse[j].k \in Keys
                           /\ Meant(SpareWords', Spare'[n]) = CopyOf(call, Meant(Words, InUse[j]))
      OBVIOUS
    <2>1. CASE n = nxt
      BY <1>4, <2>1
    <2>2. CASE n # nxt
      <3>1. n < nxt
        BY <1>3, <2>2
      <3>2. PICK j \in Slots : /\ j < i /\ InUse[j].k \in Keys
                               /\ Meant(SpareWords, Spare[n]) = CopyOf(call, Meant(Words, InUse[j]))
        BY <1>2, <3>1
      <3> QED BY <1>4, <1>5, <3>1, <3>2
    <2> QED BY <2>1, <2>2
  <1>8. \A j \in Slots : j < i + 1 /\ InUse[j].k \in Keys =>
          \E n \in Slots : /\ n < nxt + 1
                           /\ Meant(SpareWords', Spare'[n]) = CopyOf(call, Meant(Words, InUse[j]))
    <2> SUFFICES ASSUME NEW j \in Slots, j < i + 1, InUse[j].k \in Keys
                 PROVE  \E n \in Slots : /\ n < nxt + 1
                           /\ Meant(SpareWords', Spare'[n]) = CopyOf(call, Meant(Words, InUse[j]))
      OBVIOUS
    <2>1. CASE j = i
      BY <1>1, <1>3, <2>1
    <2>2. CASE j # i
      <3>1. PICK n \in Slots : n < nxt /\ Meant(SpareWords, Spare[n]) = CopyOf(call, Meant(Words, InUse[j]))
        BY <1>2, <1>4, <2>2
      <3> QED BY <1>3, <1>5, <3>1
    <2> QED BY <2>1, <2>2
  <1>9. SoundInv'
    BY <1>6 DEF RInv, SoundInv, Recovering
  <1>10. MeantInv'
    BY <1>7, <1>8 DEF MeantInv
  <1> QED BY <1>9, <1>10 DEF RInv

(* An entry that is not one of the client's is passed over.                 *)
LEMMA CopyPasses ==
  ASSUME IInv, EInv, SInv, RInv, pc = "sw_copy", pc' = pc, ctrl' = ctrl, call' = call,
         i \in Slots, i' = i + 1, nxt' = nxt, sidx' = sidx, main' = main, str' = str,
         InUse[i].k \notin Keys
  PROVE  RInv' /\ InUse' = InUse /\ Words' = Words
  <1> USE DEF Starting, InitLabels, SwitchLabels, Early, Late
  <1>1. InUse' = InUse /\ Words' = Words /\ Spare' = Spare /\ SpareWords' = SpareWords
    BY DEF InUse, Words, Spare, SpareWords
  <1>2. \A j \in Slots : (j < i + 1) <=> (j = i \/ j < i)
    BY DEF Slots
  <1>3. SoundInv'
    BY <1>1 DEF RInv, SoundInv, Recovering
  <1>4. \A n \in Slots : n < nxt =>
          \E j \in Slots : /\ j < i + 1 /\ InUse[j].k \in Keys
                           /\ Meant(SpareWords, Spare[n]) = CopyOf(call, Meant(Words, InUse[j]))
    BY <1>2 DEF RInv, MeantInv
  <1>5. \A j \in Slots : j < i + 1 /\ InUse[j].k \in Keys =>
          \E n \in Slots : /\ n < nxt
                           /\ Meant(SpareWords, Spare[n]) = CopyOf(call, Meant(Words, InUse[j]))
    BY <1>2 DEF RInv, MeantInv
  <1>6. MeantInv'
    BY <1>1, <1>4, <1>5 DEF MeantInv
  <1> QED BY <1>1, <1>3, <1>6 DEF RInv

LEMMA ReadableCopied ==
  ASSUME OneType, IInv, EInv, SInv, RInv, IInv', SwitchCopy
  PROVE  RInv' /\ InUse' = InUse /\ Words' = Words
  <1> DEFINE q == Other(ctrl.str_sector)
             e == InUse[i]
             c == CopyOf(call, Meant(Words, e))
  <1>1. /\ pc = "sw_copy" /\ pc' = pc /\ ctrl' = ctrl /\ call' = call /\ old' = old
        /\ i \in Slots /\ i' = i + 1
    BY DEF SwitchCopy
  <1>2. /\ main \in MainType /\ ctrl.sector \in Sectors /\ Other(ctrl.sector) \in Sectors
        /\ Other(ctrl.sector) # ctrl.sector /\ InUse \in Tables /\ Spare \in Tables
        /\ nxt \in Slots /\ sidx \in Nat /\ sidx \in Headers
    BY <1>1, Typed, Texts, StringsCopied DEF EInv, CopyInv, Slots
  <1>3. (kved_is_valid_key(e.k)) <=> (e.k \in Keys)
    BY <1>1, <1>2, KeyKinds DEF Tables, Entries
  <1>4. CASE e.k \notin Keys
    <2>1. main' = main /\ str' = str /\ nxt' = nxt /\ sidx' = sidx
      BY <1>1, <1>3, <1>4 DEF SwitchCopy, InUse, flash
    <2> QED BY <1>1, <1>4, <2>1, CopyPasses
  <1>5. ASSUME e.k \in Keys, NEW x, main' = [main EXCEPT ![Other(ctrl.sector)].slot[nxt] = x]
        PROVE  /\ InUse' = InUse /\ Spare'[nxt] = x
               /\ \A n \in Slots : n # nxt => Spare'[n] = Spare[n]
    <2>1. InUse' = InUse /\ Spare' = [Spare EXCEPT ![nxt] = x]
      BY <1>1, <1>2, <1>5 DEF InUse, Spare, MainType
    <2> QED BY <1>2, <2>1 DEF Tables
  <1>6. e.k \in Keys => e.t \in KeyTypes[e.k] /\ e.t \in {"num", "str"}
    BY <1>1, Readable DEF RInv, SoundInv, Sound
  <1>7. CASE e.k \in Keys /\ e.t # "str"
    <2> DEFINE x == [k |-> e.k, t |-> e.t, v |-> CopiedNumber(e)]
    <2>1. /\ main' = [main EXCEPT ![Other(ctrl.sector)].slot[nxt] = x]
          /\ nxt' = nxt + 1 /\ str' = str /\ sidx' = sidx
      BY <1>1, <1>3, <1>7 DEF SwitchCopy, InUse
    <2>2. CopiedNumber(e) = c.v
      BY <1>1, <1>7, CopiedValue
    <2>3. x.k = e.k /\ x.t = e.t /\ x.v = c.v
      BY <2>2
    <2>4. c = [k |-> e.k, t |-> e.t, v |-> c.v]
      BY CopyOfMeant
    <2> HIDE DEF x, c
    <2>5. Meant(SpareWords', x) = c
      BY <1>7, <2>3, <2>4 DEF Meant
    <2>6. Sound(SpareWords', sidx, x)
      BY <1>6, <1>7, <2>3 DEF Sound
    <2>7. Words' = Words /\ SpareWords' = SpareWords
      BY <1>1, <2>1 DEF Words, SpareWords
    <2>8. SameTexts(SpareWords, SpareWords', sidx)
      BY <2>7, SameWords
    <2>9. /\ InUse' = InUse /\ Spare'[nxt] = x
          /\ \A n \in Slots : n # nxt => Spare'[n] = Spare[n]
      BY <1>5, <1>7, <2>1
    <2>10. sidx <= sidx
      BY <1>2
    <2>11. RInv'
      BY <1>1, <1>2, <1>7, <2>1, <2>5, <2>6, <2>7, <2>8, <2>9, <2>10, CopyGrows DEF c
    <2> QED BY <2>7, <2>9, <2>11
  <1>8. CASE e.k \in Keys /\ e.t = "str"
    <2> DEFINE x == [k |-> e.k, t |-> e.t, v |-> sidx]
               o == sidx * (SectorLen + 1)
    <2>1. /\ main' = [main EXCEPT ![Other(ctrl.sector)].slot[nxt] = x]
          /\ nxt' = nxt + 1 /\ sidx' = sidx + 1
      BY <1>1, <1>3, <1>8 DEF SwitchCopy, InUse, CopiedIndex
    <2>2. PICK text \in CopiedTexts(e) :
            str' = [str EXCEPT ![q] = Program(Program(@, kved_string_entry_to_start_sector(o), text),
                                              kved_string_entry_to_header(sidx), Ptr(o))]
      BY <1>1, <1>3, <1>8 DEF SwitchCopy, InUse
    <2>3. str' = [str EXCEPT ![q] = TextAdded(@, sidx, text)]
      BY <2>2 DEF TextAdded, TextAt, HeaderAt
    <2>4. SpareWords' = TextAdded(SpareWords, sidx, text) /\ Words' = Words
      BY <1>1, <2>3, Texts DEF StrType, SpareWords, Words
    <2>5. c.v \in Strs /\ text = c.v
      <3>1. c.v \in Strs /\ CopiedTexts(e) = {c.v}
        BY <1>1, <1>8, CopiedValue
      <3> HIDE DEF c
      <3> QED BY <2>2, <3>1
    <2>6. c = [k |-> e.k, t |-> e.t, v |-> c.v]
      BY CopyOfMeant
    <2>7. x.k = e.k /\ x.t = e.t /\ x.v = sidx
      OBVIOUS
    <2> HIDE DEF x, c, q
    <2>8. /\ SpareWords'[TextAt(sidx)] = text
          /\ \A g \in Headers : g # sidx => SpareWords'[TextAt(g)] = SpareWords[TextAt(g)]
      <3>1. SpareWords \in [StrWords -> Strs \cup Int] /\ Filled(SpareWords, sidx, sidx)
        BY <1>1, Texts DEF SpareWords, SInv, PlaceInv
      <3> QED BY <1>2, <2>4, <2>5, <3>1, TextAddedTo
    <2>9. Meant(SpareWords', x) = c
      BY <1>8, <2>5, <2>6, <2>7, <2>8 DEF Meant
    <2>10. Sound(SpareWords', sidx + 1, x)
      <3>1. sidx \in 0 .. (sidx + 1) - 1
        BY <1>2
      <3> QED BY <1>6, <1>8, <2>5, <2>7, <2>8, <3>1 DEF Sound
    <2>11. SameTexts(SpareWords, SpareWords', sidx)
      <3>1. \A g \in 0 .. sidx - 1 : g \in Headers /\ g # sidx
        BY <1>2 DEF Headers
      <3> QED BY <2>8, <3>1 DEF SameTexts
    <2>12. /\ InUse' = InUse /\ Spare'[nxt] = x
           /\ \A n \in Slots : n # nxt => Spare'[n] = Spare[n]
      BY <1>5, <1>8, <2>1
    <2>13. sidx <= sidx + 1 /\ sidx + 1 \in Nat
      BY <1>2
    <2>14. RInv'
      BY <1>1, <1>2, <1>8, <2>1, <2>4, <2>9, <2>10, <2>11, <2>12, <2>13, CopyGrows DEF c
    <2> QED BY <2>4, <2>12, <2>14
  <1> QED BY <1>4, <1>7, <1>8

(* ... adopting the copy, which says what the original says but for the key *)
(* that is being written, ...                                               *)
CopiedFrom(words, other, f, g) ==
  /\ \A n \in Slots : f[n].k \in Keys =>
       \E j \in Slots : g[j].k \in Keys /\ Meant(words, f[n]) = CopyOf(call, Meant(other, g[j]))
  /\ \A j \in Slots : g[j].k \in Keys =>
       \E n \in Slots : Meant(words, f[n]) = CopyOf(call, Meant(other, g[j]))

LEMMA ReadableAdopted ==
  ASSUME OneType, IInv, EInv, SInv, RInv, SwitchAdopt
  PROVE  /\ RInv' /\ InUse' = Spare /\ Words' = SpareWords
         /\ CopiedFrom(SpareWords, Words, Spare, InUse)
  <1> USE DEF Starting, InitLabels, SwitchLabels, Early, Late
  <1>1. /\ main \in MainType /\ ctrl.sector \in Sectors /\ Other(ctrl.sector) \in Sectors
        /\ InUse \in Tables /\ nxt \in Nat
    BY Typed
  <1>2. /\ pc = "sw_copy" /\ pc' = "sw_sig" /\ call' = call /\ old' = old /\ str' = str
        /\ i = NumEntries + 1
        /\ ctrl'.sector = Other(ctrl.sector) /\ ctrl'.str_sector = Other(ctrl.str_sector)
        /\ ctrl'.next_idx = sidx
    BY Typed DEF SwitchAdopt, locals, Slots, Goto
  <1>3. InUse' = Spare /\ Words' = SpareWords
    <2>1. \A s \in Sectors : main'[s].slot = main[s].slot
      BY <1>1 DEF SwitchAdopt, MainType
    <2> QED BY <1>1, <1>2, <2>1 DEF InUse, Spare, Words, SpareWords
  <1>4. \A n \in Slots : n >= nxt => Spare[n].k \notin Keys
    <2>1. \A n \in Slots : n >= nxt => Spare[n] = FreeSlot
      BY <1>2 DEF EInv, CopyInv
    <2> QED BY <2>1, KeyKinds DEF FreeSlot
  <1>5. CopiedFrom(SpareWords, Words, Spare, InUse)
    <2>1. \A j \in Slots : j < i
      BY <1>2 DEF Slots
    <2>2. \A n \in Slots : Spare[n].k \in Keys => n < nxt
      BY <1>1, <1>4 DEF Slots
    <2> QED BY <1>2, <2>1, <2>2 DEF RInv, MeantInv, CopiedFrom
  <1>6. \A n \in Slots : Sound(SpareWords, sidx, Spare[n])
    <2> SUFFICES ASSUME NEW n \in Slots PROVE Sound(SpareWords, sidx, Spare[n])
      OBVIOUS
    <2>1. CASE n < nxt
      BY <1>2, <2>1 DEF RInv, SoundInv
    <2>2. CASE ~(n < nxt)
      <3>1. n >= nxt
        BY <1>1, <2>2 DEF Slots
      <3> QED BY <1>4, <3>1, SoundOther
    <2> QED BY <2>1, <2>2
  <1>7. SoundInv'
    BY <1>2, <1>3, <1>6 DEF RInv, SoundInv, Recovering
  <1>8. Renewed => \E n \in Slots : Meant(SpareWords, Spare[n]) = Wanted
    <2> SUFFICES ASSUME Renewed PROVE \E n \in Slots : Meant(SpareWords, Spare[n]) = Wanted
      OBVIOUS
    <2>1. call.op = "write" /\ old \in Slots /\ call.key \in Keys
      BY <1>2, Typed DEF Renewed, Slots, IInv, CallInv
    <2>2. InUse[old].k = call.key
      BY <1>2, <2>1 DEF EInv, OldInv
    <2>3. InUse[old].t = call.type
      <3>1. InUse[old].t \in KeyTypes[call.key] /\ call.type \in KeyTypes[call.key]
        BY <2>1, <2>2 DEF RInv, SoundInv, Sound
      <3> QED BY <2>1, <3>1 DEF OneType
    <2>4. CopyOf(call, Meant(Words, InUse[old])) = Wanted
      BY <2>1, <2>2, <2>3, CopyOfMeant DEF Wanted
    <2> QED BY <1>5, <2>1, <2>2, <2>4 DEF CopiedFrom
  <1>9. MeantInv'
    <2>1. Renewed' <=> Renewed
      BY <1>2 DEF Renewed
    <2>2. Wanted' = Wanted
      BY <1>2 DEF Wanted
    <2> QED BY <1>2, <1>3, <1>8, <2>1, <2>2 DEF MeantInv
  <1> QED BY <1>3, <1>5, <1>7, <1>9 DEF RInv

(* ... and the signatures.                                                  *)
LEMMA ReadableSigned ==
  ASSUME IInv, EInv, SInv, RInv, SwitchSign \/ SwitchSignString \/ SwitchInvalidate
  PROVE  RInv' /\ InUse' = InUse /\ SameTexts(Words, Words', ctrl.next_idx)
  <1> USE DEF Starting, InitLabels, SwitchLabels, Early, Late, Goto
  <1> DEFINE s == ctrl.str_sector
  <1>1. /\ pc \in {"sw_sig", "sw_strsig", "sw_strend", "sw_inval"} /\ ctrl' = ctrl
        /\ pc' \in {"sw_strsig", "sw_strend", "sw_inval", "check"}
        /\ call' = call /\ old' = old
    BY DEF SwitchSign, SwitchSignString, SwitchInvalidate, locals
  <1>2. InUse' = InUse
    <2>1. \A q \in Sectors : main'[q].slot = main[q].slot
      BY Typed DEF SwitchSign, SwitchSignString, SwitchInvalidate, Sign, Unsign, MainType
    <2> QED BY <1>1, <2>1, Typed DEF InUse
  <1>3. SameTexts(Words, Words', ctrl.next_idx)
    <2>1. CASE str' = str
      <3>1. Words' = Words
        BY <1>1, <2>1 DEF Words
      <3> QED BY <3>1, SameWords
    <2>2. ASSUME NEW w \in {0, NumEntries + 1}, NEW x, str' = [str EXCEPT ![s] = Program(@, w, x)]
          PROVE  SameTexts(Words, Words', ctrl.next_idx)
      <3>1. Words' = Program(Words, w, x) /\ Words \in [StrWords -> Strs \cup Int]
        BY <1>1, <2>2, Texts DEF StrType, Words
      <3>2. w \in StrWords
        BY TextErased
      <3>3. \A z \in StrWords : z # w => Words'[z] = Words[z]
        BY <3>1, <3>2, Programmed
      <3>4. \A h \in Headers : TextAt(h) \in StrWords /\ TextAt(h) # w
        BY Places DEF StrWords
      <3>5. \A h \in 0 .. ctrl.next_idx - 1 : h \in Headers
        BY TextBound DEF Headers
      <3> QED BY <3>3, <3>4, <3>5 DEF SameTexts
    <2>3. CASE SwitchSign \/ SwitchInvalidate
      BY <2>1, <2>3 DEF SwitchSign, SwitchInvalidate
    <2>4. CASE SwitchSignString /\ pc = "sw_strsig"
      BY <2>2, <2>4 DEF SwitchSignString
    <2>5. CASE SwitchSignString /\ pc # "sw_strsig"
      BY <2>2, <2>5 DEF SwitchSignString
    <2> QED BY <2>3, <2>4, <2>5
  <1>4. SoundInv'
    <2>1. call'.op # "init"
      BY <1>1 DEF EInv, ModeInv
    <2> QED BY <1>1, <1>2, <1>3, <2>1, SoundQuiet, TextBound DEF RInv
  <1>5. Renewed => \E n \in Slots : Meant(Words', InUse[n]) = Wanted
    <2> SUFFICES ASSUME Renewed PROVE \E n \in Slots : Meant(Words', InUse[n]) = Wanted
      OBVIOUS
    <2>1. PICK n \in Slots : Meant(Words, InUse[n]) = Wanted
      BY <1>1 DEF RInv, MeantInv
    <2>2. InUse[n].k \in Keys
      <3>1. InUse[n].k = call.key
        BY <2>1 DEF Meant, Wanted
      <3> QED BY <1>1, <3>1 DEF Renewed, IInv, CallInv
    <2>3. Sound(Words, ctrl.next_idx, InUse[n])
      BY DEF RInv, SoundInv
    <2> QED BY <1>3, <2>1, <2>2, <2>3, MeantSame
  <1>6. MeantInv'
    <2>1. Renewed' <=> Renewed
      BY <1>1 DEF Renewed
    <2>2. Wanted' = Wanted
      BY <1>1 DEF Wanted
    <2> QED BY <1>1, <1>2, <1>5, <2>1, <2>2 DEF MeantInv
  <1> QED BY <1>2, <1>3, <1>4, <1>6 DEF RInv

LEMMA ReadableStep ==
  ASSUME OneSession, OneType, IInv, EInv, SInv, RInv, IInv', [Next]_vars
  PROVE  RInv'
  <1>1. CASE UNCHANGED vars
    <2>1. InUse' = InUse /\ Spare' = Spare /\ Words' = Words /\ SpareWords' = SpareWords
      BY <1>1 DEF vars, InUse, Spare, Words, SpareWords
    <2>2. SoundInv' <=> SoundInv
      BY <1>1, <2>1 DEF vars, SoundInv, Recovering
    <2>3. EncodedValue' = EncodedValue /\ Wanted' = Wanted /\ (Renewed' <=> Renewed)
      BY <1>1 DEF vars, EncodedValue, Wanted, Renewed
    <2>4. MeantInv' <=> MeantInv
      BY <1>1, <2>1, <2>3 DEF vars, MeantInv
    <2> QED BY <2>2, <2>4 DEF RInv
  <1>2. CASE \/ kved_sector_consistency_check \/ InitIndexSector \/ InitFormatIndex
             \/ InitStringSector \/ InitFormatString
    BY <1>2, ReadableInit
  <1>3. CASE kved_string_consistency_check \/ ConsistencyCheckDone
    BY <1>3, ReadableChecked
  <1>4. ~kved_data_consistency_check
    BY NothingToRepair DEF RInv
  <1>5. CASE Client \/ WriteRejected \/ WriteUnchanged \/ kved_dump
    BY <1>5, ReadableCalls
  <1>6. CASE WriteFull \/ WriteSwitch \/ WriteAppend
    BY <1>6, ReadableWriting
  <1>7. CASE WriteStringIndex \/ WriteStringData
    BY <1>7, ReadableText
  <1>8. CASE WriteValue
    BY <1>8, ReadableValue
  <1>9. CASE WriteKey
    BY <1>9, ReadableKey
  <1>10. CASE WriteDeleteOld \/ kved_internal_data_delete
    BY <1>10, ReadableDeleted
  <1>11. CASE SwitchErase
    BY <1>11, ReadableErased
  <1>12. CASE SwitchCopy
    BY <1>12, ReadableCopied
  <1>13. CASE SwitchAdopt
    BY <1>13, ReadableAdopted
  <1>14. CASE SwitchSign \/ SwitchSignString \/ SwitchInvalidate
    BY <1>14, ReadableSigned
  <1>15. ~kved_deinit /\ ~PowerCut
    BY DEF OneSession, kved_deinit, PowerCut
  <1> QED BY <1>1, <1>2, <1>3, <1>4, <1>5, <1>6, <1>7, <1>8, <1>9, <1>10, <1>11, <1>12, <1>13,
             <1>14, <1>15 DEF Next, Step

(* The invariant of the texts: in one session, with one type for each key,  *)
(* every string entry leads to a text of the client, and the entries that a *)
(* write or a switch has made mean what the client wrote.                   *)
THEOREM ReadableInvariant ==
  ASSUME OneSession, OneType
  PROVE  Spec => []RInv
  <1>0. WholeEntries
    BY DEF OneSession, WholeEntries
  <1>1. Init => RInv
    BY InitRInv
  <1>2. IInv /\ IInv' /\ EInv /\ SInv /\ RInv /\ [Next]_vars => RInv'
    BY ReadableStep
  <1>3. Spec => []EInv
    BY <1>0, EntriesInvariant
  <1> QED BY <1>1, <1>2, <1>3, InductiveInvariant, StringsInvariant, PTL DEF Spec

-----------------------------------------------------------------------------
(* What a reader finds under a key: the meaning of the first entry.         *)
SeenOf(words, f, k) ==
  LET n == First({m \in Slots : f[m].k = k})
  IN  IF n = 0 THEN NoEntry ELSE [type |-> f[n].t, val |-> Meant(words, f[n]).v]
Seen(words, f) == [k \in Keys |-> SeenOf(words, f, k)]

LEMMA SeenNone ==
  ASSUME NEW words, NEW f, NEW k, \A n \in Slots : f[n].k # k
  PROVE  SeenOf(words, f, k) = NoEntry
  <1>1. {m \in Slots : f[m].k = k} = {}
    OBVIOUS
  <1> QED BY <1>1 DEF SeenOf, First

LEMMA SeenAt ==
  ASSUME NEW words, NEW f, NEW k, NEW n \in Slots, f[n].k = k, \A m \in Slots : m < n => f[m].k # k
  PROVE  SeenOf(words, f, k) = [type |-> f[n].t, val |-> Meant(words, f[n]).v]
  <1> DEFINE S == {m \in Slots : f[m].k = k}
  <1>1. First(S) \in S /\ \A m \in S : First(S) <= m
    <2>1. S \in SUBSET Slots /\ S # {}
      OBVIOUS
    <2> QED BY <2>1, FirstIsLeast
  <1>2. First(S) = n /\ n # 0
    BY <1>1 DEF Slots
  <1> HIDE DEF S
  <1>3. SeenOf(words, f, k) = IF First(S) = 0 THEN NoEntry
                              ELSE [type |-> f[First(S)].t, val |-> Meant(words, f[First(S)]).v]
    BY DEF SeenOf, S
  <1> QED BY <1>2, <1>3

LEMMA SeenUnique ==
  ASSUME NEW words, NEW f, Unique(f), NEW n \in Slots, f[n].k \in Keys
  PROVE  SeenOf(words, f, f[n].k) = [type |-> f[n].t, val |-> Meant(words, f[n]).v]
  <1>1. \A m \in Slots : m < n => f[m].k # f[n].k
    BY DEF Unique, Superseded, Slots
  <1> QED BY <1>1, SeenAt

(* Entries of other keys do not count, nor do those behind the first.       *)
Behind(f, g, k, x) ==
  /\ \A n \in Slots : n # x => g[n] = f[n]
  /\ x \in Slots /\ (f[x].k = k \/ g[x].k = k) => \E m \in Slots : m < x /\ f[m].k = k

LEMMA SeenSame ==
  ASSUME NEW words, NEW f, NEW g, NEW k, NEW x, Behind(f, g, k, x)
  PROVE  SeenOf(words, g, k) = SeenOf(words, f, k)
  <1> USE DEF Behind
  <1> DEFINE S == {m \in Slots : f[m].k = k}
  <1>1. CASE S = {}
    <2>1. \A n \in Slots : f[n].k # k
      BY <1>1
    <2>2. \A n \in Slots : g[n].k # k
      BY <2>1
    <2> QED BY <2>1, <2>2, SeenNone
  <1>2. CASE S # {}
    <2>1. PICK n \in S : \A m \in S : n <= m
      <3>1. S \in SUBSET Slots
        OBVIOUS
      <3> QED BY <1>2, <3>1, FirstIsLeast
    <2>2. n \in Slots /\ f[n].k = k /\ \A m \in Slots : m < n => f[m].k # k
      BY <2>1 DEF Slots
    <2>3. n # x
      BY <2>2
    <2>4. g[n] = f[n]
      BY <2>2, <2>3
    <2>5. \A m \in Slots : m < n => g[m].k # k
      <3> SUFFICES ASSUME NEW m \in Slots, m < n, g[m].k = k PROVE FALSE
        OBVIOUS
      <3>1. m = x
        BY <2>2
      <3>2. PICK d \in Slots : d < m /\ f[d].k = k
        BY <3>1
      <3>3. d < n
        BY <2>2, <3>2 DEF Slots
      <3> QED BY <2>2, <3>2, <3>3
    <2>6. SeenOf(words, f, k) = [type |-> f[n].t, val |-> Meant(words, f[n]).v]
      BY <2>2, SeenAt
    <2>7. SeenOf(words, g, k) = [type |-> g[n].t, val |-> Meant(words, g[n]).v]
      BY <2>2, <2>4, <2>5, SeenAt
    <2> QED BY <2>4, <2>6, <2>7
  <1> QED BY <1>1, <1>2

(* The same table over the same texts.                                      *)
LEMMA SeenTexts ==
  ASSUME NEW words, NEW other, NEW f, NEW k,
         \A n \in Slots : f[n].k = k => Meant(other, f[n]) = Meant(words, f[n])
  PROVE  SeenOf(other, f, k) = SeenOf(words, f, k)
  <1> DEFINE S == {m \in Slots : f[m].k = k}
             n == First(S)
  <1>1. n = 0 \/ n \in S
    <2>1. S \in SUBSET Slots
      OBVIOUS
    <2> QED BY <2>1, FirstIsLeast
  <1>2. n # 0 => Meant(other, f[n]) = Meant(words, f[n])
    BY <1>1
  <1> HIDE DEF n
  <1>3. /\ SeenOf(words, f, k) = IF n = 0 THEN NoEntry ELSE [type |-> f[n].t, val |-> Meant(words, f[n]).v]
        /\ SeenOf(other, f, k) = IF n = 0 THEN NoEntry ELSE [type |-> f[n].t, val |-> Meant(other, f[n]).v]
    BY DEF SeenOf, n
  <1> QED BY <1>2, <1>3

(* What kved_data_read returns is what the entries mean.                    *)
SessionInv == IInv /\ EInv /\ SInv /\ RInv

LEMMA TextKnown == \A x : Cardinality({x}) = 1 /\ (CHOOSE y \in {x} : TRUE) = x
  BY FS_Singleton

LEMMA Visible == SessionInv => VisibleMap = Seen(Words, InUse)
  <1> SUFFICES ASSUME SessionInv, NEW k \in Keys PROVE VisibleEntry(k) = SeenOf(Words, InUse, k)
    BY DEF VisibleMap, Seen
  <1> DEFINE S == {m \in Slots : InUse[m].k = k}
             n == First(S)
             m == Meant(Words, InUse[n]).v
             texts == kved_value_string_decode(Words, InUse[n].v)
  <1>1. kved_key_index_find(main, ctrl.sector, k) = n
    BY DEF kved_key_index_find, InUse
  <1>2. VisibleEntry(k) = EntryAt(main[ctrl.sector], n, Words)
    BY <1>1 DEF VisibleEntry, Words
  <1>3. n = 0 \/ n \in S
    <2>1. S \in SUBSET Slots
      OBVIOUS
    <2> QED BY <2>1, FirstIsLeast
  <1>4. SeenOf(Words, InUse, k) = IF n = 0 THEN NoEntry ELSE [type |-> InUse[n].t, val |-> m]
    BY DEF SeenOf
  <1>5. CASE n = 0
    BY <1>2, <1>4, <1>5 DEF EntryAt
  <1>6. CASE n # 0
    <2>1. /\ InUse[n].t = "str" => texts = {m}
          /\ InUse[n].t # "str" => m = InUse[n].v
      BY <1>3, <1>6, Readable DEF SessionInv, RInv
    <2>2. EntryAt(main[ctrl.sector], n, Words)
            = [type |-> InUse[n].t,
               val |-> IF InUse[n].t # "str" THEN InUse[n].v
                       ELSE IF Cardinality(texts) = 1 THEN CHOOSE y \in texts : TRUE ELSE GARBLED]
      BY <1>6 DEF EntryAt, InUse
    <2> HIDE DEF m, texts, n
    <2>3. InUse[n].t = "str" => Cardinality(texts) = 1 /\ (CHOOSE y \in texts : TRUE) = m
      BY <2>1, TextKnown
    <2>4. EntryAt(main[ctrl.sector], n, Words) = [type |-> InUse[n].t, val |-> m]
      BY <2>1, <2>2, <2>3
    <2> QED BY <1>2, <1>4, <1>6, <2>4 DEF m
  <1> QED BY <1>5, <1>6

(* The dictionary, before and after a step.                                 *)
LEMMA SessionTable ==
  ASSUME SessionInv, SessionInv'
  PROVE  VisibleMap = Seen(Words, InUse) /\ VisibleMap' = Seen(Words', InUse')
  <1>1. (SessionInv => VisibleMap = Seen(Words, InUse))'
    BY Visible, PTL
  <1> QED BY <1>1, Visible

LEMMA SessionKept ==
  ASSUME SessionInv, SessionInv', SameTexts(Words, Words', ctrl.next_idx),
         \A k \in Keys : SeenOf(Words', InUse', k) = SeenOf(Words', InUse, k)
  PROVE  VisibleMap' = VisibleMap
  <1>1. ASSUME NEW k \in Keys PROVE SeenOf(Words', InUse, k) = SeenOf(Words, InUse, k)
    <2>1. \A n \in Slots : InUse[n].k = k => Meant(Words', InUse[n]) = Meant(Words, InUse[n])
      BY MeantSame DEF SessionInv, RInv, SoundInv
    <2> QED BY <2>1, SeenTexts
  <1>2. \A k \in Keys : SeenOf(Words', InUse', k) = SeenOf(Words, InUse, k)
    BY <1>1
  <1> QED BY <1>2, SessionTable DEF Seen

LEMMA SessionSame ==
  ASSUME SessionInv, SessionInv', InUse' = InUse, SameTexts(Words, Words', ctrl.next_idx)
  PROVE  VisibleMap' = VisibleMap
  BY SessionKept

LEMMA SessionQuiet ==
  ASSUME SessionInv, SessionInv', main' = main, str' = str, ctrl'.sector = ctrl.sector,
         ctrl'.str_sector = ctrl.str_sector
  PROVE  VisibleMap' = VisibleMap
  <1>1. InUse' = InUse /\ Words' = Words
    BY DEF InUse, Words
  <1> QED BY <1>1, SessionSame, SameWords

(* The session is a dictionary: each step is a step of KvStore, or none.    *)
Serves == V!Next \/ UNCHANGED V!vars

LEMMA Silent ==
  ASSUME VisibleMap' = VisibleMap, Mode' = Mode, call' = call, ret' = ret
  PROVE  Serves
  BY DEF Serves, V!vars

(* kved_init starts with an empty database.                                 *)
LEMMA SessionEmpty ==
  SessionInv /\ (pc \in Starting \/ Recovering) => VisibleMap = [k \in Keys |-> NoEntry]
  <1> SUFFICES ASSUME SessionInv, pc \in Starting \/ Recovering, NEW k \in Keys
               PROVE  SeenOf(Words, InUse, k) = NoEntry
    BY Visible DEF Seen
  <1>1. InUse = EmptyTable
    <2>1. ctrl.sector \in Sectors
      BY Typed DEF SessionInv
    <2> QED BY <2>1 DEF SessionInv, RInv, SoundInv, InUse
  <1>2. \A n \in Slots : InUse[n].k # k
    BY <1>1, EmptySound
  <1> QED BY <1>2, SeenNone

LEMMA SessionStarts ==
  ASSUME SessionInv, SessionInv',
         \/ kved_sector_consistency_check \/ InitIndexSector \/ InitFormatIndex
         \/ InitStringSector \/ InitFormatString
  PROVE  Serves
  <1> USE DEF InitLabels, Starting, Goto
  <1>1. pc \in Starting /\ pc' \in InitLabels \cup {"check"}
    BY DEF kved_sector_consistency_check, InitIndexSector, InitFormatIndex, InitStringSector,
           InitFormatString
  <1>2. call'.op = "init"
    <2>1. CASE kved_sector_consistency_check
      BY <2>1 DEF kved_sector_consistency_check, NoCall
    <2>2. CASE ~kved_sector_consistency_check
      <3>1. call' = call /\ pc \in InitLabels
        BY <2>2 DEF InitIndexSector, InitFormatIndex, InitStringSector, InitFormatString
      <3> QED BY <3>1 DEF SessionInv, IInv, CallInv
    <2> QED BY <2>1, <2>2
  <1>3. (SessionInv /\ (pc \in Starting \/ Recovering) => VisibleMap = [k \in Keys |-> NoEntry])'
    BY SessionEmpty, PTL
  <1>4. VisibleMap' = VisibleMap
    BY <1>1, <1>2, <1>3, SessionEmpty DEF Recovering
  <1>5. Mode' = "off"
    BY <1>1, <1>2 DEF Mode
  <1> QED BY <1>4, <1>5 DEF Serves, V!Next, V!Stop

LEMMA SessionChecked ==
  ASSUME SessionInv, SessionInv', kved_string_consistency_check
  PROVE  Serves
  <1>1. /\ pc = "check" /\ pc' = "scan" /\ call' = call /\ ret' = ret
        /\ main' = main /\ str' = str /\ ctrl' = ctrl
    <2>1. StrSigned(ctrl.str_sector) /\ ctrl' = ctrl
      BY StringsChecked DEF SessionInv
    <2> QED BY <2>1 DEF kved_string_consistency_check, flash, Goto
  <1>2. VisibleMap' = VisibleMap
    BY <1>1, SessionQuiet
  <1>3. Mode' = Mode
    BY <1>1 DEF Mode
  <1> QED BY <1>1, <1>2, <1>3, Silent

(* What a table with one entry for each key says of an entry.               *)
LEMMA EntrySeen ==
  ASSUME SessionInv, Unique(InUse), NEW n \in Slots, InUse[n].k \in Keys
  PROVE  VisibleMap[InUse[n].k] = [type |-> InUse[n].t, val |-> Meant(Words, InUse[n]).v]
  BY Visible, SeenUnique DEF Seen

LEMMA WantedSeen ==
  ASSUME SessionInv, Unique(InUse), call.op = "write", call.key \in Keys,
         NEW n \in Slots, Meant(Words, InUse[n]) = Wanted
  PROVE  V!HasEffect(VisibleMap)
  <1>1. InUse[n].k = call.key /\ InUse[n].t = call.type /\ Meant(Words, InUse[n]).v = call.val
    BY DEF Meant, Wanted
  <1>2. VisibleMap[InUse[n].k] = [type |-> InUse[n].t, val |-> Meant(Words, InUse[n]).v]
    BY <1>1, EntrySeen
  <1>3. VisibleMap[call.key] = [type |-> call.type, val |-> call.val]
    BY <1>1, <1>2
  <1> QED BY <1>3 DEF V!HasEffect

LEMMA SessionDone ==
  ASSUME SessionInv, SessionInv', ConsistencyCheckDone
  PROVE  Serves
  <1> USE DEF Selecting, Formatting, Goto
  <1>1. /\ pc = "scan" /\ main' = main /\ str' = str /\ ctrl' = ctrl
        /\ call.op \in {"init", "write", "compact"}
    BY DEF ConsistencyCheckDone, flash, SessionInv, EInv, ModeInv
  <1>2. VisibleMap' = VisibleMap
    BY <1>1, SessionQuiet
  <1>3. CASE call.op = "write" /\ old = 0
    <2>1. call' = call /\ ret' = ret /\ pc' \in {"w_stridx", "w_val"}
      BY <1>3 DEF ConsistencyCheckDone, AppendFrom
    <2>2. Mode' = Mode
      BY <1>1, <2>1 DEF Mode
    <2> QED BY <1>2, <2>1, <2>2, Silent
  <1>4. CASE call.op = "init"
    <2>1. Mode = "off" /\ Mode' = "idle"
      BY <1>1, <1>4 DEF ConsistencyCheckDone, Return, Mode
    <2> QED BY <1>2, <2>1 DEF Serves, V!Next, V!Start
  <1>5. CASE call.op = "compact" \/ (call.op = "write" /\ old # 0)
    <2>1. Mode = "busy" /\ Mode' = "idle" /\ ret' = "KVED_OK"
      BY <1>1, <1>5 DEF ConsistencyCheckDone, Return, Mode
    <2>2. V!HasEffect(VisibleMap)
      <3>1. CASE call.op = "compact"
        BY <3>1 DEF V!HasEffect
      <3>2. CASE call.op = "write" /\ old # 0
        <4>1. call.key \in Keys
          BY <1>1, <3>2 DEF SessionInv, IInv, CallInv
        <4>2. PICK n \in Slots : Meant(Words, InUse[n]) = Wanted
          BY <1>1, <3>2 DEF SessionInv, RInv, MeantInv, Renewed, Late
        <4>3. Unique(InUse)
          BY <1>1, <3>2 DEF SessionInv, EInv, UniqueInv, Recovering
        <4> QED BY <3>2, <4>1, <4>2, <4>3, WantedSeen
      <3> QED BY <1>5, <3>1, <3>2
    <2> QED BY <1>2, <2>1, <2>2 DEF Serves, V!Next, V!Return
  <1> QED BY <1>1, <1>3, <1>4, <1>5

LEMMA SessionInvoked ==
  ASSUME SessionInv, SessionInv', kved_data_write \/ kved_data_delete \/ kved_compact_database
  PROVE  Serves
  <1>1. /\ pc = "idle" /\ main' = main /\ str' = str /\ ctrl' = ctrl /\ ret' = "none"
        /\ pc' \in {"write", "delete", "sw_erase"}
        /\ call'.op \in {"write", "delete", "compact"}
    BY DEF kved_data_write, kved_data_delete, kved_compact_database, Enter, flash, Goto
  <1>2. Mode = "idle" /\ Mode' = "busy"
    BY <1>1 DEF Mode
  <1>3. VisibleMap' = VisibleMap
    BY <1>1, SessionQuiet
  <1> QED BY <1>1, <1>2, <1>3 DEF Serves, V!Next, V!Invoke

LEMMA SessionReading ==
  ASSUME SessionInv, SessionInv', kved_data_read
  PROVE  Serves
  <1>1. pc = "idle" /\ pc' = pc /\ main' = main /\ str' = str /\ ctrl' = ctrl
    BY DEF kved_data_read, flash
  <1>2. Mode = "idle" /\ Mode' = "idle"
    BY <1>1 DEF Mode
  <1>3. VisibleMap' = VisibleMap
    BY <1>1, SessionQuiet
  <1>4. PICK k \in Keys \cup {BadKey} :
       LET n == kved_key_index_find(main, ctrl.sector, k)
       IN  IF k = BadKey \/ n = 0
             THEN /\ ret' = "KVED_INVALID_KEY"
                  /\ call' = [op |-> "read", key |-> k, type |-> "none", val |-> FREE]
             ELSE /\ ret' = "KVED_OK"
                  /\ \E d \in Decoded(main[ctrl.sector].slot[n], str[ctrl.str_sector]) :
                       call' = [op |-> "read", key |-> k, type |-> d.type, val |-> d.val]
    BY DEF kved_data_read
  <1> DEFINE S == {n \in Slots : InUse[n].k = k}
             n == kved_key_index_find(main, ctrl.sector, k)
  <1>5. /\ (n = 0) <=> (S = {})
        /\ S # {} => n \in S
    <2>1. S \in SUBSET Slots /\ n = First(S)
      BY DEF kved_key_index_find, InUse
    <2> QED BY <2>1, FirstIsLeast
  <1>6. CASE k = BadKey \/ n = 0
    <2>1. call'.op = "read" /\ call'.key = k /\ ret' = "KVED_INVALID_KEY"
      BY <1>4, <1>6
    <2>2. k \in Keys => VisibleMap[k].type = "none"
      <3> SUFFICES ASSUME k \in Keys PROVE VisibleMap[k].type = "none"
        OBVIOUS
      <3>1. \A m \in Slots : InUse[m].k # k
        BY <1>5, <1>6, KeyKinds
      <3>2. SeenOf(Words, InUse, k) = NoEntry
        BY <3>1, SeenNone
      <3> QED BY <3>2, Visible DEF Seen, NoEntry
    <2> QED BY <1>2, <1>3, <2>1, <2>2 DEF Serves, V!Next, V!Read, V!Absent
  <1>7. CASE ~(k = BadKey \/ n = 0)
    <2>1. k \in Keys /\ n \in Slots /\ InUse[n].k = k
      BY <1>5, <1>7
    <2> HIDE DEF n
    <2>2. PICK d \in Decoded(InUse[n], Words) :
            call' = [op |-> "read", key |-> k, type |-> d.type, val |-> d.val]
      BY <1>4, <1>7 DEF n, InUse, Words
    <2>3. d.type = InUse[n].t /\ d.val = Meant(Words, InUse[n]).v
      <3>1. /\ d.type = InUse[n].t
            /\ d.val \in IF InUse[n].t = "str" THEN kved_value_string_decode(Words, InUse[n].v) ELSE {InUse[n].v}
        BY <2>2 DEF Decoded
      <3>2. /\ InUse[n].t = "str" => kved_value_string_decode(Words, InUse[n].v) = {Meant(Words, InUse[n]).v}
            /\ InUse[n].t # "str" => Meant(Words, InUse[n]).v = InUse[n].v
        BY <2>1, Readable DEF SessionInv, RInv
      <3> QED BY <3>1, <3>2
    <2>4. VisibleMap[k] = [type |-> d.type, val |-> d.val]
      <3>1. Unique(InUse)
        BY <1>1 DEF SessionInv, EInv, UniqueInv, Recovering, Selecting, Formatting, InitLabels
      <3> QED BY <2>1, <2>3, <3>1, EntrySeen
    <2>5. d.type # "none"
      BY <2>1, <2>3, Readable DEF SessionInv, RInv
    <2>6. call'.op = "read" /\ call'.key = k /\ call'.type = d.type /\ call'.val = d.val
      BY <2>2
    <2>7. ret' = "KVED_OK"
      BY <1>4, <1>7 DEF n
    <2> QED BY <1>2, <1>3, <2>1, <2>4, <2>5, <2>6, <2>7 DEF Serves, V!Next, V!Read, V!Absent
  <1> QED BY <1>6, <1>7

LEMMA SessionRejected ==
  ASSUME SessionInv, SessionInv', WriteRejected
  PROVE  Serves
  <1>1. /\ pc = "write" /\ main' = main /\ str' = str /\ ctrl' = ctrl /\ Mode' = "idle"
        /\ ret' = "KVED_INVALID_KEY" /\ call.key \notin Keys
    BY KeyKinds DEF WriteRejected, flash, Return, Mode
  <1>2. VisibleMap' = VisibleMap
    BY <1>1, SessionQuiet
  <1>3. Mode = "busy"
    BY <1>1 DEF SessionInv, EInv, ModeInv, Mode
  <1> QED BY <1>1, <1>2, <1>3 DEF Serves, V!Next, V!Fail

LEMMA SessionUnchanged ==
  ASSUME OneType, SessionInv, SessionInv', WriteUnchanged
  PROVE  Serves
  <1>1. /\ pc = "write" /\ main' = main /\ str' = str /\ ctrl' = ctrl /\ Mode' = "idle"
        /\ ret' = "KVED_OK" /\ TRUE \in Unchanged
    BY DEF WriteUnchanged, flash, Return, Mode
  <1>2. VisibleMap' = VisibleMap
    BY <1>1, SessionQuiet
  <1>3. call.op = "write" /\ call.key \in Keys /\ Unique(InUse) /\ Mode = "busy"
    BY WriterFinds DEF SessionInv, Mode
  <1>4. Found # 0
    BY <1>1 DEF Unchanged
  <1>5. /\ Found \in Slots /\ InUse[Found].k = call.key /\ InUse[Found].t = call.type
        /\ Unchanged = {Meant(Words, InUse[Found]).v = call.val}
    BY <1>4, Compared DEF SessionInv
  <1>6. Meant(Words, InUse[Found]) = Wanted
    <2>1. Meant(Words, InUse[Found]).v = call.val
      BY <1>1, <1>5
    <2> QED BY <1>5, <2>1 DEF Meant, Wanted
  <1>7. V!HasEffect(VisibleMap)
    BY <1>3, <1>5, <1>6, WantedSeen
  <1> QED BY <1>1, <1>2, <1>3, <1>7 DEF Serves, V!Next, V!Return

(* The steps of a call that write nothing, or only the value or the text.   *)
LEMMA SessionPrepared ==
  ASSUME SessionInv, SessionInv', WriteFull \/ WriteSwitch \/ WriteAppend
  PROVE  Serves
  <1> USE DEF Goto
  <1>1. /\ main' = main /\ str' = str /\ ctrl' = ctrl /\ call' = call /\ ret' = ret
        /\ pc = "write" /\ pc' \in {"full", "sw_erase", "w_stridx", "w_val"}
    BY DEF WriteFull, WriteSwitch, WriteAppend, Writing, AppendFrom, flash
  <1>2. call.op = "write"
    BY <1>1 DEF SessionInv, EInv, ModeInv
  <1>3. Mode' = Mode
    BY <1>1, <1>2 DEF Mode
  <1> QED BY <1>1, <1>3, SessionQuiet, Silent

LEMMA SessionText ==
  ASSUME SessionInv, SessionInv', WriteStringIndex \/ WriteStringData
  PROVE  Serves
  <1> USE DEF Goto, Appending
  <1>1. InUse' = InUse /\ SameTexts(Words, Words', ctrl.next_idx)
    BY ReadableText DEF SessionInv
  <1>2. /\ call' = call /\ ret' = ret /\ pc \in {"w_stridx", "w_strdata"}
        /\ pc' \in {"w_strdata", "w_val"}
    BY DEF WriteStringIndex, WriteStringData
  <1>3. call.op = "write"
    BY <1>2 DEF SessionInv, EInv, ModeInv
  <1>4. Mode' = Mode
    BY <1>2, <1>3 DEF Mode
  <1> QED BY <1>1, <1>2, <1>4, SessionSame, Silent

LEMMA SessionValue ==
  ASSUME SessionInv, SessionInv', WriteValue
  PROVE  Serves
  <1> USE DEF Goto, Appending
  <1> DEFINE x == ctrl.first_free
  <1>1. /\ Words' = Words /\ InUse[x].k \notin Keys /\ InUse'[x].k \notin Keys
        /\ \A n \in Slots : n # x => InUse'[n] = InUse[n]
    BY ReadableValue DEF SessionInv
  <1>2. pc = "w_val" /\ pc' = "w_key" /\ call' = call /\ ret' = ret
    BY DEF WriteValue
  <1> HIDE DEF x
  <1>3. ASSUME NEW k \in Keys PROVE SeenOf(Words', InUse', k) = SeenOf(Words', InUse, k)
    <2>1. Behind(InUse, InUse', k, x)
      BY <1>1 DEF Behind
    <2> QED BY <2>1, SeenSame
  <1>4. VisibleMap' = VisibleMap
    BY <1>1, <1>3, SessionKept, SameWords
  <1>5. call.op = "write"
    BY <1>2 DEF SessionInv, EInv, ModeInv
  <1>6. Mode' = Mode
    BY <1>2, <1>5 DEF Mode
  <1> QED BY <1>2, <1>4, <1>6, Silent

LEMMA SessionCardinality == \A S : V!Cardinality(S) = Cardinality(S)
  BY DEF V!Cardinality, Cardinality

(* The table is full when every entry holds another key.                    *)
LEMMA SessionCount ==
  ASSUME SessionInv, Unique(InUse), Num(InUse, Markers) = 0
  PROVE  Cardinality({k \in Keys : ~V!Absent(VisibleMap[k])}) = NumEntries
  <1> DEFINE T == {k \in Keys : ~V!Absent(VisibleMap[k])}
             f == [n \in Slots |-> InUse[n].k]
  <1>0. InUse \in Tables
    BY Typed DEF SessionInv
  <1>1. \A n \in Slots : InUse[n].k \in Keys
    <2>1. \A n \in Slots : InUse[n].k \notin Markers
      BY <1>0, NumType
    <2>2. \A n \in Slots : InUse[n].k \in Keys \cup Markers
      BY <1>0 DEF Tables, Entries
    <2> QED BY <2>1, <2>2
  <1>2. \A n \in Slots : InUse[n].k \in T
    <2> SUFFICES ASSUME NEW n \in Slots PROVE InUse[n].k \in T
      OBVIOUS
    <2>1. VisibleMap[InUse[n].k] = [type |-> InUse[n].t, val |-> Meant(Words, InUse[n]).v]
      BY <1>1, EntrySeen
    <2>2. InUse[n].t # "none"
      BY <1>1, Readable DEF SessionInv, RInv
    <2> QED BY <1>1, <2>1, <2>2 DEF V!Absent
  <1>3. \A k \in T : \E n \in Slots : InUse[n].k = k
    <2> SUFFICES ASSUME NEW k \in T, \A n \in Slots : InUse[n].k # k PROVE FALSE
      OBVIOUS
    <2>1. SeenOf(Words, InUse, k) = NoEntry
      BY SeenNone
    <2> QED BY <2>1, Visible DEF Seen, NoEntry, V!Absent
  <1>4. \A n, m \in Slots : InUse[n].k = InUse[m].k => n = m
    <2> SUFFICES ASSUME NEW n \in Slots, NEW m \in Slots, InUse[n].k = InUse[m].k, n # m PROVE FALSE
      OBVIOUS
    <2>1. n < m \/ m < n
      BY DEF Slots
    <2> QED BY <1>1, <2>1 DEF Unique, Superseded
  <1>5. IsFiniteSet(Slots) /\ Cardinality(Slots) = NumEntries
    BY FS_Interval DEF Slots
  <1> HIDE DEF T
  <1>6. f \in Bijection(Slots, T)
    <2>1. f \in [Slots -> T]
      BY <1>2
    <2>2. f \in Injection(Slots, T)
      BY <1>4, <2>1 DEF Injection, IsInjective
    <2>3. f \in Surjection(Slots, T)
      BY <1>3, <2>1 DEF Surjection
    <2> QED BY <2>2, <2>3 DEF Bijection
  <1>7. Cardinality(T) = NumEntries
    BY <1>5, <1>6, FS_Bijection DEF ExistsBijection
  <1> QED BY <1>7 DEF T

LEMMA SessionFull ==
  ASSUME SessionInv, SessionInv', kved_dump
  PROVE  Serves
  <1> USE DEF Selecting, Formatting, InitLabels
  <1>1. /\ pc = "full" /\ main' = main /\ str' = str /\ ctrl' = ctrl
        /\ Mode' = "idle" /\ ret' = "KVED_TABLE_FULL"
    BY DEF kved_dump, flash, Return, Mode
  <1>2. VisibleMap' = VisibleMap
    BY <1>1, SessionQuiet
  <1>3. call.op = "write" /\ call.key \in Keys /\ Unique(InUse) /\ Mode = "busy"
    BY <1>1 DEF SessionInv, EInv, ModeInv, UniqueInv, Recovering, Mode
  <1>4. Num(InUse, Markers) = 0
    <2>1. ctrl.used = NumEntries /\ ctrl.used = NumEntries - Num(InUse, Markers)
      BY <1>1 DEF SessionInv, RInv, MeantInv, EInv, CountInv, Agrees
    <2>2. Num(InUse, Markers) \in 0 .. NumEntries
      BY NumNat
    <2> QED BY <2>1, <2>2
  <1>5. V!Cardinality({k \in Keys : ~V!Absent(VisibleMap[k])}) = NumEntries
    BY <1>3, <1>4, SessionCount, SessionCardinality
  <1>6. VisibleMap[call.key] # [type |-> call.type, val |-> call.val]
    <2> SUFFICES ASSUME VisibleMap[call.key] = [type |-> call.type, val |-> call.val] PROVE FALSE
      OBVIOUS
    <2>1. VisibleMap[call.key] = SeenOf(Words, InUse, call.key)
      BY <1>3, Visible DEF Seen
    <2>2. CASE \A n \in Slots : InUse[n].k # call.key
      <3>1. VisibleMap[call.key] = NoEntry
        BY <2>1, <2>2, SeenNone
      <3>2. call.type = "none"
        BY <3>1 DEF NoEntry
      <3>3. call.type \in {"num", "str"}
        BY <1>3, TypeKinds DEF SessionInv, RInv, SoundInv
      <3> QED BY <3>2, <3>3
    <2>3. CASE \E n \in Slots : InUse[n].k = call.key
      <3>1. PICK n \in Slots : InUse[n].k = call.key
        BY <2>3
      <3>2. VisibleMap[InUse[n].k] = [type |-> InUse[n].t, val |-> Meant(Words, InUse[n]).v]
        BY <1>3, <3>1, EntrySeen
      <3>3. InUse[n].t = call.type /\ Meant(Words, InUse[n]).v = call.val
        BY <3>1, <3>2
      <3>4. Meant(Words, InUse[n]) = Wanted
        BY <3>1, <3>3 DEF Meant, Wanted
      <3> QED BY <1>1, <3>4 DEF SessionInv, RInv, MeantInv
    <2> QED BY <2>2, <2>3
  <1>7. ~V!HasEffect(VisibleMap)
    BY <1>3, <1>6 DEF V!HasEffect
  <1> QED BY <1>1, <1>2, <1>3, <1>5, <1>7 DEF Serves, V!Next, V!Fail

(* The key of a new entry: it takes effect at once if it is the first of    *)
(* its key, ...                                                             *)
LEMMA SessionKey ==
  ASSUME SessionInv, SessionInv', WriteKey
  PROVE  Serves
  <1> USE DEF Selecting, Formatting, InitLabels, Goto
  <1> DEFINE x == ctrl.first_free
  <1>1. /\ pc = "w_key"
        /\ \/ old = 0 /\ pc' = "idle" /\ ret' = "KVED_OK"
           \/ old # 0 /\ pc' = "w_del" /\ call' = call /\ ret' = ret
    BY DEF WriteKey, Return
  <1>2. /\ Words' = Words /\ x \in Slots /\ InUse[x].k = "free"
        /\ \A n \in Slots : (InUse[n].k = "free") <=> (n >= x)
        /\ call.op = "write" /\ call.key \in Keys
        /\ Meant(Words, InUse'[x]) = Wanted /\ InUse'[x].k = call.key
        /\ \A n \in Slots : n # x => InUse'[n] = InUse[n]
    BY WantedWritten DEF SessionInv
  <1>3. \A n \in Slots : (InUse[n].k = call.key) <=> (n = old)
    BY <1>1, <1>2 DEF SessionInv, EInv, OldInv, Appending
  <1>4. VisibleMap = Seen(Words, InUse) /\ VisibleMap' = Seen(Words, InUse')
    BY <1>2, SessionTable
  <1>5. Mode = "busy"
    BY <1>1, <1>2 DEF Mode
  <1> HIDE DEF x
  <1>6. CASE old = 0 /\ pc' = "idle" /\ ret' = "KVED_OK"
    <2>1. SeenOf(Words, InUse', call.key) = [type |-> call.type, val |-> call.val]
      <3>1. InUse'[x].t = call.type /\ Meant(Words, InUse'[x]).v = call.val
        BY <1>2 DEF Meant, Wanted
      <3>2. \A m \in Slots : m < x => InUse'[m].k # call.key
        BY <1>2, <1>3, <1>6 DEF Slots
      <3>3. SeenOf(Words, InUse', call.key) = [type |-> InUse'[x].t, val |-> Meant(Words, InUse'[x]).v]
        BY <1>2, <3>2, SeenAt
      <3> QED BY <3>1, <3>3
    <2>2. ASSUME NEW k \in Keys \ {call.key} PROVE SeenOf(Words, InUse', k) = SeenOf(Words, InUse, k)
      <3>1. Behind(InUse, InUse', k, x)
        BY <1>2, KeyKinds DEF Behind
      <3> QED BY <3>1, SeenSame
    <2>3. V!TakesEffect
      <3>1. V!HasEffect(VisibleMap')
        BY <1>2, <1>4, <2>1 DEF V!HasEffect, Seen
      <3>2. \A k \in Keys \ {call.key} : VisibleMap'[k] = VisibleMap[k]
        BY <1>4, <2>2 DEF Seen
      <3> QED BY <1>2, <3>1, <3>2 DEF V!TakesEffect
    <2>4. Mode' = "idle"
      BY <1>6 DEF Mode
    <2> QED BY <1>5, <1>6, <2>3, <2>4 DEF Serves, V!Next, V!Return
  <1>7. CASE old # 0 /\ pc' = "w_del" /\ call' = call /\ ret' = ret
    <2>1. old \in Slots /\ InUse[old].k = call.key /\ old < x
      <3>1. old \in Slots
        BY <1>7, Typed DEF Slots, SessionInv
      <3>2. InUse[old].k = call.key /\ InUse[old].k # "free"
        BY <1>2, <1>3, <3>1, KeyKinds
      <3> QED BY <1>2, <3>1, <3>2 DEF Slots
    <2>2. ASSUME NEW k \in Keys PROVE SeenOf(Words, InUse', k) = SeenOf(Words, InUse, k)
      <3>1. Behind(InUse, InUse', k, x)
        BY <1>2, <2>1, KeyKinds DEF Behind
      <3> QED BY <3>1, SeenSame
    <2>3. VisibleMap' = VisibleMap
      BY <1>4, <2>2 DEF Seen
    <2>4. Mode' = Mode
      BY <1>1, <1>2, <1>7 DEF Mode
    <2> QED BY <1>7, <2>3, <2>4, Silent
  <1> QED BY <1>1, <1>6, <1>7

(* ... and when the entry that it replaces is deleted otherwise.            *)
LEMMA SessionReplaced ==
  ASSUME SessionInv, SessionInv', WriteDeleteOld
  PROVE  Serves
  <1> USE DEF Selecting, Formatting, InitLabels
  <1> DEFINE l == ctrl.first_free - 1
  <1>1. /\ pc = "w_del" /\ pc' = "idle" /\ ret' = "KVED_OK" /\ ctrl'.sector = ctrl.sector
        /\ main' = DeleteSlot(main, ctrl.sector, old)
    <2>1. ctrl \in CtrlType
      BY Typed DEF SessionInv
    <2> QED BY <2>1 DEF WriteDeleteOld, Return, CtrlType
  <1>2. main \in MainType /\ ctrl.sector \in Sectors /\ InUse \in Tables
    BY Typed DEF SessionInv
  <1>3. call.op = "write" /\ call.key \in Keys /\ Mode = "busy" /\ Mode' = "idle"
    BY <1>1 DEF SessionInv, EInv, ModeInv, Appending, IInv, CallInv, Mode
  <1>4. old \in Slots /\ l \in Slots /\ old < l /\ Meant(Words, InUse[l]) = Wanted
    BY <1>1, Typed DEF SessionInv, EInv, OldInv, RInv, MeantInv, Slots
  <1>5. \A n \in Slots : (InUse[n].k = call.key) <=> (n = old \/ n = l)
    BY <1>1 DEF SessionInv, EInv, OldInv
  <1>6. InUse'[old].k = "deleted" /\ \A n \in Slots : n # old => InUse'[n] = InUse[n]
    BY <1>1, <1>2, <1>4 DEF DeleteSlot, InUse, MainType, Entries
  <1>7. Words' = Words
    BY ReadableDeleted DEF SessionInv
  <1> HIDE DEF l
  <1>8. SeenOf(Words, InUse', call.key) = [type |-> call.type, val |-> call.val]
    <2>1. InUse[l].k = call.key /\ InUse[l].t = call.type /\ Meant(Words, InUse[l]).v = call.val
      BY <1>4 DEF Meant, Wanted
    <2>2. InUse'[l] = InUse[l]
      BY <1>4, <1>6 DEF Slots
    <2>3. \A m \in Slots : m < l => InUse'[m].k # call.key
      <3> SUFFICES ASSUME NEW m \in Slots, m < l, InUse'[m].k = call.key PROVE FALSE
        OBVIOUS
      <3>1. m # old
        BY <1>3, <1>6, KeyKinds
      <3>2. m = l
        BY <1>5, <1>6, <3>1
      <3> QED BY <1>4, <3>2 DEF Slots
    <2>4. SeenOf(Words, InUse', call.key) = [type |-> InUse'[l].t, val |-> Meant(Words, InUse'[l]).v]
      BY <1>4, <2>1, <2>2, <2>3, SeenAt
    <2> QED BY <2>1, <2>2, <2>4
  <1>9. ASSUME NEW k \in Keys \ {call.key} PROVE SeenOf(Words, InUse', k) = SeenOf(Words, InUse, k)
    <2>1. Behind(InUse, InUse', k, old)
      BY <1>4, <1>5, <1>6, KeyKinds DEF Behind
    <2> QED BY <2>1, SeenSame
  <1>10. VisibleMap = Seen(Words, InUse) /\ VisibleMap' = Seen(Words, InUse')
    BY <1>7, SessionTable
  <1>11. V!TakesEffect
    <2>1. V!HasEffect(VisibleMap')
      BY <1>3, <1>8, <1>10 DEF V!HasEffect, Seen
    <2>2. \A k \in Keys \ {call.key} : VisibleMap'[k] = VisibleMap[k]
      BY <1>9, <1>10 DEF Seen
    <2> QED BY <1>3, <2>1, <2>2 DEF V!TakesEffect
  <1> QED BY <1>1, <1>3, <1>11 DEF Serves, V!Next, V!Return

LEMMA SessionDeleted ==
  ASSUME SessionInv, SessionInv', kved_internal_data_delete
  PROVE  Serves
  <1> USE DEF Selecting, Formatting, InitLabels
  <1>1. pc = "delete" /\ pc' = "idle"
    BY DEF kved_internal_data_delete, Return
  <1>2. main \in MainType /\ ctrl.sector \in Sectors /\ InUse \in Tables /\ ctrl \in CtrlType
    BY Typed DEF SessionInv
  <1>3. call.op = "delete" /\ Mode = "busy" /\ Mode' = "idle" /\ Unique(InUse)
    BY <1>1 DEF SessionInv, EInv, ModeInv, UniqueInv, Recovering, Mode
  <1>4. CASE kved_is_valid_key(call.key) /\ Found # 0
    <2>1. /\ main' = DeleteSlot(main, ctrl.sector, Found) /\ ret' = "KVED_OK"
          /\ ctrl'.sector = ctrl.sector
      BY <1>2, <1>4 DEF kved_internal_data_delete, Return, CtrlType
    <2>2. Found \in Slots /\ InUse[Found].k = call.key /\ call.key \in Keys
      <3> DEFINE S == {n \in Slots : InUse[n].k = call.key}
      <3>1. Found \in S
        <4>1. S \in SUBSET Slots /\ Found = First(S)
          BY DEF Found, kved_key_index_find, InUse
        <4> QED BY <1>4, <4>1, FirstIsLeast
      <3>2. InUse[Found].k \in Keys \cup Markers
        BY <1>2, <3>1 DEF Tables, Entries
      <3> QED BY <1>4, <3>1, <3>2, KeyKinds
    <2>3. InUse'[Found].k = "deleted" /\ \A n \in Slots : n # Found => InUse'[n] = InUse[n]
      BY <1>2, <2>1, <2>2 DEF DeleteSlot, InUse, MainType, Entries
    <2>4. Words' = Words
      BY ReadableDeleted DEF SessionInv
    <2>5. VisibleMap = Seen(Words, InUse) /\ VisibleMap' = Seen(Words, InUse')
      BY <2>4, SessionTable
    <2>6. \A n \in Slots : (InUse[n].k = call.key) <=> (n = Found)
      BY <1>3, <2>2, FoundEntry DEF SessionInv
    <2>7. SeenOf(Words, InUse', call.key) = NoEntry
      <3>1. \A n \in Slots : InUse'[n].k # call.key
        BY <2>2, <2>3, <2>6, KeyKinds
      <3> QED BY <3>1, SeenNone
    <2>8. ASSUME NEW k \in Keys \ {call.key} PROVE SeenOf(Words, InUse', k) = SeenOf(Words, InUse, k)
      <3>1. Behind(InUse, InUse', k, Found)
        BY <2>2, <2>3, KeyKinds DEF Behind
      <3> QED BY <3>1, SeenSame
    <2>9. V!TakesEffect
      <3>1. VisibleMap'[call.key].type = "none"
        BY <2>2, <2>5, <2>7 DEF Seen, NoEntry
      <3>2. V!HasEffect(VisibleMap')
        BY <1>3, <3>1 DEF V!HasEffect, V!Absent
      <3>3. \A k \in Keys \ {call.key} : VisibleMap'[k] = VisibleMap[k]
        BY <2>5, <2>8 DEF Seen
      <3> QED BY <1>3, <2>2, <3>2, <3>3 DEF V!TakesEffect
    <2> QED BY <1>3, <2>1, <2>9 DEF Serves, V!Next, V!Return
  <1>5. CASE ~(kved_is_valid_key(call.key) /\ Found # 0)
    <2>1. main' = main /\ str' = str /\ ctrl' = ctrl /\ ret' = "KVED_INVALID_KEY"
      BY <1>5 DEF kved_internal_data_delete, Return
    <2>2. VisibleMap' = VisibleMap
      BY <2>1, SessionQuiet
    <2>3. call.key \in Keys => VisibleMap[call.key].type = "none"
      <3> SUFFICES ASSUME call.key \in Keys PROVE VisibleMap[call.key].type = "none"
        OBVIOUS
      <3>1. Found = 0
        BY <1>5, KeyKinds
      <3>2. \A n \in Slots : InUse[n].k # call.key
        BY <1>3, <3>1, FoundEntry DEF Slots, SessionInv
      <3>3. SeenOf(Words, InUse, call.key) = NoEntry
        BY <3>2, SeenNone
      <3> QED BY <3>3, Visible DEF Seen, NoEntry
    <2> QED BY <1>3, <2>1, <2>2, <2>3 DEF Serves, V!Next, V!Fail, V!Absent
  <1> QED BY <1>4, <1>5

(* A sector switch: a reader reads the original up to the adoption of the   *)
(* copy, where the new value of the key being written takes effect.         *)
LEMMA SessionErased ==
  ASSUME OneType, SessionInv, SessionInv', SwitchErase \/ SwitchCopy
  PROVE  Serves
  <1>1. InUse' = InUse /\ Words' = Words
    BY ReadableErased, ReadableCopied DEF SessionInv
  <1>2. /\ pc \in {"sw_erase", "sw_strerase", "sw_copy"} /\ pc' \in {"sw_strerase", "sw_copy"}
        /\ call' = call /\ ret' = ret
    BY DEF SwitchErase, SwitchCopy, Goto
  <1>3. VisibleMap' = VisibleMap
    BY <1>1, SessionSame, SameWords
  <1>4. Mode' = Mode
    BY <1>2 DEF Mode
  <1> QED BY <1>2, <1>3, <1>4, Silent

LEMMA SessionSigned ==
  ASSUME SessionInv, SessionInv', SwitchSign \/ SwitchSignString \/ SwitchInvalidate
  PROVE  Serves
  <1> USE DEF SwitchLabels
  <1>1. /\ pc \in {"sw_sig", "sw_strsig", "sw_strend", "sw_inval"}
        /\ pc' \in {"sw_strsig", "sw_strend", "sw_inval", "check"}
        /\ call' = call /\ ret' = ret
    BY DEF SwitchSign, SwitchSignString, SwitchInvalidate, Goto
  <1>2. VisibleMap' = VisibleMap
    BY ReadableSigned, SessionSame DEF SessionInv
  <1>3. Mode' = Mode
    BY <1>1, SwitchCaller DEF Mode, SessionInv
  <1> QED BY <1>1, <1>2, <1>3, Silent

LEMMA SeenCopy ==
  ASSUME SessionInv, pc = "sw_copy", CopiedFrom(SpareWords, Words, Spare, InUse),
         NEW k \in Keys, ~(Renewed /\ k = call.key)
  PROVE  SeenOf(SpareWords, Spare, k) = SeenOf(Words, InUse, k)
  <1> USE DEF Selecting, Formatting, InitLabels, Early
  <1>1. /\ \A n \in Slots : Spare[n].k \in Keys =>
             \E j \in Slots : /\ InUse[j].k \in Keys
                              /\ Meant(SpareWords, Spare[n]) = CopyOf(call, Meant(Words, InUse[j]))
        /\ \A j \in Slots : InUse[j].k \in Keys =>
             \E n \in Slots : Meant(SpareWords, Spare[n]) = CopyOf(call, Meant(Words, InUse[j]))
    BY DEF CopiedFrom
  <1>2. /\ Unique(InUse) /\ Unique(Spare)
        /\ call.op = "write" => \A n \in Slots : (InUse[n].k = call.key) <=> (n = old)
    BY DEF SessionInv, EInv, UniqueInv, CopyInv, OldInv, Recovering
  <1>3. \A n \in Slots : \A words : /\ Meant(words, Spare[n]).k = Spare[n].k
                                    /\ Meant(words, Spare[n]).t = Spare[n].t
    BY DEF Meant
  <1>4. CASE \E j \in Slots : InUse[j].k = k
    <2>1. PICK j \in Slots : InUse[j].k = k
      BY <1>4
    <2>2. ~(call.op = "write" /\ InUse[j].k = call.key)
      BY <1>2, <2>1 DEF Renewed, Slots
    <2> DEFINE c == CopyOf(call, Meant(Words, InUse[j]))
    <2>3. c.k = k /\ c.t = InUse[j].t /\ c.v = Meant(Words, InUse[j]).v
      BY <2>1, <2>2, CopyOfMeant
    <2>4. PICK n \in Slots : Meant(SpareWords, Spare[n]) = c
      BY <1>1, <2>1
    <2> HIDE DEF c
    <2>5. /\ Spare[n].k = k /\ Spare[n].t = InUse[j].t
          /\ Meant(SpareWords, Spare[n]).v = Meant(Words, InUse[j]).v
      BY <1>3, <2>3, <2>4
    <2>6. SeenOf(Words, InUse, InUse[j].k) = [type |-> InUse[j].t, val |-> Meant(Words, InUse[j]).v]
      BY <1>2, <2>1, SeenUnique
    <2>7. SeenOf(SpareWords, Spare, Spare[n].k)
            = [type |-> Spare[n].t, val |-> Meant(SpareWords, Spare[n]).v]
      BY <1>2, <2>5, SeenUnique
    <2> QED BY <2>1, <2>5, <2>6, <2>7
  <1>5. CASE ~\E j \in Slots : InUse[j].k = k
    <2>1. \A n \in Slots : Spare[n].k # k
      <3> SUFFICES ASSUME NEW n \in Slots, Spare[n].k = k PROVE FALSE
        OBVIOUS
      <3>1. PICK j \in Slots : Meant(SpareWords, Spare[n]) = CopyOf(call, Meant(Words, InUse[j]))
        BY <1>1
      <3>2. InUse[j].k = Spare[n].k
        BY <1>3, <3>1, CopyOfMeant
      <3> QED BY <1>5, <3>2
    <2>2. SeenOf(SpareWords, Spare, k) = NoEntry
      BY <2>1, SeenNone
    <2>3. SeenOf(Words, InUse, k) = NoEntry
      BY <1>5, SeenNone
    <2> QED BY <2>2, <2>3
  <1> QED BY <1>4, <1>5

LEMMA SessionAdopted ==
  ASSUME OneType, SessionInv, SessionInv', SwitchAdopt
  PROVE  Serves
  <1> USE DEF SwitchLabels
  <1>1. /\ InUse' = Spare /\ Words' = SpareWords
        /\ CopiedFrom(SpareWords, Words, Spare, InUse)
    BY ReadableAdopted DEF SessionInv
  <1>2. pc = "sw_copy" /\ pc' = "sw_sig" /\ call' = call /\ ret' = ret /\ old' = old
    BY DEF SwitchAdopt, Goto, locals
  <1>3. VisibleMap = Seen(Words, InUse) /\ VisibleMap' = Seen(SpareWords, Spare)
    BY <1>1, SessionTable
  <1>4. Mode = "busy" /\ Mode' = Mode
    BY <1>2, SwitchCaller DEF Mode, SessionInv
  <1>5. CASE ~Renewed
    <2>1. \A k \in Keys : SeenOf(SpareWords, Spare, k) = SeenOf(Words, InUse, k)
      BY <1>1, <1>2, <1>5, SeenCopy
    <2>2. VisibleMap' = VisibleMap
      BY <1>3, <2>1 DEF Seen
    <2> QED BY <1>2, <1>4, <2>2, Silent
  <1>6. CASE Renewed
    <2>1. call.op = "write" /\ call.key \in Keys
      BY <1>2, <1>6 DEF Renewed, SessionInv, IInv, CallInv
    <2>2. PICK n \in Slots : Meant(SpareWords, Spare[n]) = Wanted
      <3>1. Renewed' /\ Wanted' = Wanted /\ pc' \in Late
        BY <1>2, <1>6 DEF Renewed, Wanted, Late, Early
      <3>2. \E n \in Slots : Meant(Words', InUse'[n]) = Wanted'
        BY <3>1 DEF SessionInv, RInv, MeantInv
      <3> QED BY <1>1, <3>1, <3>2
    <2>3. Spare[n].k = call.key /\ Spare[n].t = call.type /\ Meant(SpareWords, Spare[n]).v = call.val
      BY <2>2 DEF Meant, Wanted
    <2>4. SeenOf(SpareWords, Spare, Spare[n].k)
            = [type |-> Spare[n].t, val |-> Meant(SpareWords, Spare[n]).v]
      <3>1. Unique(Spare)
        BY <1>2 DEF SessionInv, EInv, CopyInv
      <3> QED BY <2>1, <2>3, <3>1, SeenUnique
    <2>5. V!HasEffect(VisibleMap')
      <3>1. VisibleMap'[call.key] = [type |-> call.type, val |-> call.val]
        BY <1>3, <2>1, <2>3, <2>4 DEF Seen
      <3> QED BY <2>1, <3>1 DEF V!HasEffect
    <2>6. \A k \in Keys \ {call.key} : VisibleMap'[k] = VisibleMap[k]
      <3>1. \A k \in Keys \ {call.key} : SeenOf(SpareWords, Spare, k) = SeenOf(Words, InUse, k)
        BY <1>1, <1>2, SeenCopy
      <3> QED BY <1>3, <3>1 DEF Seen
    <2>7. V!TakesEffect
      BY <2>1, <2>5, <2>6 DEF V!TakesEffect
    <2> QED BY <1>2, <1>4, <2>7 DEF Serves, V!Next, V!Apply
  <1> QED BY <1>5, <1>6

LEMMA SessionStep ==
  ASSUME OneSession, OneType, SessionInv, SessionInv', [Next]_vars
  PROVE  Serves
  <1>1. CASE UNCHANGED vars
    <2>1. VisibleMap' = VisibleMap /\ call' = call /\ ret' = ret /\ pc' = pc
      BY <1>1, SessionQuiet DEF vars
    <2>2. Mode' = Mode
      BY <2>1 DEF Mode
    <2> QED BY <2>1, <2>2, Silent
  <1>2. CASE \/ kved_sector_consistency_check \/ InitIndexSector \/ InitFormatIndex
             \/ InitStringSector \/ InitFormatString
    BY <1>2, SessionStarts
  <1>3. CASE kved_string_consistency_check
    BY <1>3, SessionChecked
  <1>4. ~kved_data_consistency_check
    BY NothingToRepair DEF SessionInv, RInv
  <1>5. CASE ConsistencyCheckDone
    BY <1>5, SessionDone
  <1>6. CASE Client
    BY <1>6, SessionInvoked, SessionReading DEF Client
  <1>7. CASE WriteRejected
    BY <1>7, SessionRejected
  <1>8. CASE WriteUnchanged
    BY <1>8, SessionUnchanged
  <1>9. CASE WriteFull \/ WriteSwitch \/ WriteAppend
    BY <1>9, SessionPrepared
  <1>10. CASE WriteStringIndex \/ WriteStringData
    BY <1>10, SessionText
  <1>11. CASE kved_dump
    BY <1>11, SessionFull
  <1>12. CASE WriteValue
    BY <1>12, SessionValue
  <1>13. CASE WriteKey
    BY <1>13, SessionKey
  <1>14. CASE WriteDeleteOld
    BY <1>14, SessionReplaced
  <1>15. CASE kved_internal_data_delete
    BY <1>15, SessionDeleted
  <1>16. CASE SwitchErase \/ SwitchCopy
    BY <1>16, SessionErased
  <1>17. CASE SwitchAdopt
    BY <1>17, SessionAdopted
  <1>18. CASE SwitchSign \/ SwitchSignString \/ SwitchInvalidate
    BY <1>18, SessionSigned
  <1>19. ~kved_deinit /\ ~PowerCut
    BY DEF OneSession, kved_deinit, PowerCut
  <1> QED BY <1>1, <1>2, <1>3, <1>4, <1>5, <1>6, <1>7, <1>8, <1>9, <1>10, <1>11, <1>12, <1>13,
             <1>14, <1>15, <1>16, <1>17, <1>18, <1>19 DEF Next, Step

LEMMA SessionInit == Init /\ SessionInv => V!Init
  <1> SUFFICES ASSUME Init, SessionInv PROVE V!Init
    OBVIOUS
  <1>1. pc = "off" /\ Mode = "off"
    BY DEF Init, Mode, NoCall
  <1>2. VisibleMap = [k \in Keys |-> NoEntry]
    BY <1>1, SessionEmpty DEF Starting
  <1> QED BY <1>1, <1>2 DEF V!Init, V!Absent, NoEntry

(* Within a session the database is a dictionary, for numbers and strings,  *)
(* for every set of keys and texts and number of entries: a write that      *)
(* appends, a write that switches sectors, a deletion and a compaction each *)
(* change the entry of their own key only, in one step, and leave the text  *)
(* of every other key as it was (kved_sector_switch,                        *)
(* kved_internal_strdata_write, kved_value_string_decode).                  *)
THEOREM SessionStoreCorrect ==
  ASSUME OneSession, OneType
  PROVE  Spec => SessionStore
  <1>0. WholeEntries
    BY DEF OneSession, WholeEntries
  <1>1. Init /\ SessionInv => V!Init
    BY SessionInit
  <1>2. SessionInv /\ SessionInv' /\ [Next]_vars => [V!Next]_(V!vars)
    BY SessionStep DEF Serves
  <1>3. Spec => []EInv
    BY <1>0, EntriesInvariant
  <1>4. Spec => []SessionInv
    BY <1>3, InductiveInvariant, StringsInvariant, ReadableInvariant, PTL DEF SessionInv
  <1> QED BY <1>1, <1>2, <1>4, PTL DEF Spec, SessionStore, V!Spec
=============================================================================
