------------------------ MODULE RpmsgDevicesProofs ------------------------
(***************************************************************************)
(* Proofs about RpmsgDevices, in careful surroundings: the list of         *)
(* devices, their endpoints and queues, and what Linux has been told about *)
(* them, while the rpmsg task runs between the calls of the application,   *)
(* or overtakes them.                                                      *)
(***************************************************************************)
EXTENDS RpmsgDevices, FiniteSetTheorems, Least, TLAPS

(* The application and Linux are careful, and there are no strays where the *)
(* rpmsg task may overtake the application.                                 *)
Firm == world.careful /\ (world.stray => world.above)

Ranks == [Devices \cup {Anchor} -> Nat]
TaskRec == [pc : {"down", "bind", "announce", "select", "find", "callback"},
            cur : Devices \cup {NULL}, sel : Devices \cup {NULL}]
AppRec == [pc : {"idle", "insert", "set", "check", "announce", "reset",
                 "destroy", "unlink", "unset", "unbind", "free"}, dev : Devices \cup {NULL}]
Letter == [to : Addrs \cup {Ns}, src : Sources, up : BOOLEAN]

-----------------------------------------------------------------------------
(* The devices with an endpoint, in the list, in the queue set, and of      *)
(* which Linux is to know, at every step of a call.                         *)
Adding == app.pc \in {"insert", "set", "check", "announce", "reset"}
During(P) == IF app.pc \in P THEN {app.dev} ELSE {}
Bound == (valid \ During({"free"})) \cup During({"insert", "set", "check", "announce", "reset"})
Listed == (valid \ During({"unset", "unbind", "free"})) \cup During({"set", "check", "announce", "reset"})
Grouped == (valid \ During({"unbind", "free"})) \cup During({"check", "announce", "reset"})
Known == (valid \ During({"unlink", "unset", "unbind", "free"})) \cup During({"reset"})

(* The device being added that a rpmsg task beside the application may have *)
(* come upon, and all those that Linux may have been told of.               *)
Passed == IF world.above THEN {} ELSE During({"set", "check", "announce", "reset"})
Public == Known \cup Passed

(* A call has a device: a new one, or one that lies still. *)
AppInv ==
  /\ app.pc # "idle" => app.dev \in memory
  /\ Adding => app.dev \notin valid
  /\ Removing => /\ app.dev \in valid /\ task.pc \in {"select", "down"}
                 /\ rx = <<>> /\ set = <<>>
  /\ heard \subseteq valid

(* The devices with an endpoint have different addresses. *)
AddrInv ==
  /\ \A d \in Devices : addr[d] # NoAddr <=> d \in Bound
  /\ \A d, e \in Bound : addr[d] = addr[e] => d = e

(* The rpmsg task is at devices that stay, and serves those of the          *)
(* application.                                                             *)
TaskInv ==
  /\ task.pc \in {"down", "bind", "select"} => task.cur = NULL /\ task.sel = NULL
  /\ task.pc = "announce" => task.sel = NULL /\ task.cur \in valid \cup Passed \cup {NULL}
  /\ task.pc = "find" => task.sel \in valid /\ task.cur \in valid \cup Passed
  /\ task.pc = "callback" => task.sel \in valid /\ task.cur \in valid

(* A rpmsg task beside the application waits during a removal, since there  *)
(* is nothing to select; and nothing has come for a device being added.     *)
OvertakeInv ==
  ~world.above =>
    /\ Removing => task.pc = "select"
    /\ \A i \in DOMAIN rx : rx[i].to # Ns => \E d \in valid : addr[d] = rx[i].to
    /\ Adding => queue[app.dev] = <<>>

(* The list is in the order of some ranks, the Anchor in front. *)
InOrder(nx, L, r) ==
  /\ \A x, y \in L : r[x] = r[y] => x = y
  /\ \A x \in L : r[x] < r[Anchor]
  /\ \A x \in L \cup {Anchor} :
       /\ nx[x] \in L \cup {NULL}
       /\ nx[x] # NULL => r[nx[x]] < r[x]
       /\ \A y \in L : r[y] < r[x] => nx[x] # NULL /\ r[y] <= r[nx[x]]

(* The queue set has every queue, once for each of its messages. *)
Count(s, d) == Cardinality({i \in DOMAIN s : s[i] = d})
Found(d) == IF task.pc = "find" /\ task.sel = d THEN 1 ELSE 0
SetInv ==
  /\ inset = Grouped
  /\ \A i \in DOMAIN set : set[i] \in inset
  /\ \A d \in valid \cup inset : Count(set, d) + Found(d) = Len(queue[d])

-----------------------------------------------------------------------------
(* What Linux has read and what is on its way, in this order: place 0 is    *)
(* what it knows.  A message says where a device is, or tells that it is    *)
(* there, and is live if the device is not destroyed behind it.             *)
Says(ch, t, i, d, a) ==
  IF i = 0 THEN [dev |-> d, addr |-> a] \in ch
           ELSE t[i].kind # "destroy" /\ t[i].dev = d /\ t[i].from = a
Tells(ch, t, i, d) ==
  IF i = 0 THEN \E c \in ch : c.dev = d ELSE t[i].kind = "create" /\ t[i].dev = d
Kept(t, i, j, d) == \A k \in i + 1 .. j : ~(t[k].kind = "destroy" /\ t[k].dev = d)

Agree(ch, t) ==
  \A i, j \in 0 .. Len(t) : i <= j =>
    \A d \in Devices, a, b \in Addrs :
      Says(ch, t, i, d, a) /\ Says(ch, t, j, d, b) /\ Kept(t, i, j, d) => a = b
Preceded(ch, t) ==
  \A i \in 1 .. Len(t) : t[i].kind = "data" =>
    \E j \in 0 .. i - 1 : Tells(ch, t, j, t[i].dev) /\ Kept(t, j, i, t[i].dev)
Live(ch, t, d, a) == \E i \in 0 .. Len(t) : Says(ch, t, i, d, a) /\ Kept(t, i, Len(t), d)
Told(ch, t, d) == \E i \in 0 .. Len(t) : Tells(ch, t, i, d) /\ Kept(t, i, Len(t), d)
Mentioned(ch, t, d) == \E i \in 0 .. Len(t), a \in Addrs : Says(ch, t, i, d, a)

(* A device that was added before the link came up, and is not yet announced. *)
Fresh(d) ==
  /\ task.pc \in {"down", "bind", "announce"}
  /\ ~Mentioned(channels, tx, d)
  /\ d \in valid => dst[d] = RL_ADDR_ANY
  /\ \A i \in DOMAIN rx : rx[i].to = Ns => rx[i].src # d

HostInv ==
  /\ Agree(channels, tx) /\ Preceded(channels, tx)
  /\ \A d \in Devices, a \in Addrs : Live(channels, tx, d, a) => d \in Public /\ addr[d] = a
  /\ \A d \in Known : Told(channels, tx, d) \/ Fresh(d)
  /\ ~link => /\ channels = {} /\ tx = <<>> /\ rx = <<>>
              /\ task.pc = "down" /\ app.pc \notin {"announce", "destroy"}

(* The walks: the queue selected is ahead, and so are the devices to be     *)
(* announced.                                                               *)
Ordered(r) ==
  /\ InOrder(next, Listed, r)
  /\ task.pc = "find" => r[task.sel] <= r[task.cur]
  /\ task.pc = "announce" =>
       \A d \in Known : Told(channels, tx, d) \/ (task.cur # NULL /\ r[d] <= r[task.cur])
OrderInv == \E r \in Ranks : Ordered(r)

(* The inductive invariant. *)
DInv == TypeOK /\ AppInv /\ AddrInv /\ TaskInv /\ OvertakeInv /\ OrderInv /\ SetInv /\ CanAnswer /\ HostInv
IInv == Firm => DInv

-----------------------------------------------------------------------------
(* A new device is put in front of the list. *)
LEMMA InsertOrder ==
  ASSUME NEW nx \in [Devices \cup {Anchor} -> Devices \cup {NULL}], NEW L \in SUBSET Devices,
         NEW r \in Ranks, InOrder(nx, L, r), NEW d \in Devices, d \notin L
  PROVE  LET nx2 == [nx EXCEPT ![Anchor] = d, ![d] = nx[Anchor]]
             r2 == [r EXCEPT ![d] = r[Anchor], ![Anchor] = r[Anchor] + 1]
         IN  r2 \in Ranks /\ InOrder(nx2, L \cup {d}, r2)
  <1> DEFINE nx2 == [nx EXCEPT ![Anchor] = d, ![d] = nx[Anchor]]
             r2 == [r EXCEPT ![d] = r[Anchor], ![Anchor] = r[Anchor] + 1]
  <1>0. Anchor \notin Devices /\ NULL \notin Devices
    BY DevicesAssumption
  <1>1. r2 \in Ranks /\ r2[d] = r[Anchor] /\ r2[Anchor] = r[Anchor] + 1
        /\ \A x \in L : r2[x] = r[x]
    BY <1>0 DEF Ranks
  <1>2. nx2[Anchor] = d /\ nx2[d] = nx[Anchor] /\ \A x \in L : nx2[x] = nx[x]
    BY <1>0
  <1>3. \A x \in L : r[x] \in Nat
    BY DEF Ranks
  <1>4. r[Anchor] \in Nat
    BY DEF Ranks
  <1> HIDE DEF nx2, r2
  <1>5. \A x, y \in L \cup {d} : r2[x] = r2[y] => x = y
    BY <1>1, <1>3, <1>4 DEF InOrder
  <1>6. \A x \in L \cup {d} : r2[x] < r2[Anchor]
    BY <1>1, <1>3, <1>4 DEF InOrder
  <1>7. ASSUME NEW x \in L \cup {d, Anchor}
        PROVE  /\ nx2[x] \in L \cup {d, NULL}
               /\ nx2[x] # NULL => r2[nx2[x]] < r2[x]
               /\ \A y \in L \cup {d} : r2[y] < r2[x] => nx2[x] # NULL /\ r2[y] <= r2[nx2[x]]
    <2>1. CASE x = Anchor
      BY <1>0, <1>1, <1>2, <1>3, <1>4, <2>1 DEF InOrder
    <2>2. CASE x = d
      BY <1>0, <1>1, <1>2, <1>3, <1>4, <2>2 DEF InOrder
    <2>3. CASE x \in L
      BY <1>0, <1>1, <1>2, <1>3, <1>4, <2>3 DEF InOrder
    <2> QED BY <2>1, <2>2, <2>3
  <1>8. InOrder(nx2, L \cup {d}, r2)
    BY <1>5, <1>6, <1>7 DEF InOrder
  <1> QED BY <1>1, <1>8 DEF nx2, r2

(* A device is taken out of the list. *)
LEMMA RemoveOrder ==
  ASSUME NEW nx \in [Devices \cup {Anchor} -> Devices \cup {NULL}], NEW L \in SUBSET Devices,
         NEW r \in Ranks, InOrder(nx, L, r), NEW d \in L,
         NEW nx2, \A x \in L \cup {Anchor} : nx2[x] = IF nx[x] = d THEN nx[d] ELSE nx[x]
  PROVE  InOrder(nx2, L \ {d}, r)
  <1>0. Anchor \notin Devices /\ NULL \notin Devices
    BY DevicesAssumption
  <1>3. \A x \in L \cup {Anchor} : r[x] \in Nat
    BY DEF Ranks
  <1>4. nx[d] # d
    BY <1>0, <1>3 DEF InOrder
  <1>5. ASSUME NEW x \in (L \ {d}) \cup {Anchor}
        PROVE  /\ nx2[x] \in (L \ {d}) \cup {NULL}
               /\ nx2[x] # NULL => r[nx2[x]] < r[x]
               /\ \A y \in L \ {d} : r[y] < r[x] => nx2[x] # NULL /\ r[y] <= r[nx2[x]]
    <2>0. /\ nx[x] \in L \cup {NULL} /\ (nx[x] # NULL => r[nx[x]] < r[x])
          /\ \A y \in L : r[y] < r[x] => nx[x] # NULL /\ r[y] <= r[nx[x]]
      BY DEF InOrder
    <2>d. /\ nx[d] \in L \cup {NULL} /\ (nx[d] # NULL => r[nx[d]] < r[d])
          /\ \A y \in L : r[y] < r[d] => nx[d] # NULL /\ r[y] <= r[nx[d]]
      BY DEF InOrder
    <2>1. CASE nx[x] = d
      <3>1. nx2[x] = nx[d]
        BY <2>1
      <3>2. r[d] < r[x]
        BY <2>0, <2>1, <1>0
      <3>3. \A y \in L \ {d} : r[y] < r[x] => r[y] < r[d]
        BY <2>0, <2>1, <1>3 DEF InOrder
      <3> QED BY <3>1, <3>2, <3>3, <2>d, <1>3, <1>4
    <2>2. CASE nx[x] # d
      BY <2>2, <2>0
    <2> QED BY <2>1, <2>2
  <1> QED BY <1>5 DEF InOrder

(* The walk visits what is in order. *)
LEMMA WalkOrder ==
  ASSUME NEW L \in SUBSET Devices, NEW r \in Ranks, InOrder(next, L, r)
  PROVE  Linked = L
  <1>0. Anchor \notin Devices /\ NULL \notin Devices
    BY DevicesAssumption
  <1>1. \A x \in L \cup {Anchor} : r[x] \in Nat
    BY DEF Ranks
  <1>2. Closed(L)
    BY DEF Closed, InOrder
  <1>3. ASSUME NEW S \in SUBSET Devices, Closed(S), NEW d \in L, d \notin S
        PROVE  FALSE
    <2> DEFINE A == {r[x] : x \in {z \in (S \cap L) \cup {Anchor} : r[d] < r[z]}}
    <2>1. r[Anchor] \in A
      BY DEF InOrder
    <2>2. A \in SUBSET Nat
      BY <1>1
    <2> HIDE DEF A
    <2>3. PICK l \in A : \A k \in A : l <= k
      BY <2>1, <2>2, LeastExists
    <2>4. PICK x \in (S \cap L) \cup {Anchor} : r[x] = l /\ r[d] < r[x]
      BY <2>3 DEF A
    <2>5. /\ next[x] # NULL /\ next[x] \in L /\ r[d] <= r[next[x]] /\ r[next[x]] < r[x]
      BY <2>4 DEF InOrder
    <2>6. next[x] \in S
      BY <2>4, <2>5, <1>3 DEF Closed
    <2>7. r[d] # r[next[x]]
      BY <2>5, <2>6, <1>3 DEF InOrder
    <2>8. r[next[x]] \in A
      BY <2>5, <2>6, <2>7, <1>1 DEF A
    <2> QED BY <2>3, <2>4, <2>5, <2>8, <1>1
  <1> QED BY <1>2, <1>3 DEF Linked


(* There is an address left for a device that has none. *)
LEMMA AddressLeft ==
  ASSUME addr \in [Devices -> Addrs \cup {NoAddr}], NEW d \in Devices, addr[d] = NoAddr
  PROVE  FreeAddr \in Addrs /\ \A e \in Devices : addr[e] # FreeAddr
  <1> DEFINE A == {a \in Addrs : a \notin Range(addr)}
             f == [a \in Addrs |-> CHOOSE x \in Devices : addr[x] = a]
             n == Cardinality(Devices)
  <1>0. IsFiniteSet(Devices) /\ n \in Nat
    BY DevicesAssumption, FS_CardinalityType
  <1>1. n >= 1 /\ IsFiniteSet(Devices \ {d}) /\ Cardinality(Devices \ {d}) = n - 1
    <2>1. Cardinality(Devices \ {d}) = n - 1 /\ IsFiniteSet(Devices \ {d})
      BY <1>0, FS_RemoveElement
    <2>2. Cardinality(Devices \ {d}) \in Nat
      BY <2>1, FS_CardinalityType
    <2> QED BY <2>1, <2>2, <1>0
  <1> HIDE DEF n
  <1>2. Addrs = 1 .. n /\ IsFiniteSet(1 .. n) /\ Cardinality(1 .. n) = n
    BY <1>0, <1>1, FS_Interval DEF Addrs, n
  <1>3. A # {}
    <2> SUFFICES ASSUME A = {} PROVE FALSE
      OBVIOUS
    <2>1. \A a \in Addrs : f[a] \in Devices /\ addr[f[a]] = a
      BY DEF Range
    <2>2. \A a \in Addrs : a # NoAddr
      BY <1>2, <1>0 DEF NoAddr
    <2>3. f \in [Addrs -> Devices \ {d}]
      BY <2>1, <2>2
    <2> HIDE DEF f
    <2>4. PICK x, y \in Addrs : x # y /\ f[x] = f[y]
      <3>1. IsFiniteSet(Addrs) /\ Cardinality(Devices \ {d}) < Cardinality(Addrs)
        BY <1>0, <1>1, <1>2
      <3> QED BY <3>1, <1>1, <2>3, FS_PigeonHole
    <2> QED BY <2>1, <2>4
  <1>4. A \in SUBSET Nat
    BY <1>2, <1>0
  <1> HIDE DEF A
  <1>5. PICK l \in A : \A k \in A : l <= k
    BY <1>3, <1>4, LeastExists
  <1>6. l \in Addrs /\ l \notin Range(addr) /\ \A b \in 1 .. l - 1 : b \in Range(addr)
    <2>1. l \in Addrs /\ l \notin Range(addr)
      BY <1>5 DEF A
    <2>2. ASSUME NEW b \in 1 .. l - 1 PROVE b \in Range(addr)
      <3>1. b \in Addrs /\ b < l
        BY <2>1, <1>2, <1>0
      <3> QED BY <3>1, <1>5, <1>4, <1>2, <1>0 DEF A
    <2> QED BY <2>1, <2>2
  <1>7. FreeAddr \in Addrs /\ FreeAddr \notin Range(addr)
    BY <1>6 DEF FreeAddr
  <1> QED BY <1>7 DEF Range

-----------------------------------------------------------------------------
(* Counting the messages in the queue set. *)
LEMMA CountType ==
  ASSUME NEW s \in Seq(Devices), NEW d
  PROVE  Count(s, d) \in Nat /\ IsFiniteSet({i \in DOMAIN s : s[i] = d})
  <1>1. IsFiniteSet(1 .. Len(s))
    BY FS_Interval
  <1>2. IsFiniteSet({i \in DOMAIN s : s[i] = d})
    BY <1>1, FS_Subset
  <1> QED BY <1>2, FS_CardinalityType DEF Count

LEMMA CountEmpty == \A d : Count(<<>>, d) = 0
  <1>1. \A d : {i \in DOMAIN <<>> : <<>>[i] = d} = {}
    OBVIOUS
  <1> QED BY <1>1, FS_EmptySet DEF Count

LEMMA CountAppend ==
  ASSUME NEW s \in Seq(Devices), NEW e \in Devices, NEW d \in Devices
  PROVE  Count(Append(s, e), d) = Count(s, d) + IF e = d THEN 1 ELSE 0
  <1> DEFINE S == {i \in DOMAIN s : s[i] = d}
             T == {i \in DOMAIN Append(s, e) : Append(s, e)[i] = d}
  <1>1. IsFiniteSet(S) /\ Cardinality(S) \in Nat
    BY CountType DEF Count
  <1>2. DOMAIN Append(s, e) = 1 .. Len(s) + 1 /\ DOMAIN s = 1 .. Len(s) /\ Len(s) \in Nat
    OBVIOUS
  <1>3. Append(s, e)[Len(s) + 1] = e /\ \A i \in 1 .. Len(s) : Append(s, e)[i] = s[i]
    OBVIOUS
  <1>4. CASE e = d
    <2>1. T = S \cup {Len(s) + 1}
      BY <1>2, <1>3, <1>4
    <2>2. Len(s) + 1 \notin S
      BY <1>2
    <2> HIDE DEF S, T
    <2>3. Cardinality(T) = Cardinality(S) + 1
      BY <2>1, <2>2, <1>1, FS_AddElement
    <2> QED BY <2>3, <1>4 DEF S, T, Count
  <1>5. CASE e # d
    <2>0. Count(s, d) = Cardinality(S) /\ Count(Append(s, e), d) = Cardinality(T)
      BY DEF Count
    <2>1. T = S
      BY <1>2, <1>3, <1>5
    <2> HIDE DEF S, T
    <2> QED BY <2>0, <2>1, <1>5, <1>1
  <1> QED BY <1>4, <1>5

LEMMA CountTail ==
  ASSUME NEW s \in Seq(Devices), s # <<>>, NEW d \in Devices
  PROVE  Count(s, d) = Count(Tail(s), d) + IF Head(s) = d THEN 1 ELSE 0
  <1> DEFINE S == {i \in DOMAIN Tail(s) : Tail(s)[i] = d}
             T == {i \in DOMAIN s : s[i] = d}
             f == [i \in S |-> i + 1]
  <1>0. Tail(s) \in Seq(Devices)
    OBVIOUS
  <1>1. IsFiniteSet(S) /\ Cardinality(S) \in Nat
    BY <1>0, CountType DEF Count
  <1>c. Count(Tail(s), d) = Cardinality(S) /\ Count(s, d) = Cardinality(T)
    BY DEF Count
  <1>2. /\ DOMAIN s = 1 .. Len(s) /\ DOMAIN Tail(s) = 1 .. Len(s) - 1 /\ Len(s) \in Nat \ {0}
        /\ Head(s) = s[1] /\ \A i \in 1 .. Len(s) - 1 : Tail(s)[i] = s[i + 1]
    OBVIOUS
  <1>3. \A i \in S : f[i] \in T \ {1}
    BY <1>2
  <1>4. ASSUME NEW j \in T \ {1} PROVE j - 1 \in S /\ f[j - 1] = j
    <2>1. j \in 1 .. Len(s) /\ j # 1 /\ s[j] = d
      BY <1>2
    <2>2. j - 1 \in 1 .. Len(s) - 1 /\ (j - 1) + 1 = j
      BY <2>1, <1>2
    <2>3. Tail(s)[j - 1] = d
      BY <2>1, <2>2, <1>2
    <2> QED BY <2>2, <2>3, <1>2
  <1>5. f \in Bijection(S, T \ {1})
    <2>1. f \in [S -> T \ {1}]
      BY <1>3
    <2>2. \A i, j \in S : f[i] = f[j] => i = j
      BY <1>2
    <2>3. \A j \in T \ {1} : \E i \in S : f[i] = j
      BY <1>4
    <2> DEFINE R == T \ {1}
    <2> HIDE DEF f, S, T, R
    <2>4. f \in Injection(S, R) /\ f \in Surjection(S, R)
      BY <2>1, <2>2, <2>3 DEF Injection, IsInjective, Surjection, R
    <2> QED BY <2>4 DEF Bijection, R
  <1>6. Cardinality(T \ {1}) = Cardinality(S) /\ IsFiniteSet(T \ {1})
    <2> HIDE DEF f, S, T
    <2> QED BY <1>5, <1>1, FS_Bijection DEF ExistsBijection
  <1>7. CASE Head(s) = d
    <2>1. T = (T \ {1}) \cup {1}
      BY <1>2, <1>7
    <2> HIDE DEF f, S, T
    <2>2. Cardinality(T) = Cardinality(S) + 1
      BY <2>1, <1>6, FS_AddElement
    <2> QED BY <2>2, <1>7 DEF S, T, Count
  <1>8. CASE Head(s) # d
    <2>1. T = T \ {1}
      BY <1>2, <1>8
    <2>2. Cardinality(T) = Cardinality(T \ {1})
      BY <2>1, Zenon
    <2> HIDE DEF f, S, T
    <2> QED BY <2>2, <1>6, <1>8, <1>1, <1>c
  <1> QED BY <1>7, <1>8


-----------------------------------------------------------------------------
(* What Linux knows after it has read the oldest message, see HostRead. *)
After(ch, m) ==
  LET known == \E c \in ch : c.dev = m.dev
  IN  CASE m.kind = "create" /\ ~known -> ch \cup {[dev |-> m.dev, addr |-> m.from]}
        [] m.kind = "destroy" -> {c \in ch : c.dev # m.dev}
        [] OTHER -> ch

Chs == SUBSET [dev : Devices, addr : Addrs]

LEMMA KeptParts ==
  ASSUME NEW t, NEW i \in Nat, NEW j \in Nat, NEW k \in Nat, NEW d, i <= j, j <= k
  PROVE  Kept(t, i, k, d) <=> Kept(t, i, j, d) /\ Kept(t, j, k, d)
  BY DEF Kept

(* The places move up, and what is said at the first of them was said at    *)
(* one of the first two.                                                    *)
LEMMA ReadPlaces ==
  ASSUME NEW ch \in Chs, NEW t \in Seq(Message), t # <<>>
  PROVE  /\ Tail(t) \in Seq(Message) /\ Len(Tail(t)) = Len(t) - 1 /\ Len(t) \in Nat \ {0}
         /\ \A i \in 1 .. Len(t) - 1 : Tail(t)[i] = t[i + 1]
         /\ After(ch, Head(t)) \in Chs
         /\ \A d \in Devices, a \in Addrs :
              Says(After(ch, Head(t)), Tail(t), 0, d, a) =>
                \E p \in {0, 1} : Says(ch, t, p, d, a) /\ Kept(t, p, 1, d)
         /\ \A d \in Devices, p \in {0, 1} :
              Tells(ch, t, p, d) /\ Kept(t, p, 1, d) => Tells(After(ch, Head(t)), Tail(t), 0, d)
         /\ \A d \in Devices, i \in 0 .. Len(t) - 1, j \in 0 .. Len(t) - 1 :
              Kept(Tail(t), i, j, d) <=> Kept(t, i + 1, j + 1, d)
  <1> DEFINE m == Head(t)
             ch2 == After(ch, m)
  <1>1. /\ Tail(t) \in Seq(Message) /\ Len(Tail(t)) = Len(t) - 1 /\ Len(t) \in Nat \ {0}
        /\ \A i \in 1 .. Len(t) - 1 : Tail(t)[i] = t[i + 1]
        /\ m = t[1] /\ m \in Message
    OBVIOUS
  <1>2. \A d : Kept(t, 1, 1, d) /\ (Kept(t, 0, 1, d) <=> ~(m.kind = "destroy" /\ m.dev = d))
    <2>1. 1 + 1 .. 1 = {} /\ 0 + 1 .. 1 = {1}
      OBVIOUS
    <2> QED BY <2>1, <1>1 DEF Kept
  <1>3. /\ m.kind \in {"create", "destroy", "data"} /\ m.from \in Addrs /\ m.dev \in Devices
    BY <1>1 DEF Message
  <1> DEFINE known == \E c \in ch : c.dev = m.dev
  <1>4. /\ m.kind = "create" /\ ~known => ch2 = ch \cup {[dev |-> m.dev, addr |-> m.from]}
        /\ m.kind = "create" /\ known => ch2 = ch
        /\ m.kind = "destroy" => ch2 = {c \in ch : c.dev # m.dev}
        /\ m.kind = "data" => ch2 = ch
    BY DEF After
  <1>5. ch2 \in Chs
    BY <1>3, <1>4 DEF Chs
  <1> HIDE DEF m, ch2
  <1>6. ASSUME NEW d \in Devices, NEW a \in Addrs, Says(ch2, Tail(t), 0, d, a)
        PROVE  \E p \in {0, 1} : Says(ch, t, p, d, a) /\ Kept(t, p, 1, d)
    <2>0. [dev |-> d, addr |-> a] \in ch2
      BY <1>6 DEF Says
    <2>1. CASE m.kind = "destroy"
      <3>1. [dev |-> d, addr |-> a] \in ch /\ d # m.dev
        BY <2>0, <2>1, <1>4
      <3> QED BY <3>1, <1>2 DEF Says
    <2>2. CASE m.kind # "destroy" /\ [dev |-> d, addr |-> a] \in ch
      BY <2>2, <1>2 DEF Says
    <2>3. CASE m.kind # "destroy" /\ [dev |-> d, addr |-> a] \notin ch
      <3>1. m.kind = "create" /\ [dev |-> d, addr |-> a] = [dev |-> m.dev, addr |-> m.from]
        BY <2>0, <2>3, <1>3, <1>4
      <3>2. d = m.dev /\ a = m.from
        BY <3>1
      <3> QED BY <3>1, <3>2, <1>1, <1>2 DEF Says
    <2> QED BY <2>1, <2>2, <2>3
  <1>7. ASSUME NEW d \in Devices, NEW p \in {0, 1}, Tells(ch, t, p, d), Kept(t, p, 1, d)
        PROVE  Tells(ch2, Tail(t), 0, d)
    <2> SUFFICES \E c \in ch2 : c.dev = d
      BY DEF Tells
    <2>1. CASE p = 1
      <3>1. m.kind = "create" /\ m.dev = d
        BY <1>7, <2>1, <1>1 DEF Tells
      <3>2. CASE known
        BY <3>1, <3>2, <1>4
      <3>3. CASE ~known
        <4>1. [dev |-> m.dev, addr |-> m.from] \in ch2
          BY <3>1, <3>3, <1>4
        <4> QED BY <4>1, <3>1
      <3> QED BY <3>2, <3>3
    <2>2. CASE p = 0
      <3>1. PICK c \in ch : c.dev = d
        BY <1>7, <2>2 DEF Tells
      <3>2. ~(m.kind = "destroy" /\ m.dev = d)
        BY <1>7, <2>2, <1>2
      <3>3. c \in ch2
        BY <3>1, <3>2, <1>3, <1>4
      <3> QED BY <3>1, <3>3
    <2> QED BY <2>1, <2>2
  <1>8. ASSUME NEW d \in Devices, NEW i \in 0 .. Len(t) - 1, NEW j \in 0 .. Len(t) - 1
        PROVE  Kept(Tail(t), i, j, d) <=> Kept(t, i + 1, j + 1, d)
    <2>1. ASSUME NEW k \in i + 1 .. j PROVE Tail(t)[k] = t[k + 1] /\ k + 1 \in i + 1 + 1 .. j + 1
      BY <1>1
    <2>2. ASSUME NEW k \in i + 1 + 1 .. j + 1 PROVE k - 1 \in i + 1 .. j /\ Tail(t)[k - 1] = t[k]
      <3>1. k - 1 \in 1 .. Len(t) - 1 /\ k - 1 \in i + 1 .. j /\ (k - 1) + 1 = k
        BY <1>1
      <3> QED BY <3>1, <1>1
    <2>3. ASSUME Kept(Tail(t), i, j, d) PROVE Kept(t, i + 1, j + 1, d)
      <3> SUFFICES ASSUME NEW k \in i + 1 + 1 .. j + 1
                   PROVE  ~(t[k].kind = "destroy" /\ t[k].dev = d)
        BY DEF Kept
      <3>1. ~(Tail(t)[k - 1].kind = "destroy" /\ Tail(t)[k - 1].dev = d)
        BY <2>2, <2>3 DEF Kept
      <3> QED BY <3>1, <2>2
    <2>4. ASSUME Kept(t, i + 1, j + 1, d) PROVE Kept(Tail(t), i, j, d)
      <3> SUFFICES ASSUME NEW k \in i + 1 .. j
                   PROVE  ~(Tail(t)[k].kind = "destroy" /\ Tail(t)[k].dev = d)
        BY DEF Kept
      <3>1. ~(t[k + 1].kind = "destroy" /\ t[k + 1].dev = d)
        BY <2>1, <2>4 DEF Kept
      <3> QED BY <3>1, <2>1
    <2> QED BY <2>3, <2>4
  <1> QED BY <1>1, <1>5, <1>6, <1>7, <1>8 DEF m, ch2

(* Reading keeps what is said in agreement. *)
LEMMA ReadView ==
  ASSUME NEW ch \in Chs, NEW t \in Seq(Message), t # <<>>, Agree(ch, t), Preceded(ch, t)
  PROVE  LET ch2 == After(ch, Head(t))
             t2 == Tail(t)
         IN  /\ ch2 \in Chs /\ Agree(ch2, t2) /\ Preceded(ch2, t2)
             /\ \A d \in Devices : /\ \A a \in Addrs : Live(ch2, t2, d, a) => Live(ch, t, d, a)
                                   /\ Told(ch, t, d) => Told(ch2, t2, d)
                                   /\ Mentioned(ch2, t2, d) => Mentioned(ch, t, d)
  <1> DEFINE ch2 == After(ch, Head(t))
             t2 == Tail(t)
             n == Len(t)
  <1>1. /\ t2 \in Seq(Message) /\ Len(t2) = n - 1 /\ n \in Nat \ {0}
        /\ \A i \in 1 .. n - 1 : t2[i] = t[i + 1]
        /\ ch2 \in Chs
    BY ReadPlaces
  <1>2. \A d \in Devices, a \in Addrs : Says(ch2, t2, 0, d, a) =>
          \E p \in {0, 1} : Says(ch, t, p, d, a) /\ Kept(t, p, 1, d)
    BY ReadPlaces
  <1>3. \A d \in Devices, p \in {0, 1} :
          Tells(ch, t, p, d) /\ Kept(t, p, 1, d) => Tells(ch2, t2, 0, d)
    BY ReadPlaces
  <1>4. \A d \in Devices, i \in 0 .. n - 1, j \in 0 .. n - 1 : Kept(t2, i, j, d) <=> Kept(t, i + 1, j + 1, d)
    BY ReadPlaces
  <1> HIDE DEF ch2, t2, n
  <1>5. \A d \in Devices, a \in Addrs, i \in 1 .. n - 1 : Says(ch2, t2, i, d, a) <=> Says(ch, t, i + 1, d, a)
    BY <1>1 DEF Says
  <1>6. \A d \in Devices, i \in 1 .. n - 1 : Tells(ch2, t2, i, d) <=> Tells(ch, t, i + 1, d)
    BY <1>1 DEF Tells
  <1>7. ASSUME NEW d \in Devices, NEW a \in Addrs, NEW i \in 0 .. n - 1, Says(ch2, t2, i, d, a)
        PROVE  \E p \in 0 .. n : /\ p <= i + 1 /\ (i # 0 => p = i + 1)
                                 /\ Says(ch, t, p, d, a) /\ Kept(t, p, i + 1, d)
    <2>1. CASE i = 0
      <3>1. PICK p \in {0, 1} : Says(ch, t, p, d, a) /\ Kept(t, p, 1, d)
        BY <1>2, <1>7, <2>1
      <3>2. p \in 0 .. n /\ p <= i + 1 /\ i + 1 = 1
        BY <2>1, <1>1
      <3> QED BY <3>1, <3>2, <2>1
    <2>2. CASE i # 0
      <3>1. Says(ch, t, i + 1, d, a)
        BY <2>2, <1>5, <1>7
      <3>2. Kept(t, i + 1, i + 1, d)
        BY DEF Kept
      <3> QED BY <3>1, <3>2, <1>1
    <2> QED BY <2>1, <2>2
  <1>8. Agree(ch2, t2)
    <2> SUFFICES ASSUME NEW i \in 0 .. n - 1, NEW j \in 0 .. n - 1, i <= j,
                        NEW d \in Devices, NEW a \in Addrs, NEW b \in Addrs,
                        Says(ch2, t2, i, d, a), Says(ch2, t2, j, d, b), Kept(t2, i, j, d)
                 PROVE  a = b
      BY <1>1 DEF Agree
    <2>1. PICK p \in 0 .. n : /\ p <= i + 1 /\ (i # 0 => p = i + 1)
                              /\ Says(ch, t, p, d, a) /\ Kept(t, p, i + 1, d)
      BY <1>7
    <2>2. PICK q \in 0 .. n : /\ q <= j + 1 /\ (j # 0 => q = j + 1)
                              /\ Says(ch, t, q, d, b) /\ Kept(t, q, j + 1, d)
      BY <1>7
    <2>3. Kept(t, i + 1, j + 1, d)
      BY <1>4
    <2>4. Kept(t, p, j + 1, d)
      BY <2>1, <2>3, <1>1, KeptParts
    <2>5. CASE p <= q
      <3>1. Kept(t, p, q, d)
        BY <2>4, <2>5, <2>2, <1>1, KeptParts
      <3> QED BY <3>1, <2>1, <2>2, <2>5 DEF Agree, n
    <2>6. CASE q < p
      <3>1. Kept(t, q, p, d)
        <4>1. p <= j + 1
          BY <2>1, <1>1
        <4> QED BY <4>1, <2>2, <2>6, <1>1, KeptParts
      <3> QED BY <3>1, <2>1, <2>2, <2>6, <1>1 DEF Agree, n
    <2> QED BY <2>5, <2>6, <1>1
  <1>9. ASSUME NEW d \in Devices, NEW j \in 0 .. n, NEW l \in 1 .. n, j <= l, Tells(ch, t, j, d), Kept(t, j, l, d)
        PROVE  \E i \in 0 .. n - 1 : (i = j - 1 \/ i = 0) /\ Tells(ch2, t2, i, d) /\ Kept(t2, i, l - 1, d)
    <2>1. CASE j \in {0, 1}
      <3>1. Kept(t, j, 1, d) /\ Kept(t, 1, l, d)
        BY <1>9, <2>1, <1>1, KeptParts
      <3>2. Tells(ch2, t2, 0, d)
        BY <3>1, <1>3, <1>9, <2>1
      <3>3. Kept(t2, 0, l - 1, d)
        <4>1. 0 \in 0 .. n - 1 /\ l - 1 \in 0 .. n - 1 /\ 0 + 1 = 1 /\ (l - 1) + 1 = l
          BY <1>1
        <4>2. Kept(t2, 0, l - 1, d) <=> Kept(t, 0 + 1, (l - 1) + 1, d)
          BY <4>1, <1>4
        <4> QED BY <4>1, <4>2, <3>1
      <3> QED BY <3>2, <3>3, <1>1
    <2>2. CASE j \notin {0, 1}
      <3>1. j - 1 \in 1 .. n - 1 /\ l - 1 \in 0 .. n - 1 /\ (j - 1) + 1 = j /\ (l - 1) + 1 = l
        BY <2>2, <1>1
      <3>2. Tells(ch2, t2, j - 1, d) <=> Tells(ch, t, (j - 1) + 1, d)
        BY <3>1, <1>6
      <3>3. Kept(t2, j - 1, l - 1, d) <=> Kept(t, (j - 1) + 1, (l - 1) + 1, d)
        BY <3>1, <1>4, <1>1
      <3>4. Tells(ch2, t2, j - 1, d) /\ Kept(t2, j - 1, l - 1, d)
        BY <3>1, <3>2, <3>3, <1>9
      <3> QED BY <3>1, <3>4
    <2> QED BY <2>1, <2>2
  <1>10. Preceded(ch2, t2)
    <2> SUFFICES ASSUME NEW i \in 1 .. n - 1, t2[i].kind = "data"
                 PROVE  \E j \in 0 .. i - 1 : Tells(ch2, t2, j, t2[i].dev) /\ Kept(t2, j, i, t2[i].dev)
      BY <1>1 DEF Preceded
    <2>1. PICK d : d = t2[i].dev
      OBVIOUS
    <2>2. i + 1 \in 1 .. n /\ t[i + 1].kind = "data" /\ t[i + 1].dev = d /\ d \in Devices
      <3>1. i + 1 \in 1 .. n /\ t2[i] = t[i + 1]
        BY <1>1
      <3>2. t[i + 1] \in Message
        BY <3>1 DEF n
      <3> QED BY <3>1, <3>2, <2>1 DEF Message
    <2>3. PICK j \in 0 .. (i + 1) - 1 : Tells(ch, t, j, d) /\ Kept(t, j, i + 1, d)
      BY <2>2 DEF Preceded, n
    <2>4. j \in 0 .. n /\ j <= i + 1 /\ (i + 1) - 1 = i
      BY <2>3, <1>1
    <2>5. PICK k \in 0 .. n - 1 : (k = j - 1 \/ k = 0) /\ Tells(ch2, t2, k, d) /\ Kept(t2, k, (i + 1) - 1, d)
      BY <1>9, <2>2, <2>3, <2>4
    <2>6. k \in 0 .. i - 1
      BY <2>5, <2>3, <1>1
    <2> QED BY <2>1, <2>4, <2>5, <2>6
  <1>11. ASSUME NEW d \in Devices PROVE Told(ch, t, d) => Told(ch2, t2, d)
    BY <1>9, <1>1 DEF Told, n
  <1>12. ASSUME NEW d \in Devices, NEW a \in Addrs, Live(ch2, t2, d, a) PROVE Live(ch, t, d, a)
    <2>1. PICK i \in 0 .. n - 1 : Says(ch2, t2, i, d, a) /\ Kept(t2, i, n - 1, d)
      BY <1>12, <1>1 DEF Live
    <2>2. PICK p \in 0 .. n : p <= i + 1 /\ Says(ch, t, p, d, a) /\ Kept(t, p, i + 1, d)
      BY <1>7, <2>1
    <2>3. Kept(t, i + 1, n, d)
      BY <2>1, <1>4, <1>1
    <2>4. Kept(t, p, n, d)
      BY <2>2, <2>3, <1>1, KeptParts
    <2> QED BY <2>2, <2>4 DEF Live, n
  <1>13. ASSUME NEW d \in Devices PROVE Mentioned(ch2, t2, d) => Mentioned(ch, t, d)
    BY <1>7, <1>1 DEF Mentioned, n
  <1> QED BY <1>1, <1>8, <1>10, <1>11, <1>12, <1>13 DEF ch2, t2


(* Sending keeps what is said in agreement: a device is announced at its    *)
(* address, and sends data only if it is announced.                         *)
LEMMA AppendView ==
  ASSUME NEW ch \in Chs, NEW t \in Seq(Message), Agree(ch, t), Preceded(ch, t), NEW m \in Message,
         m.kind # "destroy" => \A a \in Addrs : Live(ch, t, m.dev, a) => a = m.from,
         m.kind = "data" => Told(ch, t, m.dev)
  PROVE  LET t2 == Append(t, m)
         IN  /\ Agree(ch, t2) /\ Preceded(ch, t2)
             /\ \A d \in Devices, a \in Addrs : Live(ch, t2, d, a) =>
                  \/ Live(ch, t, d, a) /\ ~(m.kind = "destroy" /\ m.dev = d)
                  \/ m.kind # "destroy" /\ d = m.dev /\ a = m.from
             /\ \A d \in Devices : Told(ch, t, d) /\ ~(m.kind = "destroy" /\ m.dev = d) => Told(ch, t2, d)
             /\ m.kind = "create" => Told(ch, t2, m.dev)
             /\ \A d \in Devices : d # m.dev /\ Mentioned(ch, t2, d) => Mentioned(ch, t, d)
  <1> DEFINE t2 == Append(t, m)
             n == Len(t)
  <1>1. /\ t2 \in Seq(Message) /\ Len(t2) = n + 1 /\ n \in Nat /\ t2[n + 1] = m
        /\ \A i \in 1 .. n : t2[i] = t[i]
    OBVIOUS
  <1>m. m.dev \in Devices /\ m.from \in Addrs
    BY DEF Message
  <1> HIDE DEF t2, n
  <1>2. \A d \in Devices, a \in Addrs, i \in 0 .. n : Says(ch, t2, i, d, a) <=> Says(ch, t, i, d, a)
    BY <1>1 DEF Says
  <1>3. \A d \in Devices, i \in 0 .. n : Tells(ch, t2, i, d) <=> Tells(ch, t, i, d)
    BY <1>1 DEF Tells
  <1>4. \A d \in Devices, i \in 0 .. n, j \in 0 .. n : Kept(t2, i, j, d) <=> Kept(t, i, j, d)
    BY <1>1 DEF Kept
  <1>5. \A d \in Devices, i \in 0 .. n :
          Kept(t2, i, n + 1, d) <=> Kept(t, i, n, d) /\ ~(m.kind = "destroy" /\ m.dev = d)
    <2> SUFFICES ASSUME NEW d \in Devices, NEW i \in 0 .. n
                 PROVE  Kept(t2, i, n + 1, d) <=> Kept(t, i, n, d) /\ ~(m.kind = "destroy" /\ m.dev = d)
      OBVIOUS
    <2>1. i + 1 .. n + 1 = (i + 1 .. n) \cup {n + 1}
      BY <1>1
    <2>2. \A k \in i + 1 .. n : t2[k] = t[k]
      BY <1>1
    <2> QED BY <2>1, <2>2, <1>1 DEF Kept
  <1>6. \A d \in Devices : Kept(t2, n + 1, n + 1, d)
    BY <1>1 DEF Kept
  <1>7. \A d \in Devices, a \in Addrs :
          Says(ch, t2, n + 1, d, a) <=> m.kind # "destroy" /\ d = m.dev /\ a = m.from
    BY <1>1 DEF Says
  <1>8. Agree(ch, t2)
    <2> SUFFICES ASSUME NEW i \in 0 .. n + 1, NEW j \in 0 .. n + 1, i <= j,
                        NEW d \in Devices, NEW a \in Addrs, NEW b \in Addrs,
                        Says(ch, t2, i, d, a), Says(ch, t2, j, d, b), Kept(t2, i, j, d)
                 PROVE  a = b
      BY <1>1 DEF Agree
    <2>1. CASE j # n + 1
      <3>1. i \in 0 .. n /\ j \in 0 .. n
        BY <2>1, <1>1
      <3>2. Says(ch, t, i, d, a) /\ Says(ch, t, j, d, b) /\ Kept(t, i, j, d)
        BY <3>1, <1>2, <1>4
      <3> QED BY <3>1, <3>2 DEF Agree, n
    <2>2. CASE j = n + 1 /\ i # n + 1
      <3>1. i \in 0 .. n
        BY <2>2, <1>1
      <3>2. m.kind # "destroy" /\ d = m.dev /\ b = m.from
        BY <2>2, <1>7
      <3>3. Says(ch, t, i, d, a) /\ Kept(t, i, n, d)
        BY <3>1, <2>2, <1>2, <1>5
      <3>4. Live(ch, t, d, a)
        BY <3>1, <3>3 DEF Live, n
      <3> QED BY <3>2, <3>4
    <2>3. CASE j = n + 1 /\ i = n + 1
      BY <2>3, <1>7
    <2> QED BY <2>1, <2>2, <2>3
  <1>9. Preceded(ch, t2)
    <2> SUFFICES ASSUME NEW i \in 1 .. n + 1, t2[i].kind = "data"
                 PROVE  \E j \in 0 .. i - 1 : Tells(ch, t2, j, t2[i].dev) /\ Kept(t2, j, i, t2[i].dev)
      BY <1>1 DEF Preceded
    <2>1. CASE i # n + 1
      <3>1. i \in 1 .. n /\ t2[i] = t[i] /\ t[i].kind = "data"
        BY <2>1, <1>1
      <3>2. t[i].dev \in Devices
        <4>1. t[i] \in Message
          BY <3>1 DEF n
        <4> QED BY <4>1 DEF Message
      <3>3. PICK j \in 0 .. i - 1 : Tells(ch, t, j, t[i].dev) /\ Kept(t, j, i, t[i].dev)
        BY <3>1 DEF Preceded, n
      <3>4. j \in 0 .. n /\ i \in 0 .. n
        BY <3>1, <1>1
      <3>5. Tells(ch, t2, j, t[i].dev) /\ Kept(t2, j, i, t[i].dev)
        BY <3>2, <3>3, <3>4, <1>3, <1>4
      <3> QED BY <3>1, <3>5
    <2>2. CASE i = n + 1
      <3>1. t2[i] = m /\ m.kind = "data" /\ (n + 1) - 1 = n
        BY <2>2, <1>1
      <3>2. PICK j \in 0 .. n : Tells(ch, t, j, m.dev) /\ Kept(t, j, n, m.dev)
        BY <3>1 DEF Told, n
      <3>3. Tells(ch, t2, j, m.dev) /\ Kept(t2, j, n + 1, m.dev)
        BY <3>1, <3>2, <1>3, <1>5, <1>m
      <3> QED BY <3>1, <3>3, <2>2
    <2> QED BY <2>1, <2>2
  <1>10. ASSUME NEW d \in Devices, NEW a \in Addrs, Live(ch, t2, d, a)
         PROVE  \/ Live(ch, t, d, a) /\ ~(m.kind = "destroy" /\ m.dev = d)
                \/ m.kind # "destroy" /\ d = m.dev /\ a = m.from
    <2>1. PICK i \in 0 .. n + 1 : Says(ch, t2, i, d, a) /\ Kept(t2, i, n + 1, d)
      BY <1>10, <1>1 DEF Live
    <2>2. CASE i = n + 1
      BY <2>1, <2>2, <1>7
    <2>3. CASE i # n + 1
      <3>1. i \in 0 .. n
        BY <2>3, <1>1
      <3>2. Says(ch, t, i, d, a) /\ Kept(t, i, n, d) /\ ~(m.kind = "destroy" /\ m.dev = d)
        BY <3>1, <2>1, <1>2, <1>5
      <3> QED BY <3>1, <3>2 DEF Live, n
    <2> QED BY <2>2, <2>3
  <1>11. ASSUME NEW d \in Devices, Told(ch, t, d), ~(m.kind = "destroy" /\ m.dev = d)
         PROVE  Told(ch, t2, d)
    <2>1. PICK i \in 0 .. n : Tells(ch, t, i, d) /\ Kept(t, i, n, d)
      BY <1>11 DEF Told, n
    <2>2. Tells(ch, t2, i, d) /\ Kept(t2, i, n + 1, d) /\ i \in 0 .. n + 1
      BY <2>1, <1>11, <1>3, <1>5, <1>1
    <2> QED BY <2>2, <1>1 DEF Told
  <1>12. ASSUME m.kind = "create" PROVE Told(ch, t2, m.dev)
    <2>1. Tells(ch, t2, n + 1, m.dev) /\ n + 1 \in 0 .. n + 1
      BY <1>12, <1>1 DEF Tells
    <2> QED BY <2>1, <1>1, <1>6, <1>m DEF Told
  <1>13. ASSUME NEW d \in Devices, d # m.dev, Mentioned(ch, t2, d) PROVE Mentioned(ch, t, d)
    <2>1. PICK i \in 0 .. n + 1, a \in Addrs : Says(ch, t2, i, d, a)
      BY <1>13, <1>1 DEF Mentioned
    <2>2. i \in 0 .. n
      BY <2>1, <1>7, <1>13, <1>1
    <2> QED BY <2>1, <2>2, <1>2 DEF Mentioned, n
  <1> QED BY <1>8, <1>9, <1>10, <1>11, <1>12, <1>13 DEF t2

(* An announcement is live, and so is what Linux knows when nothing is on   *)
(* its way.                                                                 *)
LEMMA ToldLive ==
  ASSUME NEW ch \in Chs, NEW t \in Seq(Message), NEW d \in Devices, Told(ch, t, d)
  PROVE  /\ \E a \in Addrs : Live(ch, t, d, a)
         /\ Mentioned(ch, t, d)
  <1>1. PICK i \in 0 .. Len(t) : Tells(ch, t, i, d) /\ Kept(t, i, Len(t), d)
    BY DEF Told
  <1>2. \E a \in Addrs : Says(ch, t, i, d, a)
    <2>1. CASE i = 0
      <3>1. PICK c \in ch : c.dev = d
        BY <1>1, <2>1 DEF Tells
      <3>2. c = [dev |-> d, addr |-> c.addr] /\ c.addr \in Addrs
        BY <3>1 DEF Chs
      <3> QED BY <3>1, <3>2, <2>1 DEF Says
    <2>2. CASE i # 0
      <3>1. t[i] \in Message /\ t[i].kind = "create" /\ t[i].dev = d
        BY <1>1, <2>2 DEF Tells
      <3> QED BY <3>1, <2>2 DEF Says, Message
    <2> QED BY <2>1, <2>2
  <1> QED BY <1>1, <1>2 DEF Live, Mentioned


-----------------------------------------------------------------------------
(* What a step need not disturb. *)
LEMMA KeepAddr ==
  ASSUME AddrInv, addr' = addr, Bound' = Bound
  PROVE  AddrInv'
  BY DEF AddrInv

LEMMA KeepOrder ==
  ASSUME OrderInv, next' = next, task' = task, Listed' = Listed,
         \A d \in Known' : Told(channels', tx', d) \/ (d \in Known /\ ~Told(channels, tx, d))
                           \/ task.pc # "announce"
  PROVE  OrderInv'
  <1>1. PICK r \in Ranks : Ordered(r)
    BY DEF OrderInv
  <1>2. Ordered(r)'
    BY <1>1 DEF Ordered
  <1> QED BY <1>2 DEF OrderInv, Ranks

LEMMA KeepSet ==
  ASSUME SetInv, inset' = inset, set' = set, queue' = queue, Grouped' = Grouped,
         valid' \subseteq valid \cup inset, \A d \in valid \cup inset : Found(d)' = Found(d)
  PROVE  SetInv'
  BY DEF SetInv

(* ... if no message comes, and no call begins, *)
LEMMA KeepOvertake ==
  ASSUME OvertakeInv, UNCHANGED <<world, app, valid, addr>>, Removing => task' = task,
         \A i \in DOMAIN rx' : ~world.above /\ rx'[i].to # Ns => \E d \in valid : addr[d] = rx'[i].to,
         Adding /\ ~world.above => queue'[app.dev] = queue[app.dev]
  PROVE  OvertakeInv'
  BY DEF OvertakeInv, Removing, Adding

(* ... and when a call goes on. *)
LEMMA AppOvertake ==
  ASSUME OvertakeInv, UNCHANGED <<world, task, rx>>, Removing' /\ ~world.above => task.pc = "select",
         ~world.above => \A i \in DOMAIN rx : \A d \in valid :
           addr[d] = rx[i].to => d \in valid' /\ addr'[d] = addr[d],
         Adding' /\ ~world.above => queue'[app'.dev] = <<>>
  PROVE  OvertakeInv'
  BY DEF OvertakeInv

LEMMA KeepHost ==
  ASSUME HostInv, UNCHANGED <<link, channels, tx>>, Known' = Known,
         Public \subseteq Public', \A d \in Public : addr'[d] = addr[d],
         \A d \in Known : Fresh(d) /\ ~Told(channels, tx, d) => Fresh(d)',
         ~link => rx' = <<>> /\ task'.pc = "down" /\ app'.pc \notin {"announce", "destroy"}
  PROVE  HostInv'
  BY DEF HostInv, Public

(* The records of the application and of the rpmsg task. *)
LEMMA Records ==
  ASSUME TypeOK
  PROVE  app \in AppRec /\ task \in TaskRec /\ tx \in Seq(Message) /\ rx \in Seq(Letter)
         /\ channels \in Chs
  BY DEF TypeOK, AppRec, TaskRec, Letter, Chs


(* The names of no device. *)
LEMMA Names ==
  /\ Anchor \notin Devices /\ NULL \notin Devices /\ RL_ADDR_ANY \notin Sources
  /\ NoAddr \notin Addrs /\ Ns \notin Addrs
  <1>1. RL_ADDR_ANY # Stranger
    BY DEF RL_ADDR_ANY, Stranger
  <1>2. NoAddr \notin Addrs
    BY DEF NoAddr, Addrs
  <1> QED BY <1>1, <1>2, DevicesAssumption DEF Sources

-----------------------------------------------------------------------------
(* Adding a device. *)
LEMMA StepAdd ==
  ASSUME DInv, NEW d \in Devices, oblfr_rpmsg_device_add(d)
  PROVE  DInv'
  <1>0. /\ TypeOK /\ AppInv /\ AddrInv /\ TaskInv /\ OvertakeInv /\ OrderInv /\ SetInv /\ CanAnswer /\ HostInv
        /\ app.pc = "idle" /\ d \notin memory
    BY DEF DInv, oblfr_rpmsg_device_add
  <1>1. /\ app' = [pc |-> "insert", dev |-> d] /\ memory' = memory \cup {d}
        /\ addr' = [addr EXCEPT ![d] = FreeAddr] /\ queue' = [queue EXCEPT ![d] = <<>>]
        /\ UNCHANGED <<world, link, channels, next, valid, inset, set, lost, ns, task, tx, rx, heard>>
    BY DEF oblfr_rpmsg_device_add, host
  <1>2. PICK g \in {RL_ADDR_ANY, Garbage} : dst' = [dst EXCEPT ![d] = g]
    BY DEF oblfr_rpmsg_device_add
  <1>3. d \notin valid /\ d \notin heard /\ valid \subseteq Devices
    BY <1>0 DEF TypeOK
  <1>4. /\ Bound = valid /\ Bound' = valid \cup {d} /\ Listed = valid /\ Listed' = valid
        /\ Grouped = valid /\ Grouped' = valid /\ Known = valid /\ Known' = valid
    BY <1>0, <1>1 DEF Bound, Listed, Grouped, Known, During
  <1>5. addr \in [Devices -> Addrs \cup {NoAddr}] /\ addr[d] = NoAddr
    BY <1>0, <1>3, <1>4 DEF TypeOK, AddrInv
  <1>6. FreeAddr \in Addrs /\ \A e \in Devices : addr[e] # FreeAddr
    BY <1>5, AddressLeft
  <1>7. TypeOK'
    BY <1>0, <1>1, <1>2, <1>6 DEF TypeOK
  <1>8. AppInv'
    BY <1>0, <1>1, <1>3 DEF AppInv, Removing, Adding
  <1>9. AddrInv'
    <2>1. addr'[d] = FreeAddr /\ \A e \in Devices : e # d => addr'[e] = addr[e]
      BY <1>1, <1>5
    <2>2. FreeAddr # NoAddr
      BY <1>6, Names
    <2> QED BY <2>1, <2>2, <1>0, <1>3, <1>4, <1>6 DEF AddrInv
  <1>10. TaskInv'
    BY <1>0, <1>1 DEF TaskInv, Passed, During
  <1>11. OrderInv'
    BY <1>0, <1>1, <1>4, KeepOrder DEF OrderInv, Ordered
  <1>12. SetInv'
    <2>1. \A e \in valid \cup inset : queue'[e] = queue[e]
      BY <1>0, <1>1, <1>3, <1>4 DEF SetInv, TypeOK
    <2> QED BY <2>1, <1>0, <1>1, <1>4 DEF SetInv, Found
  <1>13. \A e \in valid : dst'[e] = dst[e] /\ addr'[e] = addr[e]
    BY <1>0, <1>1, <1>2, <1>3 DEF TypeOK
  <1>14. CanAnswer'
    BY <1>0, <1>1, <1>13 DEF CanAnswer
  <1>17. Public \subseteq Public'
    BY <1>0, <1>1, <1>4 DEF Public, Passed, During
  <1>18. Public = valid
    BY <1>0, <1>4 DEF Public, Passed, During
  <1>15. HostInv'
    <2>1. \A e \in Known : Fresh(e) => Fresh(e)'
      BY <1>1, <1>4, <1>13 DEF Fresh
    <2> QED BY <2>1, <1>0, <1>1, <1>4, <1>13, <1>17, <1>18, KeepHost DEF HostInv
  <1>16. OvertakeInv'
    <2>1. \A e \in valid : addr'[e] = addr[e]
      BY <1>13
    <2>2. ~Removing' /\ queue'[d] = <<>> /\ app'.dev = d
      BY <1>0, <1>1 DEF Removing, TypeOK
    <2> QED BY <2>1, <2>2, <1>0, <1>1, AppOvertake
  <1> QED BY <1>7, <1>8, <1>9, <1>10, <1>11, <1>12, <1>14, <1>15, <1>16 DEF DInv

LEMMA StepInsert ==
  ASSUME DInv, AddInsert
  PROVE  DInv'
  <1>0. /\ TypeOK /\ AppInv /\ AddrInv /\ TaskInv /\ OvertakeInv /\ OrderInv /\ SetInv /\ CanAnswer /\ HostInv
        /\ app.pc = "insert" /\ app \in AppRec
    BY Records DEF DInv, AddInsert
  <1>1. /\ app'.pc = "set" /\ app'.dev = app.dev /\ app' \in AppRec
        /\ next' = [next EXCEPT ![Anchor] = app.dev, ![app.dev] = next[Anchor]]
        /\ UNCHANGED <<world, link, channels, memory, valid, addr, dst, queue, inset, set, lost, ns, task, tx, rx, heard>>
    BY <1>0 DEF AddInsert, host, queues, LIST_INSERT_HEAD, AppRec
  <1>2. PICK d \in Devices : d = app.dev /\ d \in memory /\ d \notin valid
    BY <1>0 DEF AppInv, Adding, TypeOK
  <1>3. valid \subseteq Devices
    BY <1>0 DEF TypeOK
  <1>4. /\ Bound = valid \cup {d} /\ Bound' = Bound /\ Listed = valid /\ Listed' = valid \cup {d}
        /\ Grouped = valid /\ Grouped' = valid /\ Known = valid /\ Known' = valid
    BY <1>0, <1>1, <1>2 DEF Bound, Listed, Grouped, Known, During
  <1>7. TypeOK'
    <2>1. next' \in [Devices \cup {Anchor} -> Devices \cup {NULL}]
      BY <1>0, <1>1, <1>2 DEF TypeOK
    <2> QED BY <2>1, <1>0, <1>1 DEF TypeOK, AppRec
  <1>8. AppInv'
    BY <1>0, <1>1, <1>2 DEF AppInv, Removing, Adding
  <1>9. AddrInv'
    BY <1>0, <1>1, <1>4, KeepAddr
  <1>10. TaskInv'
    BY <1>0, <1>1 DEF TaskInv, Passed, During
  <1>11. OrderInv'
    <2>1. PICK r \in Ranks : Ordered(r)
      BY <1>0 DEF OrderInv
    <2> DEFINE r2 == [r EXCEPT ![d] = r[Anchor], ![Anchor] = r[Anchor] + 1]
    <2>2. next \in [Devices \cup {Anchor} -> Devices \cup {NULL}] /\ InOrder(next, valid, r)
      BY <1>0, <1>4, <2>1 DEF TypeOK, Ordered
    <2>3. r2 \in Ranks /\ InOrder(next', valid \cup {d}, r2)
      BY <1>1, <1>2, <1>3, <2>2, InsertOrder
    <2>4. \A e \in valid : r2[e] = r[e]
      BY <1>2, <1>3, Names DEF Ranks
    <2> HIDE DEF r2
    <2>5. Ordered(r2)'
      BY <2>1, <2>3, <2>4, <1>0, <1>1, <1>4 DEF Ordered, TaskInv, Passed, During
    <2> QED BY <2>3, <2>5 DEF OrderInv, Ranks
  <1>12. SetInv'
    BY <1>0, <1>1, <1>4, KeepSet DEF Found
  <1>14. CanAnswer'
    BY <1>0, <1>1 DEF CanAnswer
  <1>17. Public \subseteq Public'
    BY <1>0, <1>1, <1>4 DEF Public, Passed, During
  <1>15. HostInv'
    <2>1. \A e \in Known : Fresh(e) => Fresh(e)'
      BY <1>1 DEF Fresh
    <2> QED BY <2>1, <1>0, <1>1, <1>4, <1>17, KeepHost DEF HostInv
  <1>16. OvertakeInv'
    BY <1>0, <1>1, AppOvertake DEF OvertakeInv, Removing, Adding
  <1> QED BY <1>7, <1>8, <1>9, <1>10, <1>11, <1>12, <1>14, <1>15, <1>16 DEF DInv

LEMMA StepToSet ==
  ASSUME DInv, AddToSet
  PROVE  DInv'
  <1>0. /\ TypeOK /\ AppInv /\ AddrInv /\ TaskInv /\ OvertakeInv /\ OrderInv /\ SetInv /\ CanAnswer /\ HostInv
        /\ app.pc = "set" /\ app \in AppRec
    BY Records DEF DInv, AddToSet
  <1>1. /\ app'.pc = "check" /\ app'.dev = app.dev /\ app' \in AppRec
        /\ inset' = inset \cup {app.dev} /\ queue[app.dev] = <<>>
        /\ UNCHANGED <<world, link, channels, next, memory, valid, addr, dst, queue, set, lost, ns, task, tx, rx, heard>>
    BY <1>0 DEF AddToSet, host, device, AppRec
  <1>2. PICK d \in Devices : d = app.dev /\ d \in memory /\ d \notin valid
    BY <1>0 DEF AppInv, Adding, TypeOK
  <1>3. valid \subseteq Devices
    BY <1>0 DEF TypeOK
  <1>4. /\ Bound' = Bound /\ Listed' = Listed
        /\ Grouped = valid /\ Grouped' = valid \cup {d} /\ Known = valid /\ Known' = valid
    BY <1>0, <1>1, <1>2 DEF Bound, Listed, Grouped, Known, During
  <1>7. TypeOK'
    BY <1>0, <1>1, <1>2 DEF TypeOK, AppRec
  <1>8. AppInv'
    BY <1>0, <1>1, <1>2 DEF AppInv, Removing, Adding
  <1>9. AddrInv'
    BY <1>0, <1>1, <1>4, KeepAddr
  <1>10. TaskInv'
    BY <1>0, <1>1 DEF TaskInv, Passed, During
  <1>11. OrderInv'
    BY <1>0, <1>1, <1>4, KeepOrder DEF OrderInv, Ordered
  <1>12. SetInv'
    <2>1. {i \in DOMAIN set : set[i] = d} = {}
      BY <1>0, <1>2, <1>4 DEF SetInv
    <2>2. Count(set, d) = 0
      BY <2>1, FS_EmptySet DEF Count
    <2>3. Found(d)' = 0
      BY <1>0, <1>1, <1>2 DEF Found, TaskInv
    <2>4. Len(queue[d]) = 0
      BY <1>1, <1>2
    <2>5. \A e \in valid \cup inset : Found(e)' = Found(e)
      BY <1>1 DEF Found
    <2> QED BY <2>2, <2>3, <2>4, <2>5, <1>0, <1>1, <1>2, <1>4 DEF SetInv
  <1>14. CanAnswer'
    BY <1>0, <1>1 DEF CanAnswer
  <1>17. Public \subseteq Public'
    BY <1>0, <1>1, <1>4 DEF Public, Passed, During
  <1>15. HostInv'
    <2>1. \A e \in Known : Fresh(e) => Fresh(e)'
      BY <1>1 DEF Fresh
    <2> QED BY <2>1, <1>0, <1>1, <1>4, <1>17, KeepHost DEF HostInv
  <1>16. OvertakeInv'
    BY <1>0, <1>1, AppOvertake DEF OvertakeInv, Removing, Adding
  <1> QED BY <1>7, <1>8, <1>9, <1>10, <1>11, <1>12, <1>14, <1>15, <1>16 DEF DInv


(* Taking a device out of the list, from which it is found. *)
LEMMA StepUnlink ==
  ASSUME TypeOK, OrderInv, NEW d \in Listed, LIST_REMOVE(d), Listed \subseteq Devices,
         task' = task, Listed' = Listed \ {d}, Known' \subseteq Known,
         task.pc = "find" => d \notin {task.sel, task.cur}, UNCHANGED <<channels, tx>>
  PROVE  OrderInv' /\ next' \in [Devices \cup {Anchor} -> Devices \cup {NULL}]
  <1>1. PICK r \in Ranks : Ordered(r)
    BY DEF OrderInv
  <1>2. next \in [Devices \cup {Anchor} -> Devices \cup {NULL}] /\ InOrder(next, Listed, r)
    BY <1>1 DEF TypeOK, Ordered
  <1>3. Linked = Listed
    BY <1>1, <1>2, WalkOrder
  <1>4. \A x \in Listed \cup {Anchor} : next'[x] = IF next[x] = d THEN next[d] ELSE next[x]
    BY <1>2, <1>3 DEF LIST_REMOVE
  <1>5. InOrder(next', Listed \ {d}, r)
    BY <1>2, <1>4, RemoveOrder
  <1>6. Ordered(r)'
    BY <1>1, <1>5 DEF Ordered
  <1>7. next' \in [Devices \cup {Anchor} -> Devices \cup {NULL}]
    BY <1>2 DEF LIST_REMOVE
  <1> QED BY <1>6, <1>7 DEF OrderInv, Ranks

LEMMA StepFailed ==
  ASSUME DInv, AddFailed
  PROVE  DInv'
  <1>0. /\ TypeOK /\ AppInv /\ AddrInv /\ TaskInv /\ OvertakeInv /\ OrderInv /\ SetInv /\ CanAnswer /\ HostInv
        /\ app.pc = "set" /\ app \in AppRec
    BY Records DEF DInv, AddFailed
  <1>1. /\ app' = [pc |-> "idle", dev |-> NULL]
        /\ addr' = [addr EXCEPT ![app.dev] = NoAddr] /\ queue' = [queue EXCEPT ![app.dev] = <<>>]
        /\ lost' = lost + Len(queue[app.dev]) /\ LIST_REMOVE(app.dev)
        /\ UNCHANGED <<world, link, channels, memory, valid, dst, inset, set, ns, task, tx, rx, heard>>
    BY <1>0 DEF AddFailed, host, rpmsg_queue_destroy
  <1>2. PICK d \in Devices : d = app.dev /\ d \in memory /\ d \notin valid
    BY <1>0 DEF AppInv, Adding, TypeOK
  <1>11. world.above
    BY <1>0, <1>2 DEF AddFailed, OvertakeInv, Adding
  <1>3. valid \subseteq Devices
    BY <1>0 DEF TypeOK
  <1>4. /\ Bound = valid \cup {d} /\ Bound' = valid /\ Listed = valid \cup {d} /\ Listed' = valid
        /\ Grouped = valid /\ Grouped' = valid /\ Known = valid /\ Known' = valid
    BY <1>0, <1>1, <1>2 DEF Bound, Listed, Grouped, Known, During
  <1>5. /\ addr'[d] = NoAddr /\ \A e \in Devices \ {d} : addr'[e] = addr[e] /\ queue'[e] = queue[e]
    BY <1>0, <1>1, <1>2 DEF TypeOK
  <1>6. OrderInv' /\ next' \in [Devices \cup {Anchor} -> Devices \cup {NULL}]
    <2>1. Listed' = Listed \ {d} /\ d \in Listed /\ Listed \subseteq Devices
      BY <1>2, <1>3, <1>4
    <2> QED BY <2>1, <1>0, <1>1, <1>2, <1>4, <1>11, StepUnlink DEF TaskInv, Passed
  <1>7. TypeOK'
    <2>1. lost' \in Nat /\ queue' \in [Devices -> Seq(Sources)] /\ addr' \in [Devices -> Addrs \cup {NoAddr}]
      BY <1>0, <1>1, <1>2 DEF TypeOK
    <2> QED BY <2>1, <1>0, <1>1, <1>6 DEF TypeOK
  <1>8. AppInv'
    BY <1>0, <1>1 DEF AppInv, Removing, Adding
  <1>9. AddrInv'
    BY <1>0, <1>2, <1>3, <1>4, <1>5 DEF AddrInv
  <1>10. TaskInv'
    BY <1>0, <1>1, <1>11 DEF TaskInv, Passed, During
  <1>12. SetInv'
    <2>1. valid \cup inset \subseteq Devices \ {d}
      BY <1>0, <1>2, <1>3, <1>4 DEF SetInv
    <2> QED BY <2>1, <1>0, <1>1, <1>4, <1>5 DEF SetInv, Found
  <1>14. CanAnswer'
    BY <1>0, <1>1 DEF CanAnswer
  <1>17. Public \subseteq Public'
    BY <1>0, <1>1, <1>4, <1>11 DEF Public, Passed, During
  <1>18. Public = valid
    BY <1>4, <1>11 DEF Public, Passed
  <1>15. HostInv'
    <2>1. \A e \in Known : Fresh(e) => Fresh(e)'
      BY <1>1 DEF Fresh
    <2>2. \A e \in Public : addr'[e] = addr[e]
      BY <1>2, <1>3, <1>5, <1>18
    <2> QED BY <2>1, <2>2, <1>0, <1>1, <1>4, <1>17, <1>18, KeepHost DEF HostInv
  <1>16. OvertakeInv'
    BY <1>1, <1>11 DEF OvertakeInv
  <1> QED BY <1>6, <1>7, <1>8, <1>9, <1>10, <1>12, <1>14, <1>15, <1>16 DEF DInv

(* While the link is down nobody has heard of anything. *)
LEMMA NothingSaid ==
  ASSUME TypeOK, HostInv, ~link
  PROVE  \A d \in Devices : ~Mentioned(channels, tx, d) /\ \A a \in Addrs : ~Live(channels, tx, d, a)
  <1>1. channels = {} /\ tx = <<>> /\ 0 .. Len(tx) = {0}
    BY DEF HostInv
  <1> QED BY <1>1 DEF Mentioned, Live, Says

LEMMA StepCheck ==
  ASSUME DInv, AddCheck
  PROVE  DInv'
  <1>0. /\ TypeOK /\ AppInv /\ AddrInv /\ TaskInv /\ OvertakeInv /\ OrderInv /\ SetInv /\ CanAnswer /\ HostInv
        /\ app.pc = "check" /\ app \in AppRec
    BY Records DEF DInv, AddCheck
  <1>1. /\ app'.pc = (IF link THEN "announce" ELSE "reset") /\ app'.dev = app.dev /\ app' \in AppRec
        /\ UNCHANGED <<world, link, channels, next, memory, valid, addr, dst, queue, inset, set, lost, ns, task, tx, rx, heard>>
    BY <1>0 DEF AddCheck, host, device, queues, AppRec
  <1>2. PICK d \in Devices : d = app.dev /\ d \in memory /\ d \notin valid
    BY <1>0 DEF AppInv, Adding, TypeOK
  <1>4. /\ Bound' = Bound /\ Listed' = Listed /\ Grouped' = Grouped
        /\ Known = valid /\ Known' = IF link THEN valid ELSE valid \cup {d}
    BY <1>0, <1>1, <1>2 DEF Bound, Listed, Grouped, Known, During
  <1>7. TypeOK'
    BY <1>0, <1>1 DEF TypeOK, AppRec
  <1>8. AppInv'
    BY <1>0, <1>1, <1>2 DEF AppInv, Removing, Adding
  <1>9. AddrInv'
    BY <1>0, <1>1, <1>4, KeepAddr
  <1>10. TaskInv'
    BY <1>0, <1>1 DEF TaskInv, Passed, During
  <1>11. OrderInv'
    <2>1. ~link => task.pc = "down"
      BY <1>0 DEF HostInv
    <2> QED BY <2>1, <1>0, <1>1, <1>4, KeepOrder DEF OrderInv, Ordered
  <1>12. SetInv'
    BY <1>0, <1>1, <1>4, KeepSet DEF Found
  <1>14. CanAnswer'
    BY <1>0, <1>1 DEF CanAnswer
  <1>17. Public \subseteq Public'
    BY <1>0, <1>1, <1>4 DEF Public, Passed, During
  <1>15. HostInv'
    <2>1. \A e \in Known : Fresh(e) => Fresh(e)'
      BY <1>1 DEF Fresh
    <2>2. CASE link
      BY <2>1, <2>2, <1>0, <1>1, <1>4, <1>17, KeepHost DEF HostInv
    <2>3. CASE ~link
      <3>1. Fresh(d)'
        <4>1. ~Mentioned(channels, tx, d) /\ task.pc = "down" /\ rx = <<>>
          BY <1>0, <2>3, NothingSaid DEF HostInv
        <4> QED BY <4>1, <1>1, <1>2 DEF Fresh
      <3> QED BY <2>1, <3>1, <2>3, <1>0, <1>1, <1>4, <1>17 DEF HostInv
    <2> QED BY <2>2, <2>3
  <1>16. OvertakeInv'
    BY <1>0, <1>1, AppOvertake DEF OvertakeInv, Removing, Adding
  <1> QED BY <1>7, <1>8, <1>9, <1>10, <1>11, <1>12, <1>14, <1>15, <1>16 DEF DInv


(* A message to Linux. *)
LEMMA SendHost ==
  ASSUME TypeOK, HostInv, link, NEW m \in Message, tx' = Append(tx, m),
         UNCHANGED <<link, channels, addr, rx, valid, dst>>,
         task.pc \in {"down", "bind", "announce"} => task'.pc = task.pc,
         m.kind # "destroy" => /\ m.from = addr[m.dev] /\ Known' \subseteq Known \cup {m.dev}
                               /\ Public \cup {m.dev} \subseteq Public',
         m.kind = "destroy" => Known' \subseteq Known \ {m.dev} /\ Public \ {m.dev} \subseteq Public',
         m.kind = "data" => Told(channels, tx, m.dev),
         Known' \subseteq Devices
  PROVE  /\ HostInv' /\ tx' \in Seq(Message)
         /\ \A d \in Devices :
              Told(channels, tx, d) /\ ~(m.kind = "destroy" /\ m.dev = d) => Told(channels', tx', d)
         /\ m.kind = "create" => Told(channels', tx', m.dev)
  <1>0. tx \in Seq(Message) /\ channels \in Chs /\ m.dev \in Devices /\ m.from \in Addrs
        /\ m.kind \in {"create", "destroy", "data"}
    BY Records DEF Message
  <1>1. Agree(channels, tx) /\ Preceded(channels, tx)
        /\ \A d \in Devices, a \in Addrs : Live(channels, tx, d, a) => d \in Public /\ addr[d] = a
    BY DEF HostInv
  <1>2. m.kind # "destroy" => \A a \in Addrs : Live(channels, tx, m.dev, a) => a = m.from
    BY <1>0, <1>1
  <1>3. /\ Agree(channels, tx') /\ Preceded(channels, tx')
        /\ \A d \in Devices, a \in Addrs : Live(channels, tx', d, a) =>
             \/ Live(channels, tx, d, a) /\ ~(m.kind = "destroy" /\ m.dev = d)
             \/ m.kind # "destroy" /\ d = m.dev /\ a = m.from
        /\ \A d \in Devices : Told(channels, tx, d) /\ ~(m.kind = "destroy" /\ m.dev = d) => Told(channels, tx', d)
        /\ m.kind = "create" => Told(channels, tx', m.dev)
        /\ \A d \in Devices : d # m.dev /\ Mentioned(channels, tx', d) => Mentioned(channels, tx, d)
    BY <1>0, <1>1, <1>2, AppendView
  <1>4. tx' \in Seq(Message)
    BY <1>0
  <1>5. \A d \in Devices, a \in Addrs : Live(channels', tx', d, a) => d \in Public' /\ addr'[d] = a
    BY <1>1, <1>3, <1>0
  <1>6. ASSUME NEW d \in Known' PROVE Told(channels', tx', d) \/ Fresh(d)'
    <2>0. d \in Devices
      BY <1>0, <1>6
    <2>1. CASE d = m.dev
      <3>1. m.kind # "destroy"
        BY <2>1, <1>6
      <3>2. CASE m.kind = "create"
        BY <3>2, <2>1, <1>3
      <3>3. CASE m.kind = "data"
        BY <3>3, <2>0, <2>1, <1>3
      <3> QED BY <3>1, <3>2, <3>3, <1>0
    <2>2. CASE d # m.dev
      <3>1. d \in Known
        BY <2>2, <1>6
      <3>2. CASE Told(channels, tx, d)
        BY <3>2, <2>0, <2>2, <1>3
      <3>3. CASE Fresh(d)
        <4>1. ~Mentioned(channels', tx', d)
          BY <3>3, <2>0, <2>2, <1>3 DEF Fresh
        <4> QED BY <4>1, <3>3 DEF Fresh
      <3> QED BY <3>1, <3>2, <3>3 DEF HostInv
    <2> QED BY <2>1, <2>2
  <1>7. HostInv'
    BY <1>3, <1>5, <1>6 DEF HostInv
  <1> QED BY <1>3, <1>4, <1>7

LEMMA StepAnnounce ==
  ASSUME DInv, AddAnnounce
  PROVE  DInv'
  <1>0. /\ TypeOK /\ AppInv /\ AddrInv /\ TaskInv /\ OvertakeInv /\ OrderInv /\ SetInv /\ CanAnswer /\ HostInv
        /\ app.pc = "announce" /\ app \in AppRec
    BY Records DEF DInv, AddAnnounce
  <1>1. /\ app'.pc = "reset" /\ app'.dev = app.dev /\ app' \in AppRec
        /\ tx' = Append(tx, Create(app.dev, addr[app.dev]))
        /\ UNCHANGED <<world, link, channels, next, memory, valid, addr, dst, queue, inset, set, lost, ns, task, rx, heard>>
    BY <1>0 DEF AddAnnounce, Announce, host, device, queues, AppRec
  <1>2. PICK d \in Devices : d = app.dev /\ d \in memory /\ d \notin valid
    BY <1>0 DEF AppInv, Adding, TypeOK
  <1>3. valid \subseteq Devices
    BY <1>0 DEF TypeOK
  <1>4. /\ Bound = valid \cup {d} /\ Bound' = Bound /\ Listed' = Listed /\ Grouped' = Grouped
        /\ Known = valid /\ Known' = valid \cup {d}
    BY <1>0, <1>1, <1>2 DEF Bound, Listed, Grouped, Known, During
  <1>5. /\ HostInv' /\ tx' \in Seq(Message)
        /\ \A e \in Devices : Told(channels, tx, e) => Told(channels', tx', e)
        /\ Told(channels', tx', d)
    <2> DEFINE m == Create(d, addr[d])
    <2>1. m \in Message /\ m.dev = d /\ m.from = addr[d] /\ m.kind = "create"
      BY <1>0, <1>4 DEF Message, Create, AddrInv, TypeOK
    <2>2. link
      BY <1>0 DEF HostInv
    <2>3. tx' = Append(tx, m)
      BY <1>1, <1>2
    <2>4. Public \cup {d} \subseteq Public' /\ Known' \subseteq Devices
      BY <1>0, <1>1, <1>2, <1>3, <1>4 DEF Public, Passed, During
    <2> HIDE DEF m
    <2> QED BY <2>1, <2>2, <2>3, <2>4, <1>0, <1>1, <1>4, SendHost
  <1>7. TypeOK'
    BY <1>0, <1>1, <1>5 DEF TypeOK, AppRec
  <1>8. AppInv'
    BY <1>0, <1>1, <1>2 DEF AppInv, Removing, Adding
  <1>9. AddrInv'
    BY <1>0, <1>1, <1>4, KeepAddr
  <1>10. TaskInv'
    BY <1>0, <1>1 DEF TaskInv, Passed, During
  <1>11. OrderInv'
    BY <1>0, <1>1, <1>3, <1>4, <1>5, KeepOrder
  <1>12. SetInv'
    BY <1>0, <1>1, <1>4, KeepSet DEF Found
  <1>14. CanAnswer'
    BY <1>0, <1>1 DEF CanAnswer
  <1>16. OvertakeInv'
    BY <1>0, <1>1, AppOvertake DEF OvertakeInv, Removing, Adding
  <1> QED BY <1>5, <1>7, <1>8, <1>9, <1>10, <1>11, <1>12, <1>14, <1>16 DEF DInv

LEMMA StepReset ==
  ASSUME DInv, AddReset
  PROVE  DInv'
  <1>0. /\ TypeOK /\ AppInv /\ AddrInv /\ TaskInv /\ OvertakeInv /\ OrderInv /\ SetInv /\ CanAnswer /\ HostInv
        /\ app.pc = "reset" /\ app \in AppRec
    BY Records DEF DInv, AddReset
  <1>1. /\ app' = [pc |-> "idle", dev |-> NULL]
        /\ dst' = [dst EXCEPT ![app.dev] = RL_ADDR_ANY] /\ valid' = valid \cup {app.dev}
        /\ UNCHANGED <<world, link, channels, next, memory, addr, queue, inset, set, lost, ns, task, tx, rx, heard>>
    BY <1>0 DEF AddReset, host, queues
  <1>2. PICK d \in Devices : d = app.dev /\ d \in memory /\ d \notin valid
    BY <1>0 DEF AppInv, Adding, TypeOK
  <1>3. valid \subseteq Devices
    BY <1>0 DEF TypeOK
  <1>4. /\ Bound' = Bound /\ Listed' = Listed /\ Grouped' = Grouped /\ Known' = Known
        /\ Known = valid \cup {d} /\ Grouped = valid \cup {d}
    BY <1>0, <1>1, <1>2 DEF Bound, Listed, Grouped, Known, During
  <1>5. dst'[d] = RL_ADDR_ANY /\ \A e \in Devices \ {d} : dst'[e] = dst[e]
    BY <1>0, <1>1, <1>2 DEF TypeOK
  <1>7. TypeOK'
    BY <1>0, <1>1, <1>2 DEF TypeOK
  <1>8. AppInv'
    BY <1>0, <1>1, <1>2 DEF AppInv, Removing, Adding
  <1>9. AddrInv'
    BY <1>0, <1>1, <1>4, KeepAddr
  <1>10. TaskInv'
    BY <1>0, <1>1 DEF TaskInv, Passed, During
  <1>11. OrderInv'
    BY <1>0, <1>1, <1>4, KeepOrder DEF OrderInv, Ordered
  <1>12. SetInv'
    BY <1>0, <1>1, <1>2, <1>4, KeepSet DEF Found, SetInv
  <1>14. CanAnswer'
    BY <1>0, <1>1, <1>2, <1>3, <1>5 DEF CanAnswer, AppInv
  <1>17. Public \subseteq Public'
    BY <1>0, <1>1, <1>2, <1>4 DEF Public, Passed, During
  <1>15. HostInv'
    <2>1. \A e \in Known : Fresh(e) => Fresh(e)'
      BY <1>1, <1>2, <1>3, <1>4, <1>5 DEF Fresh
    <2> QED BY <2>1, <1>0, <1>1, <1>4, <1>17, KeepHost DEF HostInv
  <1>16. OvertakeInv'
    BY <1>0, <1>1, AppOvertake DEF OvertakeInv, Removing, Adding
  <1> QED BY <1>7, <1>8, <1>9, <1>10, <1>11, <1>12, <1>14, <1>15, <1>16 DEF DInv


-----------------------------------------------------------------------------
(* Removing a device. *)
LEMMA StepRemove ==
  ASSUME DInv, Firm, NEW d \in Devices, oblfr_rpmsg_device_remove(d)
  PROVE  DInv'
  <1>0. /\ TypeOK /\ AppInv /\ AddrInv /\ TaskInv /\ OvertakeInv /\ OrderInv /\ SetInv /\ CanAnswer /\ HostInv
        /\ app.pc = "idle" /\ d \in valid /\ Quiet
    BY DEF DInv, oblfr_rpmsg_device_remove, Firm
  <1>1. /\ app' = [pc |-> IF link THEN "destroy" ELSE "unlink", dev |-> d]
        /\ UNCHANGED <<world, link, channels, next, memory, valid, addr, dst, queue, inset, set, lost, ns, task, tx, rx, heard>>
    BY DEF oblfr_rpmsg_device_remove, host, device, queues
  <1>2. app'.pc = (IF link THEN "destroy" ELSE "unlink") /\ app'.dev = d
    BY <1>1
  <1>3. valid \subseteq memory /\ valid \subseteq Devices
    BY <1>0 DEF TypeOK
  <1>4. /\ Bound' = Bound /\ Listed' = Listed /\ Grouped' = Grouped
        /\ Known = valid /\ Known' = IF link THEN valid ELSE valid \ {d}
    BY <1>0, <1>1, <1>2 DEF Bound, Listed, Grouped, Known, During
  <1>7. TypeOK'
    BY <1>0, <1>1 DEF TypeOK
  <1>8. AppInv'
    BY <1>0, <1>1, <1>2, <1>3 DEF AppInv, Removing, Adding, Quiet
  <1>9. AddrInv'
    BY <1>0, <1>1, <1>4, KeepAddr
  <1>10. TaskInv'
    BY <1>0, <1>1 DEF TaskInv, Passed, During
  <1>11. OrderInv'
    BY <1>0, <1>1, <1>4, KeepOrder DEF Quiet
  <1>12. SetInv'
    BY <1>0, <1>1, <1>4, KeepSet DEF Found
  <1>14. CanAnswer'
    BY <1>0, <1>1 DEF CanAnswer
  <1>17. link => Public \subseteq Public'
    BY <1>0, <1>1, <1>2, <1>4 DEF Public, Passed, During
  <1>15. HostInv'
    <2>1. \A e \in Known : Fresh(e) => Fresh(e)'
      BY <1>1 DEF Fresh
    <2>2. CASE link
      BY <2>1, <2>2, <1>0, <1>1, <1>4, <1>17, KeepHost DEF HostInv
    <2>3. CASE ~link
      <3>1. \A e \in Devices, a \in Addrs : ~Live(channels, tx, e, a)
        BY <1>0, <2>3, NothingSaid
      <3> QED BY <2>1, <2>3, <3>1, <1>0, <1>1, <1>2, <1>4 DEF HostInv
    <2> QED BY <2>2, <2>3
  <1>16. OvertakeInv'
    BY <1>0, <1>1, <1>2, AppOvertake DEF OvertakeInv, Removing, Adding, Quiet
  <1> QED BY <1>7, <1>8, <1>9, <1>10, <1>11, <1>12, <1>14, <1>15, <1>16 DEF DInv

LEMMA StepDestroy ==
  ASSUME DInv, RemoveAnnounce
  PROVE  DInv'
  <1>0. /\ TypeOK /\ AppInv /\ AddrInv /\ TaskInv /\ OvertakeInv /\ OrderInv /\ SetInv /\ CanAnswer /\ HostInv
        /\ app.pc = "destroy" /\ app \in AppRec
    BY Records DEF DInv, RemoveAnnounce
  <1>1. /\ app'.pc = "unlink" /\ app'.dev = app.dev /\ app' \in AppRec
        /\ tx' = Append(tx, Destroy(app.dev, addr[app.dev]))
        /\ UNCHANGED <<world, link, channels, next, memory, valid, addr, dst, queue, inset, set, lost, ns, task, rx, heard>>
    BY <1>0 DEF RemoveAnnounce, Announce, host, device, queues, AppRec
  <1>2. PICK d \in Devices : d = app.dev /\ d \in memory /\ d \in valid
    BY <1>0 DEF AppInv, Removing, TypeOK
  <1>3. valid \subseteq Devices
    BY <1>0 DEF TypeOK
  <1>4. /\ Bound = valid /\ Bound' = Bound /\ Listed' = Listed /\ Grouped' = Grouped
        /\ Known = valid /\ Known' = valid \ {d}
    BY <1>0, <1>1, <1>2 DEF Bound, Listed, Grouped, Known, During
  <1>5. HostInv' /\ tx' \in Seq(Message)
    <2> DEFINE m == Destroy(d, addr[d])
    <2>1. m \in Message /\ m.dev = d /\ m.from = addr[d] /\ m.kind = "destroy"
      BY <1>0, <1>2, <1>4 DEF Message, Destroy, AddrInv, TypeOK
    <2>2. link
      BY <1>0 DEF HostInv
    <2>3. tx' = Append(tx, m)
      BY <1>1, <1>2
    <2>4. Public \ {d} \subseteq Public' /\ Known' \subseteq Devices
      BY <1>0, <1>1, <1>2, <1>3, <1>4 DEF Public, Passed, During
    <2> HIDE DEF m
    <2> QED BY <2>1, <2>2, <2>3, <2>4, <1>0, <1>1, <1>4, SendHost
  <1>7. TypeOK'
    BY <1>0, <1>1, <1>5 DEF TypeOK, AppRec
  <1>8. AppInv'
    BY <1>0, <1>1, <1>2 DEF AppInv, Removing, Adding
  <1>9. AddrInv'
    BY <1>0, <1>1, <1>4, KeepAddr
  <1>10. TaskInv'
    BY <1>0, <1>1 DEF TaskInv, Passed, During
  <1>11. OrderInv'
    <2>1. task.pc # "announce"
      BY <1>0 DEF AppInv, Removing
    <2> QED BY <2>1, <1>0, <1>1, <1>4, KeepOrder
  <1>12. SetInv'
    BY <1>0, <1>1, <1>4, KeepSet DEF Found
  <1>14. CanAnswer'
    BY <1>0, <1>1 DEF CanAnswer
  <1>16. OvertakeInv'
    BY <1>0, <1>1, AppOvertake DEF OvertakeInv, Removing, Adding
  <1> QED BY <1>5, <1>7, <1>8, <1>9, <1>10, <1>11, <1>12, <1>14, <1>16 DEF DInv

LEMMA StepRemoveUnlink ==
  ASSUME DInv, RemoveUnlink
  PROVE  DInv'
  <1>0. /\ TypeOK /\ AppInv /\ AddrInv /\ TaskInv /\ OvertakeInv /\ OrderInv /\ SetInv /\ CanAnswer /\ HostInv
        /\ app.pc = "unlink" /\ app \in AppRec
    BY Records DEF DInv, RemoveUnlink
  <1>1. /\ app'.pc = "unset" /\ app'.dev = app.dev /\ app' \in AppRec /\ LIST_REMOVE(app.dev)
        /\ UNCHANGED <<world, link, channels, memory, valid, addr, dst, queue, inset, set, lost, ns, task, tx, rx, heard>>
    BY <1>0 DEF RemoveUnlink, host, queues, AppRec
  <1>2. PICK d \in Devices : d = app.dev /\ d \in memory /\ d \in valid /\ task.pc \in {"select", "down"}
    BY <1>0 DEF AppInv, Removing, TypeOK
  <1>3. valid \subseteq Devices
    BY <1>0 DEF TypeOK
  <1>4. /\ Bound' = Bound /\ Listed = valid /\ Listed' = valid \ {d} /\ Grouped' = Grouped
        /\ Known = valid \ {d} /\ Known' = Known
    BY <1>0, <1>1, <1>2 DEF Bound, Listed, Grouped, Known, During
  <1>6. OrderInv' /\ next' \in [Devices \cup {Anchor} -> Devices \cup {NULL}]
    <2>1. Listed' = Listed \ {d} /\ d \in Listed /\ Listed \subseteq Devices
      BY <1>2, <1>3, <1>4
    <2> QED BY <2>1, <1>0, <1>1, <1>2, <1>4, StepUnlink
  <1>7. TypeOK'
    BY <1>0, <1>1, <1>6 DEF TypeOK, AppRec
  <1>8. AppInv'
    BY <1>0, <1>1, <1>2 DEF AppInv, Removing, Adding
  <1>9. AddrInv'
    BY <1>0, <1>1, <1>4, KeepAddr
  <1>10. TaskInv'
    BY <1>0, <1>1 DEF TaskInv, Passed, During
  <1>12. SetInv'
    BY <1>0, <1>1, <1>4, KeepSet DEF Found
  <1>14. CanAnswer'
    BY <1>0, <1>1 DEF CanAnswer
  <1>17. Public \subseteq Public'
    BY <1>0, <1>1, <1>2, <1>4 DEF Public, Passed, During
  <1>15. HostInv'
    <2>1. \A e \in Known : Fresh(e) => Fresh(e)'
      BY <1>1 DEF Fresh
    <2> QED BY <2>1, <1>0, <1>1, <1>4, <1>17, KeepHost DEF HostInv
  <1>16. OvertakeInv'
    BY <1>0, <1>1, AppOvertake DEF OvertakeInv, Removing, Adding
  <1> QED BY <1>6, <1>7, <1>8, <1>9, <1>10, <1>12, <1>14, <1>15, <1>16 DEF DInv

LEMMA StepFromSet ==
  ASSUME DInv, RemoveFromSet
  PROVE  DInv'
  <1>0. /\ TypeOK /\ AppInv /\ AddrInv /\ TaskInv /\ OvertakeInv /\ OrderInv /\ SetInv /\ CanAnswer /\ HostInv
        /\ app.pc = "unset" /\ app \in AppRec
    BY Records DEF DInv, RemoveFromSet
  <1>1. /\ app'.pc = "unbind" /\ app'.dev = app.dev /\ app' \in AppRec
        /\ inset' = IF queue[app.dev] = <<>> THEN inset \ {app.dev} ELSE inset
        /\ UNCHANGED <<world, link, channels, next, memory, valid, addr, dst, queue, set, lost, ns, task, tx, rx, heard>>
    BY <1>0 DEF RemoveFromSet, host, device, AppRec
  <1>2. PICK d \in Devices : d = app.dev /\ d \in memory /\ d \in valid /\ task.pc \in {"select", "down"}
                             /\ set = <<>>
    BY <1>0 DEF AppInv, Removing, TypeOK
  <1>3. valid \subseteq Devices
    BY <1>0 DEF TypeOK
  <1>4. /\ Bound' = Bound /\ Listed' = Listed /\ Grouped = valid /\ Grouped' = valid \ {d}
        /\ Known' = Known
    BY <1>0, <1>1, <1>2 DEF Bound, Listed, Grouped, Known, During
  <1>5. queue[d] = <<>>
    <2>1. Count(set, d) + Found(d) = Len(queue[d])
      BY <1>0, <1>2 DEF SetInv
    <2>2. Count(set, d) = 0
      BY <1>2, CountEmpty
    <2>3. Found(d) = 0
      BY <1>2 DEF Found
    <2>4. queue[d] \in Seq(Sources)
      BY <1>0 DEF TypeOK
    <2> QED BY <2>1, <2>2, <2>3, <2>4
  <1>7. TypeOK'
    BY <1>0, <1>1 DEF TypeOK, AppRec
  <1>8. AppInv'
    BY <1>0, <1>1, <1>2 DEF AppInv, Removing, Adding
  <1>9. AddrInv'
    BY <1>0, <1>1, <1>4, KeepAddr
  <1>10. TaskInv'
    BY <1>0, <1>1 DEF TaskInv, Passed, During
  <1>11. OrderInv'
    BY <1>0, <1>1, <1>2, <1>4, KeepOrder
  <1>12. SetInv'
    <2>1. inset' = valid \ {d} /\ inset = valid /\ DOMAIN set = {}
      BY <1>0, <1>1, <1>2, <1>4, <1>5 DEF SetInv
    <2>2. \A e \in valid : Found(e)' = Found(e)
      BY <1>1 DEF Found
    <2> QED BY <2>1, <2>2, <1>0, <1>1, <1>4 DEF SetInv
  <1>14. CanAnswer'
    BY <1>0, <1>1 DEF CanAnswer
  <1>17. Public \subseteq Public'
    BY <1>0, <1>1, <1>2, <1>4 DEF Public, Passed, During
  <1>15. HostInv'
    <2>1. \A e \in Known : Fresh(e) => Fresh(e)'
      BY <1>1 DEF Fresh
    <2> QED BY <2>1, <1>0, <1>1, <1>4, <1>17, KeepHost DEF HostInv
  <1>16. OvertakeInv'
    BY <1>0, <1>1, AppOvertake DEF OvertakeInv, Removing, Adding
  <1> QED BY <1>7, <1>8, <1>9, <1>10, <1>11, <1>12, <1>14, <1>15, <1>16 DEF DInv

LEMMA StepEndpoint ==
  ASSUME DInv, RemoveEndpoint
  PROVE  DInv'
  <1>0. /\ TypeOK /\ AppInv /\ AddrInv /\ TaskInv /\ OvertakeInv /\ OrderInv /\ SetInv /\ CanAnswer /\ HostInv
        /\ app.pc = "unbind" /\ app \in AppRec
    BY Records DEF DInv, RemoveEndpoint
  <1>1. /\ app'.pc = "free" /\ app'.dev = app.dev /\ app' \in AppRec
        /\ addr' = [addr EXCEPT ![app.dev] = NoAddr]
        /\ UNCHANGED <<world, link, channels, next, memory, valid, dst, queue, inset, set, lost, ns, task, tx, rx, heard>>
    BY <1>0 DEF RemoveEndpoint, host, queues, AppRec
  <1>2. PICK d \in Devices : d = app.dev /\ d \in memory /\ d \in valid /\ task.pc \in {"select", "down"}
    BY <1>0 DEF AppInv, Removing, TypeOK
  <1>3. valid \subseteq Devices
    BY <1>0 DEF TypeOK
  <1>4. /\ Bound = valid /\ Bound' = valid \ {d} /\ Listed' = Listed /\ Grouped' = Grouped
        /\ Known = valid \ {d} /\ Known' = Known
    BY <1>0, <1>1, <1>2 DEF Bound, Listed, Grouped, Known, During
  <1>5. addr'[d] = NoAddr /\ \A e \in Devices \ {d} : addr'[e] = addr[e]
    BY <1>0, <1>1, <1>2 DEF TypeOK
  <1>7. TypeOK'
    BY <1>0, <1>1, <1>2 DEF TypeOK, AppRec
  <1>8. AppInv'
    BY <1>0, <1>1, <1>2 DEF AppInv, Removing, Adding
  <1>9. AddrInv'
    BY <1>0, <1>2, <1>3, <1>4, <1>5 DEF AddrInv
  <1>10. TaskInv'
    BY <1>0, <1>1 DEF TaskInv, Passed, During
  <1>11. OrderInv'
    BY <1>0, <1>1, <1>2, <1>4, KeepOrder
  <1>12. SetInv'
    BY <1>0, <1>1, <1>4, KeepSet DEF Found
  <1>14. CanAnswer'
    BY <1>0, <1>1 DEF CanAnswer
  <1>17. Public \subseteq Public'
    BY <1>0, <1>1, <1>2, <1>4 DEF Public, Passed, During
  <1>15. HostInv'
    <2>1. \A e \in Known : Fresh(e) => Fresh(e)'
      BY <1>1 DEF Fresh
    <2>2. \A e \in Public : addr'[e] = addr[e]
      BY <1>0, <1>3, <1>4, <1>5 DEF Public, Passed, During
    <2> QED BY <2>1, <2>2, <1>0, <1>1, <1>4, <1>17, KeepHost DEF HostInv
  <1>16. OvertakeInv'
    BY <1>0, <1>1, AppOvertake DEF OvertakeInv, AppInv, Removing, Adding
  <1> QED BY <1>7, <1>8, <1>9, <1>10, <1>11, <1>12, <1>14, <1>15, <1>16 DEF DInv

LEMMA StepFree ==
  ASSUME DInv, RemoveFree
  PROVE  DInv'
  <1>0. /\ TypeOK /\ AppInv /\ AddrInv /\ TaskInv /\ OvertakeInv /\ OrderInv /\ SetInv /\ CanAnswer /\ HostInv
        /\ app.pc = "free" /\ app \in AppRec
    BY Records DEF DInv, RemoveFree
  <1>1. /\ app' = [pc |-> "idle", dev |-> NULL]
        /\ queue' = [queue EXCEPT ![app.dev] = <<>>] /\ lost' = lost + Len(queue[app.dev])
        /\ valid' = valid \ {app.dev} /\ memory' = memory \ {app.dev} /\ heard' = heard \ {app.dev}
        /\ UNCHANGED <<world, link, channels, next, addr, dst, inset, set, ns, task, tx, rx>>
    BY <1>0 DEF RemoveFree, host, rpmsg_queue_destroy
  <1>2. PICK d \in Devices : d = app.dev /\ d \in memory /\ d \in valid /\ task.pc \in {"select", "down"}
    BY <1>0 DEF AppInv, Removing, TypeOK
  <1>3. valid \subseteq Devices
    BY <1>0 DEF TypeOK
  <1>4. /\ Bound' = Bound /\ Listed' = Listed /\ Grouped' = Grouped /\ Known' = Known
        /\ Grouped = valid \ {d}
    BY <1>0, <1>1, <1>2 DEF Bound, Listed, Grouped, Known, During
  <1>7. TypeOK'
    <2>1. lost' \in Nat /\ queue' \in [Devices -> Seq(Sources)]
      BY <1>0, <1>1, <1>2 DEF TypeOK
    <2> QED BY <2>1, <1>0, <1>1, <1>2 DEF TypeOK
  <1>8. AppInv'
    BY <1>0, <1>1 DEF AppInv, Removing, Adding
  <1>9. AddrInv'
    BY <1>0, <1>1, <1>4, KeepAddr
  <1>10. TaskInv'
    BY <1>0, <1>1, <1>2 DEF TaskInv
  <1>11. OrderInv'
    BY <1>0, <1>1, <1>2, <1>4, KeepOrder
  <1>12. SetInv'
    <2>1. \A e \in valid' \cup inset' : e \in valid /\ e # d /\ queue'[e] = queue[e] /\ Found(e)' = Found(e)
      BY <1>0, <1>1, <1>2, <1>3, <1>4 DEF SetInv, Found, TypeOK
    <2> QED BY <2>1, <1>0, <1>1, <1>4 DEF SetInv
  <1>14. CanAnswer'
    BY <1>0, <1>1 DEF CanAnswer
  <1>17. Public \subseteq Public'
    BY <1>0, <1>1, <1>2, <1>4 DEF Public, Passed, During
  <1>15. HostInv'
    <2>1. \A e \in Known : Fresh(e) => Fresh(e)'
      BY <1>1 DEF Fresh
    <2> QED BY <2>1, <1>0, <1>1, <1>4, <1>17, KeepHost DEF HostInv
  <1>16. OvertakeInv'
    BY <1>0, <1>1, AppOvertake DEF OvertakeInv, AppInv, Removing, Adding
  <1> QED BY <1>7, <1>8, <1>9, <1>10, <1>11, <1>12, <1>14, <1>15, <1>16 DEF DInv


-----------------------------------------------------------------------------
(* Steps of others than the application. *)
LEMMA AppRests ==
  ASSUME app' = app, valid' = valid, world' = world
  PROVE  /\ Bound' = Bound /\ Listed' = Listed /\ Grouped' = Grouped /\ Known' = Known
         /\ Passed' = Passed /\ Public' = Public
  BY DEF Bound, Listed, Grouped, Known, Passed, Public, During

(* Between its calls all its devices are in place, and the rpmsg task runs. *)
LEMMA AppIdle ==
  ASSUME app.pc = "idle"
  PROVE  /\ Bound = valid /\ Listed = valid /\ Grouped = valid /\ Known = valid
         /\ Passed = {} /\ Public = valid
         /\ ~Removing /\ ~Adding
  BY DEF Bound, Listed, Grouped, Known, Passed, Public, During, Removing, Adding

(* Between and during its calls, but for removals, its devices are in place. *)
LEMMA AppStays ==
  ASSUME TypeOK, AppInv, ~Removing
  PROVE  /\ valid \subseteq Bound /\ valid \subseteq Grouped /\ valid \subseteq Known
         /\ Known \subseteq Listed /\ Listed \subseteq Bound /\ Listed \subseteq Devices
         /\ Grouped \subseteq valid \cup {app.dev} /\ (~Adding => Grouped = valid)
         /\ Bound \subseteq valid \cup {app.dev}
  <1>1. app.pc # "idle" => app.dev \in Devices
    BY DEF AppInv, TypeOK
  <1> QED BY <1>1 DEF TypeOK, Removing, Adding, Bound, Listed, Grouped, Known, During

(* When the rpmsg task does something no device is being removed, and it    *)
(* may come upon all that are in the list.                                  *)
LEMMA TaskAlone ==
  ASSUME DInv, TaskRuns, task.pc = "select" => set # <<>>
  PROVE  /\ ~Removing /\ Listed = valid \cup Passed /\ Public = Listed
         /\ world.above => ~Adding
  <1>1. CASE app.pc = "idle"
    BY <1>1, AppIdle
  <1>2. CASE app.pc # "idle"
    <2>1. ~world.above /\ app \in AppRec
      BY <1>2, Records DEF TaskRuns, DInv
    <2>2. ~Removing
      BY <2>1 DEF DInv, OvertakeInv, AppInv
    <2>3. Adding
      BY <1>2, <2>1, <2>2 DEF AppRec, Adding, Removing
    <2> QED BY <2>1, <2>2, <2>3 DEF Adding, Removing, Listed, Known, Passed, Public, During
  <1> QED BY <1>1, <1>2

(* A device that can send is announced. *)
LEMMA SenderTold ==
  ASSUME DInv, NEW d, Sendable(d), ~Removing
  PROVE  /\ d \in Devices /\ Data(d, addr[d]) \in Message /\ Told(channels, tx, d)
         /\ link
  <1>1. d \in valid /\ d \in Devices /\ dst[d] # RL_ADDR_ANY /\ link
    BY DEF Sendable, DInv, TypeOK
  <1>2. Told(channels, tx, d)
    BY <1>1, AppStays DEF DInv, HostInv, Fresh
  <1>3. addr[d] \in Addrs
    BY <1>1, AppStays DEF DInv, AddrInv, TypeOK
  <1> QED BY <1>1, <1>2, <1>3 DEF Data, Message

LEMMA SendData ==
  ASSUME DInv, NEW d, Sendable(d), ~Removing, tx' = Append(tx, Data(d, addr[d])),
         UNCHANGED <<world, link, channels, addr, rx, valid, dst, app>>,
         task.pc \in {"down", "bind", "announce"} => task'.pc = task.pc
  PROVE  /\ HostInv' /\ tx' \in Seq(Message)
         /\ \A e \in Devices : Told(channels, tx, e) => Told(channels', tx', e)
  <1> DEFINE m == Data(d, addr[d])
  <1>1. m \in Message /\ d \in Devices /\ Told(channels, tx, d) /\ link
    BY SenderTold
  <1>2. m.kind = "data" /\ m.from = addr[d] /\ m.dev = d
    BY DEF Data
  <1>3. /\ Known' = Known /\ Public' = Public /\ Known \subseteq Devices /\ d \in Known
        /\ Known \subseteq Public
    BY <1>1, AppStays, AppRests DEF DInv, TypeOK, Sendable, Public
  <1>4. Known' \subseteq Known \cup {m.dev} /\ Public \cup {m.dev} \subseteq Public'
    BY <1>2, <1>3
  <1> HIDE DEF m
  <1>5. tx' = Append(tx, m)
    BY DEF m
  <1> QED BY <1>1, <1>2, <1>3, <1>4, <1>5, SendHost DEF DInv

LEMMA StepSend ==
  ASSUME DInv, NEW d \in Devices, oblfr_rpmsg_device_send(d)
  PROVE  DInv'
  <1>0. /\ TypeOK /\ AppInv /\ AddrInv /\ TaskInv /\ OvertakeInv /\ OrderInv /\ SetInv /\ CanAnswer /\ HostInv
        /\ app.pc = "idle" /\ Sendable(d)
    BY DEF DInv, oblfr_rpmsg_device_send
  <1>1. /\ tx' = Append(tx, Data(d, addr[d]))
        /\ UNCHANGED <<world, link, channels, next, memory, valid, addr, dst, queue, inset, set, lost, ns, task, app, rx, heard>>
    BY DEF oblfr_rpmsg_device_send, Announce, host, device, queues
  <1>2. Bound' = Bound /\ Listed' = Listed /\ Grouped' = Grouped /\ Known' = Known /\ Known \subseteq Devices
    BY <1>0, <1>1, AppRests, AppIdle DEF TypeOK
  <1>3. /\ HostInv' /\ tx' \in Seq(Message)
        /\ \A e \in Devices : Told(channels, tx, e) => Told(channels', tx', e)
    BY <1>0, <1>1, AppIdle, SendData
  <1>7. TypeOK'
    BY <1>0, <1>1, <1>3 DEF TypeOK
  <1>8. AppInv'
    BY <1>0, <1>1 DEF AppInv, Removing, Adding
  <1>9. AddrInv'
    BY <1>0, <1>1, <1>2, KeepAddr
  <1>10. TaskInv'
    BY <1>0, <1>1 DEF TaskInv, Passed, During
  <1>11. OrderInv'
    BY <1>0, <1>1, <1>2, <1>3, KeepOrder
  <1>12. SetInv'
    BY <1>0, <1>1, <1>2, KeepSet DEF Found
  <1>14. CanAnswer'
    BY <1>0, <1>1 DEF CanAnswer
  <1>16. OvertakeInv'
    BY <1>0, <1>1, KeepOvertake DEF OvertakeInv
  <1> QED BY <1>3, <1>7, <1>8, <1>9, <1>10, <1>11, <1>12, <1>14, <1>16 DEF DInv

(* The rpmsg task walks; it runs while nothing is being removed. *)
LEMMA TaskMoves ==
  ASSUME DInv, ~Removing, task' \in TaskRec, ns' \in BOOLEAN,
         UNCHANGED <<world, link, channels, next, memory, valid, addr, dst, queue, inset, lost, app, tx, rx, heard>>,
         set' \in Seq(Devices), TaskInv', OrderInv', SetInv', link,
         \A d \in Known : ~Told(channels, tx, d) /\ Fresh(d) => task'.pc \in {"down", "bind", "announce"}
  PROVE  DInv'
  <1>0. /\ TypeOK /\ AppInv /\ AddrInv /\ TaskInv /\ OvertakeInv /\ OrderInv /\ SetInv /\ CanAnswer /\ HostInv
    BY DEF DInv
  <1>2. Bound' = Bound /\ Listed' = Listed /\ Grouped' = Grouped /\ Known' = Known /\ Public' = Public
    BY <1>0, AppRests
  <1>7. TypeOK'
    BY <1>0 DEF TypeOK, TaskRec
  <1>8. AppInv'
    BY <1>0 DEF AppInv, Removing, Adding
  <1>9. AddrInv'
    BY <1>0, <1>2, KeepAddr
  <1>14. CanAnswer'
    BY <1>0 DEF CanAnswer
  <1>15. HostInv'
    <2>1. \A e \in Known : Fresh(e) /\ ~Told(channels, tx, e) => Fresh(e)'
      BY <1>2 DEF Fresh
    <2> QED BY <2>1, <1>0, <1>2, KeepHost DEF HostInv
  <1>16. OvertakeInv'
    BY <1>0, KeepOvertake DEF OvertakeInv
  <1> QED BY <1>7, <1>8, <1>9, <1>14, <1>15, <1>16 DEF DInv


(* A walk that is over, or has not begun. *)
LEMMA NoWalk ==
  ASSUME OrderInv, next' = next, Listed' = Listed, task'.pc \notin {"find", "announce"}
  PROVE  OrderInv'
  <1>1. PICK r \in Ranks : Ordered(r)
    BY DEF OrderInv
  <1>2. Ordered(r)'
    BY <1>1 DEF Ordered
  <1> QED BY <1>2 DEF OrderInv, Ranks

LEMMA StepLinkUp ==
  ASSUME DInv, Firm, TaskLinkUp
  PROVE  DInv'
  <1>0. /\ TypeOK /\ TaskInv /\ OvertakeInv /\ OrderInv /\ SetInv /\ HostInv
        /\ ~Removing /\ task \in TaskRec /\ task.pc = "down" /\ link
    BY Records, TaskAlone DEF DInv, TaskLinkUp
  <1>1. /\ task'.pc = "bind" /\ task'.cur = task.cur /\ task'.sel = task.sel /\ task' \in TaskRec
        /\ UNCHANGED <<world, link, channels, next, memory, valid, addr, dst, queue, inset, set, lost, ns, app, tx, rx, heard>>
    BY <1>0 DEF TaskLinkUp, host, device, queues, TaskRec
  <1>2. Listed' = Listed /\ Grouped' = Grouped /\ ns' \in BOOLEAN /\ set' \in Seq(Devices)
    BY <1>0, <1>1, AppRests DEF TypeOK
  <1>3. TaskInv'
    BY <1>0, <1>1 DEF TaskInv
  <1>4. OrderInv'
    BY <1>0, <1>1, <1>2, NoWalk
  <1>5. SetInv'
    BY <1>0, <1>1, <1>2, KeepSet DEF Found
  <1> QED BY <1>0, <1>1, <1>2, <1>3, <1>4, <1>5, TaskMoves

LEMMA StepBind ==
  ASSUME DInv, Firm, rpmsg_ns_bind
  PROVE  DInv'
  <1>0. /\ TypeOK /\ AppInv /\ TaskInv /\ OvertakeInv /\ OrderInv /\ SetInv /\ HostInv
        /\ ~Removing /\ Listed = valid \cup Passed /\ task \in TaskRec /\ task.pc = "bind"
    BY Records, TaskAlone DEF DInv, rpmsg_ns_bind
  <1>1. /\ task'.pc = "announce" /\ task'.cur = next[Anchor] /\ task'.sel = task.sel /\ ns' = TRUE
        /\ UNCHANGED <<world, link, channels, next, memory, valid, addr, dst, queue, inset, set, lost, app, tx, rx, heard>>
    BY <1>0 DEF rpmsg_ns_bind, host, device, queues, TaskRec
  <1>m. task' \in TaskRec
    BY <1>0 DEF rpmsg_ns_bind, TaskRec, TypeOK
  <1>2. /\ Listed' = Listed /\ Grouped' = Grouped /\ Known' = Known /\ Passed' = Passed
        /\ Known \subseteq Listed /\ ns' \in BOOLEAN /\ set' \in Seq(Devices)
    BY <1>0, <1>1, AppRests, AppStays DEF TypeOK
  <1>3. PICK r \in Ranks : Ordered(r)
    BY <1>0 DEF OrderInv
  <1>4. InOrder(next, Listed, r)
    BY <1>2, <1>3 DEF Ordered
  <1>5. next[Anchor] \in Listed \cup {NULL} /\ \A d \in Listed : next[Anchor] # NULL /\ r[d] <= r[next[Anchor]]
    BY <1>4 DEF InOrder
  <1>6. TaskInv'
    BY <1>0, <1>1, <1>2, <1>5 DEF TaskInv
  <1>7. OrderInv'
    <2>1. Ordered(r)'
      BY <1>1, <1>2, <1>4, <1>5 DEF Ordered
    <2> QED BY <2>1 DEF OrderInv, Ranks
  <1>8. SetInv'
    BY <1>0, <1>1, <1>2, KeepSet DEF Found
  <1>9. link
    BY <1>0 DEF HostInv
  <1> QED BY <1>m, <1>0, <1>1, <1>2, <1>6, <1>7, <1>8, <1>9, TaskMoves

LEMMA StepTaskAnnounced ==
  ASSUME DInv, Firm, TaskAnnounced
  PROVE  DInv'
  <1>0. /\ TypeOK /\ TaskInv /\ OvertakeInv /\ OrderInv /\ SetInv /\ HostInv
        /\ ~Removing /\ task \in TaskRec /\ task.pc = "announce" /\ task.cur = NULL
    BY Records, TaskAlone DEF DInv, TaskAnnounced
  <1>1. /\ task'.pc = "select" /\ task'.cur = task.cur /\ task'.sel = task.sel /\ task' \in TaskRec
        /\ UNCHANGED <<world, link, channels, next, memory, valid, addr, dst, queue, inset, set, lost, ns, app, tx, rx, heard>>
    BY <1>0 DEF TaskAnnounced, host, device, queues, TaskRec
  <1>2. Listed' = Listed /\ Grouped' = Grouped /\ ns' \in BOOLEAN /\ set' \in Seq(Devices)
    BY <1>0, <1>1, AppRests DEF TypeOK
  <1>3. TaskInv'
    BY <1>0, <1>1 DEF TaskInv
  <1>4. OrderInv'
    BY <1>0, <1>1, <1>2, NoWalk
  <1>5. SetInv'
    BY <1>0, <1>1, <1>2, KeepSet DEF Found
  <1>6. \A d \in Known : Told(channels, tx, d)
    BY <1>0, <1>2 DEF OrderInv, Ordered
  <1>7. link
    BY <1>0 DEF HostInv
  <1> QED BY <1>0, <1>1, <1>2, <1>3, <1>4, <1>5, <1>6, <1>7, TaskMoves

LEMMA StepSelect ==
  ASSUME DInv, Firm, Select
  PROVE  DInv'
  <1>0. /\ TypeOK /\ AppInv /\ TaskInv /\ OvertakeInv /\ OrderInv /\ SetInv /\ HostInv
        /\ ~Removing /\ Listed = valid \cup Passed /\ (world.above => ~Adding) /\ task.pc = "select" /\ set # <<>>
    BY TaskAlone DEF DInv, Select
  <1>1. /\ task' = [pc |-> "find", cur |-> next[Anchor], sel |-> Head(set)] /\ set' = Tail(set)
        /\ UNCHANGED <<world, link, channels, next, memory, valid, addr, dst, queue, inset, lost, ns, app, tx, rx, heard>>
    BY DEF Select, host, device
  <1>2. /\ Listed' = Listed /\ Grouped' = Grouped /\ Passed' = Passed /\ inset = Grouped
        /\ ns' \in BOOLEAN /\ set \in Seq(Devices) /\ set' \in Seq(Devices) /\ inset \subseteq Devices
        /\ valid \subseteq Grouped /\ Grouped \subseteq valid \cup {app.dev} /\ (~Adding => Grouped = valid)
    BY <1>0, <1>1, AppRests, AppStays DEF TypeOK, SetInv
  <1>3. PICK r \in Ranks : Ordered(r)
    BY <1>0 DEF OrderInv
  <1>4. InOrder(next, Listed, r)
    BY <1>2, <1>3 DEF Ordered
  <1>5. Head(set) \in valid
    <2>1. 1 \in DOMAIN set /\ Head(set) = set[1]
      BY <1>0, <1>2
    <2>2. Head(set) \in Grouped /\ Head(set) \in Devices
      BY <2>1, <1>0, <1>2 DEF SetInv
    <2>3. ASSUME Adding, Head(set) = app.dev PROVE FALSE
      <3>1. queue[app.dev] = <<>>
        BY <2>3, <1>0 DEF OvertakeInv
      <3>2. Count(set, app.dev) + Found(app.dev) = 0 /\ Found(app.dev) = 0
        BY <2>2, <2>3, <3>1, <1>0, <1>2 DEF SetInv, Found
      <3>3. Count(set, app.dev) = Count(Tail(set), app.dev) + 1
        BY <2>2, <2>3, <1>0, <1>2, CountTail
      <3>4. Count(Tail(set), app.dev) \in Nat
        BY <1>1, <1>2, CountType
      <3> QED BY <3>2, <3>3, <3>4
    <2> QED BY <2>2, <2>3, <1>2
  <1>6. next[Anchor] \in Listed /\ Head(set) \in Listed /\ r[Head(set)] <= r[next[Anchor]]
    BY <1>0, <1>4, <1>5 DEF InOrder
  <1>7. task'.pc = "find" /\ task'.cur = next[Anchor] /\ task'.sel = Head(set) /\ task' \in TaskRec
    BY <1>0, <1>1, <1>2, <1>5, <1>6, AppStays DEF TaskRec, TypeOK
  <1>8. TaskInv'
    BY <1>0, <1>1, <1>2, <1>5, <1>6, <1>7 DEF TaskInv
  <1>9. OrderInv'
    <2>1. Ordered(r)'
      BY <1>1, <1>2, <1>4, <1>6, <1>7 DEF Ordered
    <2> QED BY <2>1 DEF OrderInv, Ranks
  <1>10. SetInv'
    <2>1. ASSUME NEW d \in inset PROVE Count(set', d) + Found(d)' = Len(queue[d])
      <3>1. Count(set, d) = Count(Tail(set), d) + IF Head(set) = d THEN 1 ELSE 0
        BY <1>0, <1>2, CountTail
      <3>2. Found(d) = 0 /\ Found(d)' = IF Head(set) = d THEN 1 ELSE 0
        BY <1>0, <1>7 DEF Found
      <3>3. Count(set, d) + Found(d) = Len(queue[d])
        BY <1>0 DEF SetInv
      <3>4. Count(set, d) \in Nat /\ Count(Tail(set), d) \in Nat
        BY <1>1, <1>2, CountType
      <3> QED BY <3>1, <3>2, <3>3, <3>4, <1>1
    <2>2. \A i \in DOMAIN set' : set'[i] \in inset
      <3>1. \A i \in DOMAIN Tail(set) : i + 1 \in DOMAIN set /\ Tail(set)[i] = set[i + 1]
        BY <1>0, <1>2
      <3> QED BY <3>1, <1>0, <1>1 DEF SetInv
    <2> QED BY <2>1, <2>2, <1>1, <1>2 DEF SetInv
  <1>11. link
    BY <1>0 DEF HostInv
  <1> QED BY <1>0, <1>1, <1>2, <1>7, <1>8, <1>9, <1>10, <1>11, TaskMoves DEF Fresh

LEMMA StepFindNext ==
  ASSUME DInv, Firm, FindNext
  PROVE  DInv'
  <1>0. /\ TypeOK /\ AppInv /\ TaskInv /\ OvertakeInv /\ OrderInv /\ SetInv /\ HostInv
        /\ ~Removing /\ Listed = valid \cup Passed /\ task \in TaskRec /\ task.pc = "find" /\ task.cur # task.sel
    BY Records, TaskAlone DEF DInv, FindNext
  <1>1. /\ task'.pc = "find" /\ task'.cur = next[task.cur] /\ task'.sel = task.sel
        /\ UNCHANGED <<world, link, channels, next, memory, valid, addr, dst, queue, inset, set, lost, ns, app, tx, rx, heard>>
    BY <1>0 DEF FindNext, host, device, queues, TaskRec
  <1>2. /\ Listed' = Listed /\ Grouped' = Grouped /\ Passed' = Passed /\ Listed \subseteq Devices
        /\ ns' \in BOOLEAN /\ set' \in Seq(Devices) /\ task.cur \in Listed /\ task.sel \in valid
        /\ task.sel \in Listed
    BY <1>0, <1>1, AppRests, AppStays DEF TypeOK, TaskInv
  <1>3. PICK r \in Ranks : Ordered(r)
    BY <1>0 DEF OrderInv
  <1>4. InOrder(next, Listed, r) /\ r[task.sel] <= r[task.cur]
    BY <1>0, <1>2, <1>3 DEF Ordered
  <1>5. r[task.sel] < r[task.cur]
    <2>1. r[task.sel] # r[task.cur]
      BY <1>0, <1>2, <1>4 DEF InOrder
    <2>2. r[task.sel] \in Nat /\ r[task.cur] \in Nat
      BY <1>2 DEF Ranks
    <2> QED BY <1>4, <2>1, <2>2
  <1>6. next[task.cur] \in Listed /\ r[task.sel] <= r[next[task.cur]]
    BY <1>2, <1>4, <1>5 DEF InOrder
  <1>7. task' \in TaskRec
    BY <1>0, <1>2, <1>6 DEF FindNext, TaskRec
  <1>8. TaskInv'
    BY <1>0, <1>1, <1>2, <1>6 DEF TaskInv
  <1>9. OrderInv'
    <2>1. Ordered(r)'
      BY <1>1, <1>2, <1>4, <1>6 DEF Ordered
    <2> QED BY <2>1 DEF OrderInv, Ranks
  <1>10. SetInv'
    BY <1>0, <1>1, <1>2, KeepSet DEF Found
  <1>11. link
    BY <1>0 DEF HostInv
  <1> QED BY <1>0, <1>1, <1>2, <1>7, <1>8, <1>9, <1>10, <1>11, TaskMoves DEF Fresh


LEMMA StepTaskAnnounce ==
  ASSUME DInv, Firm, TaskAnnounce
  PROVE  DInv'
  <1>0. /\ TypeOK /\ AppInv /\ AddrInv /\ TaskInv /\ OvertakeInv /\ OrderInv /\ SetInv /\ CanAnswer /\ HostInv
        /\ ~Removing /\ Listed = valid \cup Passed /\ Public = Listed /\ task \in TaskRec /\ task.pc = "announce" /\ task.cur # NULL
    BY Records, TaskAlone DEF DInv, TaskAnnounce
  <1>1. /\ task'.pc = "announce" /\ task'.cur = next[task.cur] /\ task'.sel = task.sel
        /\ tx' = Append(tx, Create(task.cur, addr[task.cur]))
        /\ UNCHANGED <<world, link, channels, next, memory, valid, addr, dst, queue, inset, set, lost, ns, app, rx, heard>>
    BY <1>0 DEF TaskAnnounce, Announce, host, device, queues, TaskRec
  <1>3. /\ Bound' = Bound /\ Listed' = Listed /\ Grouped' = Grouped /\ Known' = Known
        /\ Passed' = Passed /\ Public' = Public
        /\ Listed \subseteq Bound /\ Known \subseteq Listed /\ Listed \subseteq Devices
    BY <1>0, <1>1, AppRests, AppStays
  <1>2. PICK d \in Devices : d = task.cur /\ d \in Listed
    BY <1>0, <1>3 DEF TaskInv
  <1>4. /\ HostInv' /\ tx' \in Seq(Message)
        /\ \A e \in Devices : Told(channels, tx, e) => Told(channels', tx', e)
        /\ Told(channels', tx', d)
    <2> DEFINE m == Create(d, addr[d])
    <2>1. m \in Message /\ m.dev = d /\ m.from = addr[d] /\ m.kind = "create"
      BY <1>0, <1>2, <1>3 DEF Message, Create, AddrInv, TypeOK
    <2>2. link
      BY <1>0 DEF HostInv
    <2>3. tx' = Append(tx, m)
      BY <1>1, <1>2
    <2>4. /\ Known' \subseteq Known \cup {m.dev} /\ Public \cup {m.dev} \subseteq Public'
          /\ Known' \subseteq Devices
      BY <1>0, <1>2, <1>3, <2>1
    <2> HIDE DEF m
    <2> QED BY <2>1, <2>2, <2>3, <2>4, <1>0, <1>1, <1>3, SendHost
  <1>5. PICK r \in Ranks : Ordered(r)
    BY <1>0 DEF OrderInv
  <1>6. /\ InOrder(next, Listed, r)
        /\ \A e \in Known : Told(channels, tx, e) \/ r[e] <= r[d]
    BY <1>0, <1>2, <1>3, <1>5 DEF Ordered
  <1>7. next[d] \in Listed \cup {NULL}
    BY <1>2, <1>6 DEF InOrder
  <1>8. ASSUME NEW e \in Known PROVE Told(channels', tx', e) \/ (next[d] # NULL /\ r[e] <= r[next[d]])
    <2>1. CASE Told(channels, tx, e) \/ e = d
      BY <2>1, <1>3, <1>4
    <2>2. CASE r[e] <= r[d] /\ e # d
      <3>1. r[e] # r[d]
        BY <2>2, <1>2, <1>3, <1>6 DEF InOrder
      <3>2. r[e] \in Nat /\ r[d] \in Nat
        BY <1>3 DEF Ranks
      <3>3. r[e] < r[d]
        BY <3>1, <3>2, <2>2
      <3> QED BY <3>3, <1>2, <1>3, <1>6 DEF InOrder
    <2> QED BY <2>1, <2>2, <1>6
  <1>9. OrderInv'
    <2>1. Ordered(r)'
      BY <1>1, <1>2, <1>3, <1>6, <1>8 DEF Ordered
    <2> QED BY <2>1 DEF OrderInv, Ranks
  <1>10. task' \in TaskRec
    BY <1>0, <1>2, <1>3, <1>7 DEF TaskAnnounce, TaskRec
  <1>11. TypeOK'
    BY <1>0, <1>1, <1>4, <1>10 DEF TypeOK, TaskRec
  <1>12. AppInv'
    BY <1>0, <1>1 DEF AppInv, Removing, Adding
  <1>13. AddrInv'
    BY <1>0, <1>1, <1>3, KeepAddr
  <1>14. TaskInv'
    BY <1>0, <1>1, <1>2, <1>3, <1>7 DEF TaskInv
  <1>15. SetInv'
    BY <1>0, <1>1, <1>3, KeepSet DEF Found
  <1>16. CanAnswer'
    BY <1>0, <1>1 DEF CanAnswer
  <1>17. OvertakeInv'
    BY <1>0, <1>1, KeepOvertake DEF OvertakeInv
  <1> QED BY <1>4, <1>9, <1>11, <1>12, <1>13, <1>14, <1>15, <1>16, <1>17 DEF DInv

LEMMA StepProcess ==
  ASSUME DInv, Firm, oblfr_process_queue
  PROVE  DInv'
  <1>0. /\ TypeOK /\ AppInv /\ AddrInv /\ TaskInv /\ OvertakeInv /\ OrderInv /\ SetInv /\ CanAnswer /\ HostInv
        /\ ~Removing /\ task \in TaskRec /\ task.pc = "find" /\ task.cur = task.sel
    BY Records, TaskAlone DEF DInv, oblfr_process_queue
  <1>1. /\ task'.pc = "callback" /\ task'.cur = task.cur /\ task'.sel = task.sel /\ task' \in TaskRec
        /\ queue[task.cur] # <<>> /\ queue' = [queue EXCEPT ![task.cur] = Tail(@)]
        /\ dst' = [dst EXCEPT ![task.cur] = Head(queue[task.cur])] /\ heard' = heard \cup {task.cur}
        /\ UNCHANGED <<world, link, channels, next, memory, valid, addr, inset, set, lost, ns, app, tx, rx>>
    BY <1>0 DEF oblfr_process_queue, host, TaskRec
  <1>2. PICK d \in Devices : d = task.cur /\ d \in valid
    BY <1>0 DEF TaskInv, TypeOK
  <1>3. /\ Bound' = Bound /\ Listed' = Listed /\ Grouped' = Grouped /\ Known' = Known
        /\ Passed' = Passed /\ Public' = Public /\ valid \subseteq Grouped /\ valid \subseteq Devices
    BY <1>0, <1>1, AppRests, AppStays DEF TypeOK
  <1>4. queue[d] \in Seq(Sources) /\ queue[d] # <<>>
    BY <1>0, <1>1, <1>2 DEF TypeOK
  <1>5. /\ Head(queue[d]) \in Sources /\ Tail(queue[d]) \in Seq(Sources)
        /\ Len(Tail(queue[d])) = Len(queue[d]) - 1 /\ Len(queue[d]) \in Nat
    BY <1>4
  <1>6. /\ queue'[d] = Tail(queue[d]) /\ dst'[d] = Head(queue[d])
        /\ \A e \in Devices \ {d} : queue'[e] = queue[e] /\ dst'[e] = dst[e]
    BY <1>0, <1>1, <1>2 DEF TypeOK
  <1>7. TypeOK'
    <2>1. queue' \in [Devices -> Seq(Sources)] /\ dst' \in [Devices -> Sources \cup {RL_ADDR_ANY, Down, Garbage}]
      BY <1>0, <1>1, <1>2, <1>5 DEF TypeOK
    <2> QED BY <2>1, <1>0, <1>1, <1>2 DEF TypeOK, TaskRec
  <1>8. AppInv'
    BY <1>0, <1>1, <1>2 DEF AppInv, Removing, Adding
  <1>9. AddrInv'
    BY <1>0, <1>1, <1>3, KeepAddr
  <1>10. TaskInv'
    BY <1>0, <1>1 DEF TaskInv
  <1>11. OrderInv'
    BY <1>0, <1>1, <1>3, NoWalk
  <1>12. SetInv'
    <2>1. inset = Grouped /\ inset \subseteq Devices
      BY <1>0 DEF SetInv, TypeOK
    <2>2. ASSUME NEW e \in inset PROVE Count(set', e) + Found(e)' = Len(queue'[e])
      <3>1. Count(set, e) + Found(e) = Len(queue[e])
        BY <1>0 DEF SetInv
      <3>2. Count(set, e) \in Nat
        BY <1>0, CountType DEF TypeOK
      <3>3. Found(e)' = 0 /\ Found(e) = IF e = d THEN 1 ELSE 0
        BY <1>0, <1>1, <1>2 DEF Found
      <3>4. CASE e = d
        <4>1. Len(queue'[e]) = Len(queue[e]) - 1 /\ Len(queue[e]) \in Nat
          BY <3>4, <1>5, <1>6
        <4>2. Count(set', e) = Count(set, e)
          BY <1>1
        <4> QED BY <3>1, <3>2, <3>3, <3>4, <4>1, <4>2
      <3>5. CASE e # d
        BY <3>1, <3>2, <3>3, <3>5, <1>1, <1>6, <2>1
      <3> QED BY <3>4, <3>5
    <2> QED BY <2>1, <2>2, <1>0, <1>1, <1>3 DEF SetInv
  <1>14. CanAnswer'
    <2>1. dst'[d] # RL_ADDR_ANY
      BY <1>5, <1>6, Names
    <2> QED BY <2>1, <1>0, <1>1, <1>2, <1>3, <1>6 DEF CanAnswer
  <1>15. HostInv'
    <2>1. \A e \in Known : ~Fresh(e)
      BY <1>0 DEF Fresh
    <2> QED BY <2>1, <1>0, <1>1, <1>3, KeepHost DEF HostInv
  <1>16. OvertakeInv'
    <2>1. Adding => app.dev \in Devices \ {d}
      BY <1>0, <1>2 DEF AppInv, Adding, TypeOK
    <2> QED BY <2>1, <1>0, <1>1, <1>3, <1>6, KeepOvertake DEF OvertakeInv
  <1> QED BY <1>7, <1>8, <1>9, <1>10, <1>11, <1>12, <1>14, <1>15, <1>16 DEF DInv

LEMMA StepCallback ==
  ASSUME DInv, Firm, Callback
  PROVE  DInv'
  <1>0. /\ TypeOK /\ AppInv /\ AddrInv /\ TaskInv /\ OvertakeInv /\ OrderInv /\ SetInv /\ CanAnswer /\ HostInv
        /\ ~Removing /\ task.pc = "callback"
    BY TaskAlone DEF DInv, Callback
  <1>1. /\ task' = [pc |-> "select", cur |-> NULL, sel |-> NULL]
        /\ UNCHANGED <<world, link, channels, next, memory, valid, addr, dst, queue, inset, set, lost, ns, app, rx, heard>>
    BY DEF Callback, host, device, queues
  <1>2. tx' = tx \/ (Sendable(task.cur) /\ tx' = Append(tx, Data(task.cur, addr[task.cur])))
    BY DEF Callback, Announce
  <1>3. Bound' = Bound /\ Listed' = Listed /\ Grouped' = Grouped /\ Known' = Known /\ Public' = Public
    BY <1>1, AppRests
  <1>4. HostInv' /\ tx' \in Seq(Message)
    <2>1. CASE tx' = tx
      <3>1. \A e \in Known : ~Fresh(e)
        BY <1>0 DEF Fresh
      <3>2. link
        BY <1>0 DEF HostInv
      <3>3. HostInv'
        BY <2>1, <3>1, <3>2, <1>0, <1>1, <1>3, KeepHost
      <3> QED BY <2>1, <3>3, <1>0 DEF TypeOK
    <2>2. CASE Sendable(task.cur) /\ tx' = Append(tx, Data(task.cur, addr[task.cur]))
      BY <2>2, <1>0, <1>1, SendData
    <2> QED BY <1>2, <2>1, <2>2
  <1>5. task'.pc = "select" /\ task'.cur = NULL /\ task'.sel = NULL /\ task' \in TaskRec
    BY <1>1 DEF TaskRec
  <1>7. TypeOK'
    BY <1>0, <1>1, <1>4, <1>5 DEF TypeOK, TaskRec
  <1>8. AppInv'
    BY <1>0, <1>1 DEF AppInv, Removing, Adding
  <1>9. AddrInv'
    BY <1>0, <1>1, <1>3, KeepAddr
  <1>10. TaskInv'
    BY <1>5 DEF TaskInv
  <1>11. OrderInv'
    BY <1>0, <1>1, <1>3, <1>5, NoWalk
  <1>12. SetInv'
    BY <1>0, <1>1, <1>3, <1>5, KeepSet DEF Found
  <1>14. CanAnswer'
    BY <1>0, <1>1 DEF CanAnswer
  <1>16. OvertakeInv'
    BY <1>0, <1>1, KeepOvertake DEF OvertakeInv
  <1> QED BY <1>4, <1>7, <1>8, <1>9, <1>10, <1>11, <1>12, <1>14, <1>16 DEF DInv


-----------------------------------------------------------------------------
(* The interrupt. *)
LEMMA RxTail ==
  ASSUME rx \in Seq(Letter), rx # <<>>
  PROVE  /\ Tail(rx) \in Seq(Letter) /\ Head(rx) \in Letter
         /\ \A i \in DOMAIN Tail(rx) : i + 1 \in DOMAIN rx /\ Tail(rx)[i] = rx[i + 1]
         /\ 1 \in DOMAIN rx /\ Head(rx) = rx[1]
  OBVIOUS

LEMMA StepRxCb ==
  ASSUME DInv, rpmsg_queue_rx_cb
  PROVE  DInv'
  <1>0. /\ TypeOK /\ AppInv /\ AddrInv /\ TaskInv /\ OvertakeInv /\ OrderInv /\ SetInv /\ CanAnswer /\ HostInv
        /\ rx \in Seq(Letter) /\ rx # <<>>
    BY Records DEF DInv, rpmsg_queue_rx_cb
  <1>1. /\ rx' = Tail(rx)
        /\ UNCHANGED <<world, link, channels, next, memory, valid, addr, dst, inset, lost, ns, task, app, tx, heard>>
    BY DEF rpmsg_queue_rx_cb, host, device
  <1>2. PICK d \in Devices : /\ addr[d] = Head(rx).to /\ Head(rx).to # Ns
                             /\ queue' = [queue EXCEPT ![d] = Append(@, Head(rx).src)]
                             /\ set' = IF d \in inset THEN Append(set, d) ELSE set
    BY DEF rpmsg_queue_rx_cb, Owner
  <1>3. /\ Bound' = Bound /\ Listed' = Listed /\ Grouped' = Grouped /\ Known' = Known
        /\ Public' = Public
        /\ ~Removing /\ valid \subseteq Grouped /\ valid \subseteq Devices /\ valid \subseteq Bound
    <2>1. ~Removing
      BY <1>0 DEF AppInv
    <2> QED BY <2>1, <1>0, <1>1, AppRests, AppStays DEF TypeOK
  <1>4. Head(rx).src \in Sources /\ rx' \in Seq(Letter)
    BY <1>0, <1>1, RxTail DEF Letter
  <1>5. queue[d] \in Seq(Sources) /\ set \in Seq(Devices)
    BY <1>0 DEF TypeOK
  <1>6. /\ queue'[d] = Append(queue[d], Head(rx).src)
        /\ \A e \in Devices \ {d} : queue'[e] = queue[e]
    BY <1>0, <1>2 DEF TypeOK
  <1>7. TypeOK'
    <2>1. queue' \in [Devices -> Seq(Sources)]
      BY <1>0, <1>2, <1>4, <1>5 DEF TypeOK
    <2>2. set' \in Seq(Devices)
      BY <1>2, <1>5
    <2> QED BY <2>1, <2>2, <1>0, <1>1, <1>4 DEF TypeOK, Letter
  <1>8. AppInv'
    BY <1>0, <1>1, <1>3 DEF AppInv, Removing, Adding
  <1>9. AddrInv'
    BY <1>0, <1>1, <1>3, KeepAddr
  <1>10. TaskInv'
    BY <1>0, <1>1 DEF TaskInv, Passed, During
  <1>11. OrderInv'
    BY <1>0, <1>1, <1>3, KeepOrder DEF OrderInv, Ordered
  <1>12. SetInv'
    <2>1. inset = Grouped /\ \A e \in valid \cup inset : e \in inset /\ Found(e)' = Found(e)
      BY <1>0, <1>1, <1>3 DEF SetInv, Found
    <2>2. ASSUME NEW e \in inset PROVE Count(set', e) + Found(e)' = Len(queue'[e])
      <3>0. e \in Devices
        BY <1>0 DEF TypeOK
      <3>1. Count(set, e) + Found(e) = Len(queue[e]) /\ Found(e)' = Found(e) /\ Found(e) \in {0, 1}
        BY <1>0, <2>1 DEF SetInv, Found
      <3>2. Count(set, e) \in Nat
        BY <1>5, CountType
      <3>3. CASE e = d
        <4>1. Count(set', e) = Count(set, e) + 1
          BY <3>3, <1>2, <1>5, CountAppend
        <4>2. Len(queue'[e]) = Len(queue[e]) + 1
          BY <3>3, <1>4, <1>5, <1>6
        <4> QED BY <3>1, <3>2, <4>1, <4>2
      <3>4. CASE e # d
        <4>1. Count(set', e) = Count(set, e)
          BY <3>0, <3>2, <3>4, <1>2, <1>5, CountAppend
        <4>2. queue'[e] = queue[e]
          BY <3>0, <3>4, <1>6
        <4> QED BY <3>1, <4>1, <4>2
      <3> QED BY <3>3, <3>4
    <2>3. \A i \in DOMAIN set' : set'[i] \in inset
      <3>1. CASE d \in inset
        <4>1. set' = Append(set, d) /\ \A i \in DOMAIN set : set[i] \in inset
          BY <3>1, <1>0, <1>2 DEF SetInv
        <4>2. \A i \in DOMAIN Append(set, d) : Append(set, d)[i] = d \/ (i \in DOMAIN set /\ Append(set, d)[i] = set[i])
          BY <1>5
        <4> QED BY <3>1, <4>1, <4>2
      <3>2. CASE d \notin inset
        BY <3>2, <1>0, <1>2 DEF SetInv
      <3> QED BY <3>1, <3>2
    <2> QED BY <2>1, <2>2, <2>3, <1>1, <1>3 DEF SetInv
  <1>14. CanAnswer'
    BY <1>0, <1>1 DEF CanAnswer
  <1>15. HostInv'
    <2>1. \A e \in Known : Fresh(e) => Fresh(e)'
      BY <1>0, <1>1, RxTail DEF Fresh
    <2>2. link
      BY <1>0 DEF HostInv
    <2> QED BY <2>1, <2>2, <1>0, <1>1, <1>3, KeepHost
  <1>16. OvertakeInv'
    <2>1. \A i \in DOMAIN rx' : ~world.above /\ rx'[i].to # Ns => \E e \in valid : addr[e] = rx'[i].to
      BY <1>0, <1>1, RxTail DEF OvertakeInv
    <2>2. ASSUME Adding, ~world.above PROVE app.dev \in Devices \ {d}
      <3>1. PICK e \in valid : addr[e] = Head(rx).to
        BY <2>2, <1>0, <1>2, RxTail DEF OvertakeInv
      <3>2. Head(rx).to # NoAddr
        BY <1>2, <1>0, RxTail, Names DEF Letter
      <3>3. d \in Bound /\ e \in Bound
        BY <3>1, <3>2, <1>0, <1>2, <1>3 DEF AddrInv
      <3>4. d = e
        BY <3>1, <3>3, <1>0, <1>2 DEF AddrInv
      <3> QED BY <3>4, <2>2, <1>0 DEF AppInv, Adding, TypeOK
    <2> QED BY <2>1, <2>2, <1>0, <1>1, <1>3, <1>6, KeepOvertake
  <1> QED BY <1>7, <1>8, <1>9, <1>10, <1>11, <1>12, <1>14, <1>15, <1>16 DEF DInv

(* Messages go to nobody, or come; and destinations are set. *)
LEMMA RxMoves ==
  ASSUME DInv, link, rx' \in Seq(Letter), Removing => rx' = rx,
         \A i \in DOMAIN rx' : ~world.above /\ rx'[i].to # Ns => \E d \in valid : addr[d] = rx'[i].to,
         UNCHANGED <<world, link, channels, next, memory, valid, addr, queue, inset, set, lost, ns, task, app, tx, heard>>,
         dst' \in [Devices -> Sources \cup {RL_ADDR_ANY, Down, Garbage}],
         \A d \in heard : dst'[d] # RL_ADDR_ANY,
         \A d \in Known : Fresh(d) => /\ d \in valid => dst'[d] = RL_ADDR_ANY
                                      /\ \A i \in DOMAIN rx' : rx'[i].to = Ns => rx'[i].src # d
  PROVE  DInv'
  <1>0. TypeOK /\ AppInv /\ AddrInv /\ TaskInv /\ OvertakeInv /\ OrderInv /\ SetInv /\ CanAnswer /\ HostInv
    BY DEF DInv
  <1>3. Bound' = Bound /\ Listed' = Listed /\ Grouped' = Grouped /\ Known' = Known /\ Public' = Public
    BY AppRests
  <1>7. TypeOK'
    BY <1>0 DEF TypeOK, Letter
  <1>8. AppInv'
    BY <1>0 DEF AppInv, Removing, Adding
  <1>9. AddrInv'
    BY <1>0, <1>3, KeepAddr
  <1>10. TaskInv'
    BY <1>0 DEF TaskInv, Passed, During
  <1>11. OrderInv'
    BY <1>0, <1>3, KeepOrder DEF OrderInv, Ordered
  <1>12. SetInv'
    BY <1>0, <1>3, KeepSet DEF Found
  <1>14. CanAnswer'
    BY DEF CanAnswer
  <1>15. HostInv'
    <2>1. \A e \in Known : Fresh(e) => Fresh(e)'
      BY DEF Fresh
    <2> QED BY <2>1, <1>0, <1>3, KeepHost
  <1>16. OvertakeInv'
    BY <1>0, KeepOvertake
  <1> QED BY <1>7, <1>8, <1>9, <1>10, <1>11, <1>12, <1>14, <1>15, <1>16 DEF DInv

LEMMA StepNoEndpoint ==
  ASSUME DInv, NoEndpoint
  PROVE  DInv'
  <1>0. TypeOK /\ AppInv /\ OvertakeInv /\ CanAnswer /\ HostInv /\ rx \in Seq(Letter) /\ rx # <<>>
    BY Records DEF DInv, NoEndpoint
  <1>1. /\ rx' = Tail(rx)
        /\ UNCHANGED <<world, link, channels, next, memory, valid, addr, dst, queue, inset, set, lost, ns, task, app, tx, heard>>
    BY DEF NoEndpoint, host, device, queues
  <1>2. link /\ ~Removing /\ rx' \in Seq(Letter)
    BY <1>0, <1>1, RxTail DEF AppInv, HostInv
  <1>3. dst' \in [Devices -> Sources \cup {RL_ADDR_ANY, Down, Garbage}] /\ \A d \in heard : dst'[d] # RL_ADDR_ANY
    BY <1>0, <1>1 DEF TypeOK, CanAnswer, AppInv
  <1>4. \A d \in Known : Fresh(d) => /\ d \in valid => dst'[d] = RL_ADDR_ANY
                                     /\ \A i \in DOMAIN rx' : rx'[i].to = Ns => rx'[i].src # d
    BY <1>0, <1>1, RxTail DEF Fresh
  <1>10. \A i \in DOMAIN rx' : ~world.above /\ rx'[i].to # Ns => \E d \in valid : addr[d] = rx'[i].to
    BY <1>0, <1>1, RxTail DEF OvertakeInv
  <1> QED BY <1>1, <1>2, <1>3, <1>4, <1>10, RxMoves

LEMMA StepNsCallback ==
  ASSUME DInv, ipc_rpmsg_ns_callback
  PROVE  DInv'
  <1>0. TypeOK /\ AppInv /\ OvertakeInv /\ CanAnswer /\ HostInv /\ rx \in Seq(Letter) /\ rx # <<>> /\ Head(rx).to = Ns
    BY Records DEF DInv, ipc_rpmsg_ns_callback
  <1>1. /\ rx' = Tail(rx)
        /\ UNCHANGED <<world, link, channels, next, memory, valid, addr, queue, inset, set, lost, ns, task, app, tx, heard>>
    BY DEF ipc_rpmsg_ns_callback, host, queues
  <1>2. link /\ ~Removing /\ rx' \in Seq(Letter)
    BY <1>0, <1>1, RxTail DEF AppInv, HostInv
  <1>3. PICK s : s = Head(rx).src
    OBVIOUS
  <1>4. /\ dst' = dst \/ (s \in Devices /\ dst[s] = RL_ADDR_ANY /\ (dst' = [dst EXCEPT ![s] = s] \/ dst' = [dst EXCEPT ![s] = Down]))
    BY <1>3 DEF ipc_rpmsg_ns_callback, Linked
  <1>5. dst \in [Devices -> Sources \cup {RL_ADDR_ANY, Down, Garbage}] /\ heard \subseteq Devices
        /\ \A d \in heard : dst[d] # RL_ADDR_ANY
    BY <1>0 DEF TypeOK, CanAnswer, AppInv
  <1>6. dst' \in [Devices -> Sources \cup {RL_ADDR_ANY, Down, Garbage}]
    BY <1>4, <1>5 DEF Sources
  <1>7. \A d \in Devices \ {s} : dst'[d] = dst[d]
    BY <1>4, <1>5
  <1>8. \A d \in heard : dst'[d] # RL_ADDR_ANY
    BY <1>4, <1>5, <1>7
  <1>9. ASSUME NEW d \in Known, Fresh(d)
        PROVE  /\ d \in valid => dst'[d] = RL_ADDR_ANY
               /\ \A i \in DOMAIN rx' : rx'[i].to = Ns => rx'[i].src # d
    <2>1. d # s
      BY <1>0, <1>3, <1>9, RxTail DEF Fresh
    <2>2. \A i \in DOMAIN rx' : rx'[i].to = Ns => rx'[i].src # d
      BY <1>0, <1>1, <1>9, RxTail DEF Fresh
    <2>3. d \in valid => dst'[d] = RL_ADDR_ANY
      BY <2>1, <1>0, <1>7, <1>9 DEF Fresh, TypeOK
    <2> QED BY <2>2, <2>3
  <1>10. \A i \in DOMAIN rx' : ~world.above /\ rx'[i].to # Ns => \E d \in valid : addr[d] = rx'[i].to
    BY <1>0, <1>1, RxTail DEF OvertakeInv
  <1> QED BY <1>1, <1>2, <1>6, <1>8, <1>9, <1>10, RxMoves


-----------------------------------------------------------------------------
(* Linux. *)
LEMMA StepHostLinkUp ==
  ASSUME DInv, HostLinkUp
  PROVE  DInv'
  <1>0. TypeOK /\ AppInv /\ AddrInv /\ TaskInv /\ OvertakeInv /\ OrderInv /\ SetInv /\ CanAnswer /\ HostInv
    BY DEF DInv
  <1>1. /\ link' = TRUE
        /\ UNCHANGED <<world, channels, next, memory, valid, addr, dst, queue, inset, set, lost, ns, task, app, tx, rx, heard>>
    BY DEF HostLinkUp, device, queues
  <1>3. Bound' = Bound /\ Listed' = Listed /\ Grouped' = Grouped /\ Known' = Known /\ Public' = Public
    BY <1>1, AppRests
  <1>7. TypeOK'
    BY <1>0, <1>1 DEF TypeOK
  <1>8. AppInv'
    BY <1>0, <1>1 DEF AppInv, Removing, Adding
  <1>9. AddrInv'
    BY <1>0, <1>1, <1>3, KeepAddr
  <1>10. TaskInv'
    BY <1>0, <1>1 DEF TaskInv, Passed, During
  <1>11. OrderInv'
    BY <1>0, <1>1, <1>3, KeepOrder DEF OrderInv, Ordered
  <1>12. SetInv'
    BY <1>0, <1>1, <1>3, KeepSet DEF Found
  <1>14. CanAnswer'
    BY <1>0, <1>1 DEF CanAnswer
  <1>15. HostInv'
    <2>1. \A e \in Known : Fresh(e) => Fresh(e)'
      BY <1>1 DEF Fresh
    <2> QED BY <2>1, <1>0, <1>1, <1>3 DEF HostInv
  <1>16. OvertakeInv'
    BY <1>0, <1>1, KeepOvertake DEF OvertakeInv
  <1> QED BY <1>7, <1>8, <1>9, <1>10, <1>11, <1>12, <1>14, <1>15, <1>16 DEF DInv

LEMMA StepHostRead ==
  ASSUME DInv, HostRead
  PROVE  DInv'
  <1>0. /\ TypeOK /\ AppInv /\ AddrInv /\ TaskInv /\ OvertakeInv /\ OrderInv /\ SetInv /\ CanAnswer /\ HostInv
        /\ tx \in Seq(Message) /\ channels \in Chs /\ tx # <<>>
    BY Records DEF DInv, HostRead
  <1>1. /\ tx' = Tail(tx) /\ channels' = After(channels, Head(tx))
        /\ UNCHANGED <<world, link, next, memory, valid, addr, dst, queue, inset, set, lost, ns, task, app, rx, heard>>
    BY DEF HostRead, After, device, queues
  <1>2. /\ Bound' = Bound /\ Listed' = Listed /\ Grouped' = Grouped /\ Known' = Known /\ Known \subseteq Devices
        /\ Public' = Public
    BY <1>0, <1>1, AppRests DEF Known, During, TypeOK, AppInv
  <1>3. Agree(channels, tx) /\ Preceded(channels, tx) /\ link
    BY <1>0 DEF HostInv
  <1>4. /\ channels' \in Chs /\ Agree(channels', tx') /\ Preceded(channels', tx')
        /\ \A d \in Devices : /\ \A a \in Addrs : Live(channels', tx', d, a) => Live(channels, tx, d, a)
                              /\ Told(channels, tx, d) => Told(channels', tx', d)
                              /\ Mentioned(channels', tx', d) => Mentioned(channels, tx, d)
    BY <1>0, <1>1, <1>3, ReadView
  <1>5. tx' \in Seq(Message)
    BY <1>0, <1>1
  <1>7. TypeOK'
    BY <1>0, <1>1, <1>4, <1>5 DEF TypeOK, Chs
  <1>8. AppInv'
    BY <1>0, <1>1 DEF AppInv, Removing, Adding
  <1>9. AddrInv'
    BY <1>0, <1>1, <1>2, KeepAddr
  <1>10. TaskInv'
    BY <1>0, <1>1 DEF TaskInv, Passed, During
  <1>11. OrderInv'
    BY <1>0, <1>1, <1>2, <1>4, KeepOrder
  <1>12. SetInv'
    BY <1>0, <1>1, <1>2, KeepSet DEF Found
  <1>14. CanAnswer'
    BY <1>0, <1>1 DEF CanAnswer
  <1>15. HostInv'
    <2>1. \A e \in Known : Fresh(e) => Fresh(e)'
      BY <1>1, <1>2, <1>4 DEF Fresh
    <2>2. \A d \in Devices, a \in Addrs : Live(channels', tx', d, a) => d \in Public' /\ addr'[d] = a
      BY <1>0, <1>1, <1>2, <1>4 DEF HostInv
    <2>3. \A d \in Known' : Told(channels', tx', d) \/ Fresh(d)'
      BY <2>1, <1>0, <1>2, <1>4 DEF HostInv
    <2> QED BY <2>2, <2>3, <1>1, <1>3, <1>4 DEF HostInv
  <1>16. OvertakeInv'
    BY <1>0, <1>1, KeepOvertake DEF OvertakeInv
  <1> QED BY <1>7, <1>8, <1>9, <1>10, <1>11, <1>12, <1>14, <1>15, <1>16 DEF DInv

(* A message to a device, or the announcement of an endpoint whose channel  *)
(* Linux knows.                                                             *)
LEMMA StepPost ==
  ASSUME DInv, Firm, NEW to \in Addrs \cup {Ns}, NEW src \in Sources, NEW up \in BOOLEAN,
         Post(to, src, up), to = Ns => \E c \in channels : c.dev = src,
         ~world.above /\ to # Ns => \E d \in valid : addr[d] = to
  PROVE  DInv'
  <1>0. TypeOK /\ AppInv /\ OvertakeInv /\ CanAnswer /\ HostInv /\ rx \in Seq(Letter) /\ link /\ ~Removing /\ channels \in Chs
    BY Records DEF DInv, Post, Firm
  <1>1. /\ rx' = Append(rx, [to |-> to, src |-> src, up |-> up])
        /\ UNCHANGED <<world, link, channels, next, memory, valid, addr, dst, queue, inset, set, lost, ns, task, app, tx, heard>>
    BY DEF Post, host, device, queues
  <1>2. [to |-> to, src |-> src, up |-> up] \in Letter
    BY DEF Letter
  <1>3. rx' \in Seq(Letter)
    BY <1>0, <1>1, <1>2
  <1>4. dst' \in [Devices -> Sources \cup {RL_ADDR_ANY, Down, Garbage}] /\ \A d \in heard : dst'[d] # RL_ADDR_ANY
    BY <1>0, <1>1 DEF TypeOK, CanAnswer, AppInv
  <1>5. ASSUME NEW d \in Known, Fresh(d)
        PROVE  /\ d \in valid => dst'[d] = RL_ADDR_ANY
               /\ \A i \in DOMAIN rx' : rx'[i].to = Ns => rx'[i].src # d
    <2>1. to = Ns => src # d
      <3> SUFFICES ASSUME to = Ns, src = d PROVE FALSE
        OBVIOUS
      <3>1. PICK c \in channels : c.dev = d
        OBVIOUS
      <3>2. c = [dev |-> d, addr |-> c.addr] /\ c.addr \in Addrs
        BY <3>1, <1>0 DEF Chs
      <3>3. Says(channels, tx, 0, d, c.addr)
        BY <3>1, <3>2 DEF Says
      <3>4. Len(tx) \in Nat
        BY <1>0 DEF TypeOK
      <3> QED BY <3>2, <3>3, <3>4, <1>5 DEF Fresh, Mentioned
    <2>2. ASSUME NEW i \in DOMAIN rx' PROVE rx'[i].to = Ns => rx'[i].src # d
      <3>1. (i \in DOMAIN rx /\ rx'[i] = rx[i]) \/ rx'[i] = [to |-> to, src |-> src, up |-> up]
        BY <1>0, <1>1, <1>2
      <3> QED BY <3>1, <2>1, <1>5 DEF Fresh
    <2> QED BY <2>2, <1>1, <1>5 DEF Fresh
  <1>6. \A i \in DOMAIN rx' : ~world.above /\ rx'[i].to # Ns => \E d \in valid : addr[d] = rx'[i].to
    <2> SUFFICES ASSUME NEW i \in DOMAIN rx', ~world.above, rx'[i].to # Ns
                 PROVE  \E d \in valid : addr[d] = rx'[i].to
      OBVIOUS
    <2>1. (i \in DOMAIN rx /\ rx'[i] = rx[i]) \/ rx'[i] = [to |-> to, src |-> src, up |-> up]
      BY <1>0, <1>1, <1>2
    <2> QED BY <2>1, <1>0 DEF OvertakeInv
  <1> QED BY <1>0, <1>1, <1>3, <1>4, <1>5, <1>6, RxMoves

LEMMA StepHost ==
  ASSUME DInv, Firm, Host
  PROVE  DInv'
  <1>0. channels \in Chs
    BY Records DEF DInv
  <1>1. CASE HostSend
    <2>1. PICK c \in channels : Welcome(c) /\ Post(c.addr, c.dev, FALSE)
      BY <1>1 DEF HostSend
    <2>2. c.addr \in Addrs /\ c.dev \in Sources
      BY <1>0 DEF Chs, Sources
    <2>3. c.addr # Ns
      BY <2>2, Names
    <2>4. ~world.above => \E d \in valid : addr[d] = c.addr
      BY <2>1 DEF Welcome, Firm
    <2> QED BY <2>1, <2>2, <2>3, <2>4, StepPost
  <1>2. CASE HostStray
    <2>1. PICK a \in Addrs : world.stray /\ Post(a, Stranger, FALSE)
      BY <1>2 DEF HostStray
    <2> QED BY <2>1, StepPost, Names DEF Sources, Firm
  <1>3. CASE HostName
    <2>1. PICK c \in channels, up \in BOOLEAN : Post(Ns, c.dev, up)
      BY <1>3 DEF HostName
    <2>2. c.dev \in Sources
      BY <1>0 DEF Chs, Sources
    <2> QED BY <2>1, <2>2, StepPost
  <1> QED BY <1>1, <1>2, <1>3 DEF Host

-----------------------------------------------------------------------------
(* At the start there is no device. *)
LEMMA InitDevices ==
  ASSUME Init
  PROVE  DInv
  <1>1. /\ link = FALSE /\ channels = {} /\ next = [d \in Devices \cup {Anchor} |-> NULL]
        /\ memory = {} /\ valid = {} /\ addr = [d \in Devices |-> NoAddr]
        /\ inset = {} /\ set = <<>> /\ task = [pc |-> "down", cur |-> NULL, sel |-> NULL]
        /\ app = [pc |-> "idle", dev |-> NULL] /\ tx = <<>> /\ rx = <<>> /\ heard = {}
    BY DEF Init
  <1>2. Bound = {} /\ Listed = {} /\ Grouped = {} /\ Known = {} /\ Public = {} /\ Passed = {}
    BY <1>1, AppIdle
  <1>3. TypeOK
    <2>1. /\ <<>> \in Seq(Sources) /\ <<>> \in Seq(Devices) /\ <<>> \in Seq(Message) /\ rx \in Seq(Letter)
      BY <1>1
    <2>2. task \in TaskRec /\ app \in AppRec
      BY <1>1 DEF TaskRec, AppRec
    <2>3. queue \in [Devices -> Seq(Sources)] /\ dst \in [Devices -> Sources \cup {RL_ADDR_ANY, Down, Garbage}]
      BY <2>1 DEF Init
    <2>4. /\ next \in [Devices \cup {Anchor} -> Devices \cup {NULL}] /\ addr \in [Devices -> Addrs \cup {NoAddr}]
          /\ channels \subseteq [dev : Devices, addr : Addrs] /\ world \in Worlds /\ ns \in BOOLEAN /\ lost \in Nat
      BY DEF Init
    <2> QED BY <2>1, <2>2, <2>3, <2>4, <1>1 DEF TypeOK, TaskRec, AppRec, Letter
  <1>4. AppInv
    BY <1>1 DEF AppInv, Removing, Adding
  <1>5. AddrInv
    BY <1>1, <1>2 DEF AddrInv
  <1>6. TaskInv
    BY <1>1 DEF TaskInv
  <1>7. OrderInv
    <2> DEFINE r == [x \in Devices \cup {Anchor} |-> 0]
    <2>1. r \in Ranks
      BY DEF Ranks
    <2>2. InOrder(next, {}, r)
      BY <1>1 DEF InOrder
    <2>3. Ordered(r)
      BY <2>2, <1>1, <1>2 DEF Ordered
    <2> HIDE DEF r
    <2> QED BY <2>1, <2>3 DEF OrderInv
  <1>8. SetInv
    BY <1>1, <1>2 DEF SetInv
  <1>9. CanAnswer
    BY <1>1 DEF CanAnswer
  <1>10. HostInv
    <2>1. tx = <<>> /\ Len(tx) = 0 /\ 0 .. Len(tx) = {0} /\ 1 .. Len(tx) = {}
      BY <1>1
    <2>2. Agree(channels, tx) /\ Preceded(channels, tx)
      BY <1>1, <2>1 DEF Agree, Preceded, Says
    <2>3. \A d \in Devices, a \in Addrs : ~Live(channels, tx, d, a)
      BY <1>1, <2>1 DEF Live, Says
    <2> QED BY <2>2, <2>3, <1>1, <1>2 DEF HostInv
  <1>11. OvertakeInv
    BY <1>1 DEF OvertakeInv, Removing, Adding
  <1> QED BY <1>3, <1>4, <1>5, <1>6, <1>7, <1>8, <1>9, <1>10, <1>11 DEF DInv

(* Every step keeps the invariant. *)
LEMMA NextDevices ==
  ASSUME IInv, [Next]_vars
  PROVE  IInv'
  <1>1. world' = world
    BY DEF vars, Next, Call, Add, Remove, Task, Interrupt, Host, oblfr_rpmsg_device_add, oblfr_rpmsg_device_remove,
           oblfr_rpmsg_device_send, AddInsert, AddToSet, AddFailed, AddCheck, AddAnnounce, AddReset,
           RemoveAnnounce, RemoveUnlink, RemoveFromSet, RemoveEndpoint, RemoveFree, TaskLinkUp, rpmsg_ns_bind,
           TaskAnnounce, TaskAnnounced, Select, FindNext, oblfr_process_queue, Callback, rpmsg_queue_rx_cb,
           NoEndpoint, ipc_rpmsg_ns_callback, HostLinkUp, HostRead, HostSend, HostStray, HostName, Post
  <1> SUFFICES ASSUME Firm, DInv PROVE DInv'
    BY <1>1 DEF IInv, Firm
  <1>2. CASE Call
    BY <1>2, StepAdd, StepRemove, StepSend DEF Call
  <1>3. CASE Add
    BY <1>3, StepInsert, StepToSet, StepFailed, StepCheck, StepAnnounce, StepReset DEF Add
  <1>4. CASE Remove
    BY <1>4, StepDestroy, StepRemoveUnlink, StepFromSet, StepEndpoint, StepFree DEF Remove
  <1>5. CASE Task
    BY <1>5, StepLinkUp, StepBind, StepTaskAnnounce, StepTaskAnnounced, StepSelect, StepFindNext, StepProcess,
       StepCallback DEF Task
  <1>6. CASE Interrupt
    BY <1>6, StepRxCb, StepNoEndpoint, StepNsCallback DEF Interrupt
  <1>7. CASE HostLinkUp \/ HostRead
    BY <1>7, StepHostLinkUp, StepHostRead
  <1>8. CASE Host
    BY <1>8, StepHost
  <1>9. CASE UNCHANGED vars
    <2>0. TypeOK /\ AppInv /\ AddrInv /\ TaskInv /\ OvertakeInv /\ OrderInv /\ SetInv /\ CanAnswer /\ HostInv
      BY DEF DInv
    <2>1. UNCHANGED <<world, link, channels, next, memory, valid, addr, dst, queue, inset, set, lost, ns, task, app, tx, rx, heard>>
      BY <1>9 DEF vars, host, device, queues
    <2>2. /\ Bound' = Bound /\ Listed' = Listed /\ Grouped' = Grouped /\ Known' = Known
          /\ Passed' = Passed /\ Public' = Public
      BY <2>1, AppRests
    <2>3. TypeOK' /\ AppInv' /\ TaskInv' /\ CanAnswer'
      BY <2>0, <2>1, <2>2 DEF TypeOK, AppInv, Removing, Adding, TaskInv, CanAnswer
    <2>4. AddrInv'
      BY <2>0, <2>1, <2>2, KeepAddr
    <2>5. OrderInv'
      BY <2>0, <2>1, <2>2, KeepOrder DEF OrderInv, Ordered
    <2>6. SetInv'
      BY <2>0, <2>1, <2>2, KeepSet DEF Found
    <2>7. \A d \in Known : Fresh(d) => Fresh(d)'
      BY <2>1 DEF Fresh
    <2>8. HostInv'
      BY <2>0, <2>1, <2>2, <2>7, KeepHost DEF HostInv
    <2>9. OvertakeInv'
      BY <2>0, <2>1, KeepOvertake DEF OvertakeInv
    <2> QED BY <2>9, <2>3, <2>4, <2>5, <2>6, <2>8 DEF DInv
  <1> QED BY <1>2, <1>3, <1>4, <1>5, <1>6, <1>7, <1>8, <1>9 DEF Next


(* The inductive invariant: in careful surroundings, list, endpoints, queue *)
(* set and what Linux has been told fit together at every step of           *)
(* oblfr_rpmsg_device_add and _remove, wherever the rpmsg task comes in     *)
(* between.                                                                 *)
THEOREM InductiveInvariant == Spec => []IInv
  <1>1. Init => IInv
    BY InitDevices DEF IInv
  <1>2. IInv /\ [Next]_vars => IInv'
    BY NextDevices
  <1> QED BY <1>1, <1>2, PTL DEF Spec

(* The LIST_FOREACHs of oblfr_rpmsg_task over the unlocked list stay on     *)
(* devices that are allocated and announce only endpoints that exist.       *)
THEOREM WalkAliveCorrect == Spec => [](Firm => WalkAlive)
  <1>1. IInv => (Firm => WalkAlive)
    <2> SUFFICES ASSUME DInv PROVE WalkAlive
      BY DEF IInv
    <2>1. TypeOK /\ TaskInv /\ AddrInv /\ AppInv
      BY DEF DInv
    <2>2. task.cur # NULL => task.cur \in valid \cup Passed
      BY <2>1, Records DEF TaskInv, TaskRec
    <2>3. valid \cup Passed \subseteq memory /\ memory \subseteq Devices
      BY <2>1 DEF TypeOK, AppInv, Passed, During
    <2>4. ASSUME task.pc = "announce", task.cur # NULL PROVE addr[task.cur] # NoAddr
      <3>1. task.cur \in Bound
        BY <2>1, <2>2, <2>4 DEF Bound, Passed, During, AppInv, Removing
      <3> QED BY <3>1, <2>1, <2>2, <2>3, <2>4 DEF AddrInv
    <2> QED BY <2>1, <2>2, <2>3, <2>4 DEF WalkAlive
  <1> QED BY <1>1, InductiveInvariant, PTL

(* Every message in a queue of a device has its entry in the queue set, and *)
(* the walk for it finds the device: "Received message on unknown queue" is *)
(* not reached.                                                             *)
THEOREM SetExactCorrect == Spec => [](Firm => SetExact)
  <1>1. IInv => (Firm => SetExact)
    <2> SUFFICES ASSUME DInv PROVE SetExact
      BY DEF IInv
    <2>1. \A d \in valid : Count(set, d) + Found(d) = Len(queue[d])
      BY DEF DInv, SetInv
    <2>2. ~Unknown
      BY Names DEF Unknown, DInv, TaskInv, TypeOK, AppInv, Passed, During
    <2> QED BY <2>1, <2>2 DEF SetExact, Count, Found
  <1> QED BY <1>1, InductiveInvariant, PTL

(* A device whose callback has seen a message keeps a destination, whatever *)
(* ipc_rpmsg_ns_callback and the calls for other devices do.                *)
THEOREM CanAnswerCorrect == Spec => [](Firm => CanAnswer)
  <1>1. IInv => (Firm => CanAnswer)
    BY DEF IInv, DInv
  <1> QED BY <1>1, InductiveInvariant, PTL

(* Once the announcements have arrived Linux has a channel for every device *)
(* of the application, at its address, and for no other; and it never gets  *)
(* data of a device it does not know.                                       *)
THEOREM HostViewCorrect == Spec => [](Firm => HostView)
  <1>1. IInv => (Firm => HostView)
    <2> SUFFICES ASSUME DInv PROVE HostView
      BY DEF IInv
    <2>1. /\ TypeOK /\ HostInv /\ tx \in Seq(Message) /\ channels \in Chs
      BY Records DEF DInv
    <2>2. /\ Agree(channels, tx) /\ Preceded(channels, tx)
          /\ \A d \in Devices, a \in Addrs : Live(channels, tx, d, a) => d \in Public /\ addr[d] = a
          /\ \A d \in Known : Told(channels, tx, d) \/ Fresh(d)
      BY <2>1 DEF HostInv
    <2>3. ASSUME Settled PROVE channels = {[dev |-> d, addr |-> addr[d]] : d \in valid}
      <3>1. /\ Known = valid /\ Public = valid /\ valid \subseteq Devices /\ tx = <<>> /\ 0 .. Len(tx) = {0}
            /\ task.pc \notin {"down", "bind", "announce"}
        BY <2>1, <2>3, AppIdle DEF Settled, TypeOK
      <3>2. \A d : Kept(tx, 0, Len(tx), d)
        BY <3>1 DEF Kept
      <3>3. ASSUME NEW c \in channels PROVE \E d \in valid : c = [dev |-> d, addr |-> addr[d]]
        <4>1. c.dev \in Devices /\ c.addr \in Addrs /\ c = [dev |-> c.dev, addr |-> c.addr]
          BY <2>1 DEF Chs
        <4>2. Live(channels, tx, c.dev, c.addr)
          BY <3>1, <3>2, <4>1 DEF Live, Says
        <4>3. c.dev \in valid /\ addr[c.dev] = c.addr
          BY <4>1, <4>2, <2>2, <3>1
        <4> QED BY <4>1, <4>3
      <3>4. ASSUME NEW d \in valid PROVE [dev |-> d, addr |-> addr[d]] \in channels
        <4>1. Told(channels, tx, d)
          BY <2>2, <3>1 DEF Fresh
        <4>2. PICK a \in Addrs : Live(channels, tx, d, a)
          BY <4>1, <2>1, <3>1, ToldLive
        <4>3. addr[d] = a
          BY <4>2, <2>2, <3>1
        <4> QED BY <4>2, <4>3, <3>1 DEF Live, Says
      <3> QED BY <3>3, <3>4
    <2>4. AnnouncedFirst
      <3> SUFFICES ASSUME tx # <<>>, Head(tx).kind = "data"
                   PROVE  [dev |-> Head(tx).dev, addr |-> Head(tx).from] \in channels
        BY DEF AnnouncedFirst
      <3> DEFINE m == Head(tx)
      <3>1. Len(tx) \in Nat \ {0} /\ m = tx[1] /\ m \in Message
        BY <2>1
      <3>2. m.dev \in Devices /\ m.from \in Addrs
        BY <3>1 DEF Message
      <3> HIDE DEF m
      <3>3. PICK j \in 0 .. 1 - 1 : Tells(channels, tx, j, m.dev) /\ Kept(tx, j, 1, m.dev)
        BY <3>1, <2>2 DEF Preceded, m
      <3>4. PICK c \in channels : c.dev = m.dev
        BY <3>3 DEF Tells
      <3>5. c.addr \in Addrs /\ c = [dev |-> m.dev, addr |-> c.addr]
        BY <3>4, <2>1 DEF Chs
      <3>6. Says(channels, tx, 0, m.dev, c.addr) /\ Says(channels, tx, 1, m.dev, m.from)
        BY <3>1, <3>4, <3>5 DEF Says, m
      <3>7. Kept(tx, 0, 1, m.dev) /\ 0 \in 0 .. Len(tx) /\ 1 \in 0 .. Len(tx) /\ 0 <= 1
        BY <3>1, <3>3
      <3>8. c.addr = m.from
        BY <3>2, <3>5, <3>6, <3>7, <2>2 DEF Agree
      <3> QED BY <3>4, <3>5, <3>8 DEF m
    <2> QED BY <2>3, <2>4 DEF HostView
  <1> QED BY <1>1, InductiveInvariant, PTL

=============================================================================
