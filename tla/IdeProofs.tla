------------------------------ MODULE IdeProofs ------------------------------
(***************************************************************************)
(* Proofs about Ide, for every set of callers and of requests, all sizes   *)
(* of the disk, its sectors and its cache.                                 *)
(***************************************************************************)
EXTENDS Ide, ListProofs

\* The sectors of the disk: their addresses are on it, whole sectors.
LEMMA SectorAddresses ==
    ASSUME NEW q \in Sectors, NEW b \in 0 .. SectorSize - 1
    PROVE  /\ q \in Nat
           /\ q * SectorSize + b \in Addresses
           /\ (q * SectorSize + b) \div SectorSize = q
           /\ (q * SectorSize + b) % SectorSize = b
<1> DEFINE n == Cardinality(Addresses)
           S == SectorSize
<1>1. /\ S \in Nat \ {0} /\ n \in Nat /\ Addresses = 0 .. n - 1 /\ n % S = 0
  BY DiskAssumption, FS_CardinalityType
<1>2. PICK a \in Addresses : q = a \div S
  BY DEF Sectors
<1> HIDE DEF n
<1>3. a \in Nat /\ a < n
  BY <1>1
<1> HIDE DEF S
<1>4. q \in Nat /\ a % S \in 0 .. S - 1 /\ a = q * S + (a % S)
  BY <1>1, <1>2, <1>3, Quotient
<1>5. n \div S \in Nat /\ n = (n \div S) * S
  <2>1. n \div S \in Nat /\ n = (n \div S) * S + (n % S)
    BY <1>1, Quotient
  <2>2. (n \div S) * S \in Nat
    BY <1>1, <2>1
  <2> QED
    BY <1>1, <2>1, <2>2
<1>6. b \in 0 .. S - 1
  BY DEF S
<1>7. /\ q * S + b \in Nat
      /\ (q * S + b) \div S = q /\ (q * S + b) % S = b
  BY <1>1, <1>4, <1>6, Division
<1>8. q * S \in Nat
  BY <1>1, <1>4
<1>9. q < n \div S
  <2> SUFFICES ASSUME ~(q < n \div S) PROVE FALSE
    OBVIOUS
  <2>1. q = n \div S \/ n \div S < q
    BY <1>4, <1>5
  <2>2. CASE q = n \div S
    <3>1. a = n + (a % S)
      BY <1>4, <1>5, <2>2
    <3> QED
      BY <1>1, <1>3, <1>4, <3>1
  <2>3. CASE n \div S < q
    <3>1. (n \div S) * S + S <= q * S
      BY <1>1, <1>4, <1>5, <2>3, Scaled
    <3>2. \A x, y, r \in Nat : r = x + y => x <= r
      OBVIOUS
    <3>3. n + S <= q * S
      BY <1>5, <3>1
    <3> QED
      BY <1>1, <1>3, <1>4, <1>8, <3>3
  <2> QED
    BY <2>1, <2>2, <2>3
<1>10. q * S + S <= n
  BY <1>1, <1>4, <1>5, <1>9, Scaled
<1>11. q * S + b <= n - 1
  BY <1>1, <1>6, <1>8, <1>10
<1>12. q * S + b \in Addresses
  BY <1>1, <1>7, <1>11
<1> QED
  BY <1>4, <1>7, <1>12 DEF S

\* An address is in its sector.
LEMMA AddressSector ==
    ASSUME NEW a \in Addresses
    PROVE  /\ a \in Nat
           /\ a \div SectorSize \in Sectors /\ a \div SectorSize \in Nat
           /\ a % SectorSize \in 0 .. SectorSize - 1
<1>1. SectorSize \in Nat \ {0} /\ a \in Nat
  <2>1. Cardinality(Addresses) \in Nat
    BY DiskAssumption, FS_CardinalityType
  <2> QED
    BY DiskAssumption, <2>1
<1>2. a \div SectorSize \in Sectors
  BY DEF Sectors
<1> QED
  BY <1>1, <1>2, Quotient

\* What a mailbox has after a message was put into it ...
LEMMA Delivered ==
    ASSUME NEW S, NEW s \in Seq(S), NEW e \in S
    PROVE  /\ Append(s, e) \in Seq(S)
           /\ \A T : Has(Append(s, e), T) <=> Has(s, T) \/ e \in T
           /\ \A T : Single(s, T) /\ ~(e \in T /\ Has(s, T)) => Single(Append(s, e), T)
<1> DEFINE t == Append(s, e)
<1>1. /\ t \in Seq(S) /\ Len(t) = Len(s) + 1 /\ Len(s) \in Nat
      /\ \A j \in 1 .. Len(s) : t[j] = s[j]
      /\ t[Len(s) + 1] = e
  BY AppendProperties, LenProperties
<1> HIDE DEF t
<1>2. 1 .. Len(t) = (1 .. Len(s)) \cup {Len(s) + 1}
  BY <1>1
<1>3. ASSUME NEW T PROVE Has(t, T) <=> Has(s, T) \/ e \in T
  BY <1>1, <1>2 DEF Has
<1>4. ASSUME NEW T, Single(s, T), ~(e \in T /\ Has(s, T)) PROVE Single(t, T)
  <2> SUFFICES ASSUME NEW j \in 1 .. Len(t), NEW k \in 1 .. Len(t), t[j] \in T, t[k] \in T
               PROVE  j = k
    BY DEF Single
  <2>1. CASE j \in 1 .. Len(s) /\ k \in 1 .. Len(s)
    BY <1>1, <1>4, <2>1 DEF Single
  <2>2. CASE ~(j \in 1 .. Len(s) /\ k \in 1 .. Len(s))
    BY <1>1, <1>2, <1>4, <2>2 DEF Has
  <2> QED
    BY <2>1, <2>2
<1> QED
  BY <1>1, <1>3, <1>4 DEF t

\* ... or taken out of it.
LEMMA Collected ==
    ASSUME NEW S, NEW s \in Seq(S), NEW k \in 1 .. Len(s)
    PROVE  /\ RemoveAt(s, k) \in Seq(S) /\ s[k] \in S
           /\ \A T : Has(RemoveAt(s, k), T) => Has(s, T)
           /\ \A T : s[k] \in T => Has(s, T)
           /\ \A T : s[k] \notin T => (Has(RemoveAt(s, k), T) <=> Has(s, T))
           /\ \A T : Single(s, T) => Single(RemoveAt(s, k), T)
           /\ \A T : Single(s, T) /\ s[k] \in T => ~Has(RemoveAt(s, k), T)
<1> DEFINE t == RemoveAt(s, k)
           from(j) == IF j < k THEN j ELSE j + 1
<1>1. Len(s) \in Nat /\ k \in 1 .. Len(s) /\ s[k] \in S
  BY LenProperties, ElementOfSeq
<1>2. /\ t \in Seq(S) /\ Len(t) = Len(s) - 1
      /\ \A j \in 1 .. Len(t) : t[j] = s[from(j)]
  BY RemoveAtElements
<1> HIDE DEF t
<1>3. \A j \in 1 .. Len(t) : from(j) \in 1 .. Len(s) /\ from(j) # k
  BY <1>1, <1>2
<1>4. \A j, l \in 1 .. Len(t) : from(j) = from(l) => j = l
  BY <1>1, <1>2
<1>5. \A l \in 1 .. Len(s) : l # k => \E j \in 1 .. Len(t) : from(j) = l
  <2> SUFFICES ASSUME NEW l \in 1 .. Len(s), l # k PROVE \E j \in 1 .. Len(t) : from(j) = l
    OBVIOUS
  <2>1. CASE l < k
    <3>1. l \in 1 .. Len(t) /\ from(l) = l
      BY <1>1, <1>2, <2>1
    <3> QED
      BY <3>1
  <2>2. CASE l > k
    <3>1. l - 1 \in 1 .. Len(t) /\ from(l - 1) = l
      BY <1>1, <1>2, <2>2
    <3> QED
      BY <3>1
  <2> QED
    BY <1>1, <2>1, <2>2
<1> HIDE DEF from
<1>6. ASSUME NEW T, Has(t, T) PROVE Has(s, T)
  BY <1>2, <1>3, <1>6 DEF Has
<1>7. ASSUME NEW T, s[k] \in T PROVE Has(s, T)
  BY <1>1, <1>7 DEF Has
<1>8. ASSUME NEW T, s[k] \notin T, Has(s, T) PROVE Has(t, T)
  BY <1>2, <1>5, <1>8 DEF Has
<1>9. ASSUME NEW T, Single(s, T) PROVE Single(t, T)
  BY <1>2, <1>3, <1>4, <1>9 DEF Single
<1>10. ASSUME NEW T, Single(s, T), s[k] \in T PROVE ~Has(t, T)
  BY <1>1, <1>2, <1>3, <1>10 DEF Single, Has
<1> QED
  BY <1>1, <1>2, <1>6, <1>7, <1>8, <1>9, <1>10 DEF t

(***************************************************************************)
(* The messages are told apart by who sends them.                          *)
(***************************************************************************)
LEMMA Kinds ==
    /\ \A x \in FmMessage : x.src \in Callers /\ x.io \in Requests /\ x # Answer("IDE")
    /\ \A y \in DeviceRequests : y.src = "FM" /\ y # Ready /\ y # WriteBack
    /\ Ready # WriteBack /\ Ready.src = "HARD" /\ WriteBack.src = "HARD"
    /\ "FM" \notin Callers /\ "IDE" \notin Callers
    /\ Nobody \notin Requests /\ Answer("IDE").src = "IDE"
    /\ \A c : Answer("IDE") \notin From(c)
    /\ \A c \in Callers : From(c) \subseteq FmMessage
    /\ \A x \in FmMessage, c \in Callers : x \in From(c) <=> x.src = c
    /\ \A x \in FmMessage : Device(x) \in DeviceRequests
<1>1. \A x \in FmMessage : x.src \in Callers /\ x.io \in Requests
  BY DEF FmMessage
<1>2. Callers \cap {"FM", "IDE", "HARD", "ANY"} = {}
  BY DiskAssumption
<1>3. Answer("IDE").src = "IDE"
  BY DEF Answer
<1>4. Answer("IDE") \notin FmMessage
  BY <1>1, <1>2, <1>3
<1>5. \A y \in DeviceRequests : y.src = "FM"
  BY DEF DeviceRequests, Device
<1>6. Ready.src = "HARD" /\ WriteBack.src = "HARD" /\ Ready # WriteBack
  BY DEF Ready, WriteBack
<1>7. Nobody \notin Requests
  <2>1. Requests \subseteq RequestRecord
    BY DiskAssumption
  <2>2. \A r \in RequestRecord : DOMAIN r = {"op", "file", "offset", "length", "data"}
    BY DEF RequestRecord
  <2>3. "op" \notin DOMAIN Nobody
    BY DEF Nobody
  <2> QED
    BY <2>1, <2>2, <2>3
<1>8. \A c : Answer("IDE") \notin From(c)
  <2> SUFFICES ASSUME NEW c, Answer("IDE") \in From(c) PROVE FALSE
    OBVIOUS
  <2>1. DOMAIN Answer("IDE") = {"src", "io"}
    BY DEF From
  <2>2. "type" \in DOMAIN Answer("IDE")
    BY DEF Answer
  <2> QED
    BY <2>1, <2>2
<1>9. \A c \in Callers : From(c) \subseteq FmMessage
  BY DEF From, FmMessage
<1>10. \A x \in FmMessage, c \in Callers : x \in From(c) <=> x.src = c
  BY DEF From, FmMessage
<1>11. \A x \in FmMessage : Device(x) \in DeviceRequests
  BY DEF DeviceRequests
<1> QED
  BY <1>1, <1>2, <1>3, <1>4, <1>5, <1>6, <1>7, <1>8, <1>9, <1>10, <1>11

\* What each part of the invariant is about.
LEMMA KeepsBoxes ==
    ASSUME ServersInv, UNCHANGED box PROVE BoxesTyped'
  BY DEF ServersInv, BoxesTyped

LEMMA KeepsFlight ==
    ASSUME ServersInv, UNCHANGED <<box["IDE"], box["FM"], fm, m>>, Serving' = Serving
    PROVE  OneInFlight'
  BY DEF ServersInv, OneInFlight, Sent, Done

LEMMA KeepsOwn ==
    ASSUME ServersInv, UNCHANGED <<box["FM"], fm, want>>,
           \A c \in Callers : box'[c] = box[c]
    PROVE  OwnRequests'
  BY DEF ServersInv, OwnRequests, OnItsWay

LEMMA KeepsDrive ==
    ASSUME ServersInv, UNCHANGED <<box["IDE"], drive, at, m, i, cache>>
    PROVE  DriveMatches'
  BY DEF ServersInv, DriveMatches, Awaiting, WriteSlot, Slot, Sector, Address, Io

LEMMA KeepsCache ==
    ASSUME ServersInv, UNCHANGED <<box["IDE"], at, m, i, cache, disk>>
    PROVE  CacheMatches'
  BY DEF ServersInv, CacheMatches, Serving, MustEvict, OnDisk, Slot, Sector, Address, Io

LEMMA KeepsClean ==
    ASSUME ServersInv, UNCHANGED <<cache, disk>>
    PROVE  CleanIsOnDisk'
  BY DEF ServersInv, CleanIsOnDisk

(***************************************************************************)
(* A mailbox that is changed, and the others.                              *)
(***************************************************************************)
LEMMA ToFm ==
    ASSUME BoxesTyped, NEW x \in FmMessage \cup {Answer("IDE")}, Deliver("FM", x)
    PROVE  /\ BoxesTyped'
           /\ box'["IDE"] = box["IDE"] /\ \A c \in Callers : box'[c] = box[c]
           /\ \A T : Has(box'["FM"], T) <=> Has(box["FM"], T) \/ x \in T
           /\ \A T : Single(box["FM"], T) /\ ~(x \in T /\ Has(box["FM"], T))
                     => Single(box'["FM"], T)
<1> DEFINE s == box["FM"]
<1>1. s \in Seq(FmMessage \cup {Answer("IDE")})
  BY DEF BoxesTyped
<1>2. /\ box'["FM"] = Append(s, x) /\ DOMAIN box' = DOMAIN box
      /\ \A p \in DOMAIN box : p # "FM" => box'[p] = box[p]
  BY DEF Deliver, BoxesTyped
<1> HIDE DEF s
<1>3. /\ Append(s, x) \in Seq(FmMessage \cup {Answer("IDE")})
      /\ \A T : Has(Append(s, x), T) <=> Has(s, T) \/ x \in T
      /\ \A T : Single(s, T) /\ ~(x \in T /\ Has(s, T)) => Single(Append(s, x), T)
  BY <1>1, Delivered
<1>4. box'["IDE"] = box["IDE"] /\ \A c \in Callers : box'[c] = box[c]
  BY <1>2, Kinds DEF BoxesTyped
<1>5. BoxesTyped'
  BY <1>2, <1>3, <1>4 DEF BoxesTyped
<1> QED
  BY <1>2, <1>3, <1>4, <1>5 DEF s

LEMMA ToIde ==
    ASSUME BoxesTyped, NEW x \in DeviceRequests \cup {Ready, WriteBack}, Deliver("IDE", x)
    PROVE  /\ BoxesTyped'
           /\ box'["FM"] = box["FM"] /\ \A c \in Callers : box'[c] = box[c]
           /\ \A T : Has(box'["IDE"], T) <=> Has(box["IDE"], T) \/ x \in T
           /\ \A T : Single(box["IDE"], T) /\ ~(x \in T /\ Has(box["IDE"], T))
                     => Single(box'["IDE"], T)
<1> DEFINE s == box["IDE"]
<1>1. s \in Seq(DeviceRequests \cup {Ready, WriteBack})
  BY DEF BoxesTyped
<1>2. /\ box'["IDE"] = Append(s, x) /\ DOMAIN box' = DOMAIN box
      /\ \A p \in DOMAIN box : p # "IDE" => box'[p] = box[p]
  BY DEF Deliver, BoxesTyped
<1> HIDE DEF s
<1>3. /\ Append(s, x) \in Seq(DeviceRequests \cup {Ready, WriteBack})
      /\ \A T : Has(Append(s, x), T) <=> Has(s, T) \/ x \in T
      /\ \A T : Single(s, T) /\ ~(x \in T /\ Has(s, T)) => Single(Append(s, x), T)
  BY <1>1, Delivered
<1>4. box'["FM"] = box["FM"] /\ \A c \in Callers : box'[c] = box[c]
  BY <1>2, Kinds DEF BoxesTyped
<1>5. BoxesTyped'
  BY <1>2, <1>3, <1>4 DEF BoxesTyped
<1> QED
  BY <1>2, <1>3, <1>4, <1>5 DEF s

LEMMA FromFm ==
    ASSUME BoxesTyped, NEW f, NEW k \in Oldest("FM", f), Collect("FM", k)
    PROVE  /\ BoxesTyped'
           /\ box["FM"][k] \in FmMessage \cup {Answer("IDE")}
           /\ box'["IDE"] = box["IDE"] /\ \A c \in Callers : box'[c] = box[c]
           /\ f = "ANY" \/ f = box["FM"][k].src
           /\ \A T : Has(box'["FM"], T) => Has(box["FM"], T)
           /\ \A T : box["FM"][k] \in T => Has(box["FM"], T)
           /\ \A T : box["FM"][k] \notin T => (Has(box'["FM"], T) <=> Has(box["FM"], T))
           /\ \A T : Single(box["FM"], T) => Single(box'["FM"], T)
           /\ \A T : Single(box["FM"], T) /\ box["FM"][k] \in T => ~Has(box'["FM"], T)
<1> DEFINE s == box["FM"]
<1>1. s \in Seq(FmMessage \cup {Answer("IDE")})
  BY DEF BoxesTyped
<1>2. /\ box'["FM"] = RemoveAt(s, k) /\ DOMAIN box' = DOMAIN box
      /\ \A p \in DOMAIN box : p # "FM" => box'[p] = box[p]
  BY DEF Collect, BoxesTyped
<1>3. k \in 1 .. Len(s) /\ (f = "ANY" \/ f = s[k].src)
  BY DEF Oldest, Accepts
<1> HIDE DEF s
<1>4. /\ RemoveAt(s, k) \in Seq(FmMessage \cup {Answer("IDE")})
      /\ s[k] \in FmMessage \cup {Answer("IDE")}
      /\ \A T : Has(RemoveAt(s, k), T) => Has(s, T)
      /\ \A T : s[k] \in T => Has(s, T)
      /\ \A T : s[k] \notin T => (Has(RemoveAt(s, k), T) <=> Has(s, T))
      /\ \A T : Single(s, T) => Single(RemoveAt(s, k), T)
      /\ \A T : Single(s, T) /\ s[k] \in T => ~Has(RemoveAt(s, k), T)
  BY <1>1, <1>3, Collected
<1>5. box'["IDE"] = box["IDE"] /\ \A c \in Callers : box'[c] = box[c]
  BY <1>2, Kinds DEF BoxesTyped
<1>6. BoxesTyped'
  BY <1>2, <1>4, <1>5 DEF BoxesTyped
<1> QED
  BY <1>2, <1>3, <1>4, <1>5, <1>6 DEF s

LEMMA FromIde ==
    ASSUME BoxesTyped, NEW f, NEW k \in Oldest("IDE", f), Collect("IDE", k)
    PROVE  /\ BoxesTyped'
           /\ box["IDE"][k] \in DeviceRequests \cup {Ready, WriteBack}
           /\ box'["FM"] = box["FM"] /\ \A c \in Callers : box'[c] = box[c]
           /\ f = "ANY" \/ f = box["IDE"][k].src
           /\ \A T : Has(box'["IDE"], T) => Has(box["IDE"], T)
           /\ \A T : box["IDE"][k] \in T => Has(box["IDE"], T)
           /\ \A T : box["IDE"][k] \notin T => (Has(box'["IDE"], T) <=> Has(box["IDE"], T))
           /\ \A T : Single(box["IDE"], T) => Single(box'["IDE"], T)
           /\ \A T : Single(box["IDE"], T) /\ box["IDE"][k] \in T => ~Has(box'["IDE"], T)
<1> DEFINE s == box["IDE"]
<1>1. s \in Seq(DeviceRequests \cup {Ready, WriteBack})
  BY DEF BoxesTyped
<1>2. /\ box'["IDE"] = RemoveAt(s, k) /\ DOMAIN box' = DOMAIN box
      /\ \A p \in DOMAIN box : p # "IDE" => box'[p] = box[p]
  BY DEF Collect, BoxesTyped
<1>3. k \in 1 .. Len(s) /\ (f = "ANY" \/ f = s[k].src)
  BY DEF Oldest, Accepts
<1> HIDE DEF s
<1>4. /\ RemoveAt(s, k) \in Seq(DeviceRequests \cup {Ready, WriteBack})
      /\ s[k] \in DeviceRequests \cup {Ready, WriteBack}
      /\ \A T : Has(RemoveAt(s, k), T) => Has(s, T)
      /\ \A T : s[k] \in T => Has(s, T)
      /\ \A T : s[k] \notin T => (Has(RemoveAt(s, k), T) <=> Has(s, T))
      /\ \A T : Single(s, T) => Single(RemoveAt(s, k), T)
      /\ \A T : Single(s, T) /\ s[k] \in T => ~Has(RemoveAt(s, k), T)
  BY <1>1, <1>3, Collected
<1>5. box'["FM"] = box["FM"] /\ \A c \in Callers : box'[c] = box[c]
  BY <1>2, Kinds DEF BoxesTyped
<1>6. BoxesTyped'
  BY <1>2, <1>4, <1>5 DEF BoxesTyped
<1> QED
  BY <1>2, <1>3, <1>4, <1>5, <1>6 DEF s

\* A message to a caller changes no other mailbox.
LEMMA ToCaller ==
    ASSUME BoxesTyped, NEW c \in Callers, Deliver(c, Answer("FM")), box[c] = <<>>
    PROVE  /\ BoxesTyped'
           /\ box'["IDE"] = box["IDE"] /\ box'["FM"] = box["FM"]
           /\ \A d \in Callers \ {c} : box'[d] = box[d]
<1>1. c # "FM" /\ c # "IDE"
  BY Kinds
<1>2. /\ box'[c] = Append(<<>>, Answer("FM")) /\ DOMAIN box' = DOMAIN box
      /\ \A p \in DOMAIN box : p # c => box'[p] = box[p]
  BY DEF Deliver, BoxesTyped
<1>3. Append(<<>>, Answer("FM")) = <<Answer("FM")>>
  OBVIOUS
<1>4. /\ box'["IDE"] = box["IDE"] /\ box'["FM"] = box["FM"]
      /\ \A d \in Callers \ {c} : box'[d] = box[d]
  BY <1>1, <1>2 DEF BoxesTyped
<1>5. \A d \in Callers : box'[d] \in {<<>>, <<Answer("FM")>>}
  BY <1>2, <1>3, <1>4 DEF BoxesTyped
<1>6. BoxesTyped'
  BY <1>2, <1>4, <1>5 DEF BoxesTyped
<1> QED
  BY <1>4, <1>6

LEMMA FromCaller ==
    ASSUME BoxesTyped, NEW c \in Callers, NEW k \in Oldest(c, "FM"), Collect(c, k)
    PROVE  /\ BoxesTyped' /\ box[c] = <<Answer("FM")>> /\ box'[c] = <<>>
           /\ box'["IDE"] = box["IDE"] /\ box'["FM"] = box["FM"]
           /\ \A d \in Callers \ {c} : box'[d] = box[d]
<1>1. c # "FM" /\ c # "IDE"
  BY Kinds
<1>2. /\ box'[c] = RemoveAt(box[c], k) /\ DOMAIN box' = DOMAIN box
      /\ \A p \in DOMAIN box : p # c => box'[p] = box[p]
  BY DEF Collect, BoxesTyped
<1>3. k \in 1 .. Len(box[c]) /\ box[c] \in {<<>>, <<Answer("FM")>>}
  BY DEF Oldest, BoxesTyped
<1>4. box[c] = <<Answer("FM")>> /\ k = 1
  <2>1. Len(<<>>) = 0 /\ Len(<<Answer("FM")>>) = 1
    OBVIOUS
  <2>2. box[c] # <<>>
    <3> SUFFICES ASSUME box[c] = <<>> PROVE FALSE
      OBVIOUS
    <3>1. k \in 1 .. 0
      BY <1>3, <2>1
    <3> QED
      BY <3>1
  <2>3. box[c] = <<Answer("FM")>>
    BY <1>3, <2>2
  <2>4. k \in 1 .. 1
    BY <1>3, <2>1, <2>3
  <2> QED
    BY <2>3, <2>4
<1>5. RemoveAt(box[c], k) = <<>>
  <2> DEFINE s == <<Answer("FM")>>
             S == {Answer("FM")}
  <2>1. s \in Seq(S) /\ Len(s) = 1 /\ 1 \in 1 .. Len(s)
    OBVIOUS
  <2> HIDE DEF s, S
  <2>2. RemoveAt(s, 1) \in Seq(S) /\ Len(RemoveAt(s, 1)) = Len(s) - 1
    BY <2>1, RemoveAtElements
  <2>3. RemoveAt(s, 1) = <<>>
    BY <2>1, <2>2, EmptySeq
  <2> QED
    BY <1>4, <2>3 DEF s
<1>6. /\ box'["IDE"] = box["IDE"] /\ box'["FM"] = box["FM"]
      /\ \A d \in Callers \ {c} : box'[d] = box[d]
  BY <1>1, <1>2 DEF BoxesTyped
<1>7. \A d \in Callers : box'[d] \in {<<>>, <<Answer("FM")>>}
  BY <1>2, <1>5, <1>6 DEF BoxesTyped
<1>8. BoxesTyped'
  BY <1>2, <1>6, <1>7 DEF BoxesTyped
<1> QED
  BY <1>2, <1>4, <1>5, <1>6, <1>8

(***************************************************************************)
(* The callers.                                                            *)
(***************************************************************************)
LEMMA CallStep ==
    ASSUME ServersInv, NEW c \in Callers, NEW r \in Requests, Call(c, r)
    PROVE  ServersInv'
<1> DEFINE x == [src |-> c, io |-> r]
<1>1. /\ want[c] = Nobody /\ want' = [want EXCEPT ![c] = r]
      /\ asked < MaxRequests /\ asked' = asked + 1
      /\ Deliver("FM", x)
      /\ UNCHANGED <<fm, at, m, i, cache, drive, disk, halt>>
  BY DEF Call
<1>2. x \in FmMessage /\ x.src = c /\ x.io = r /\ BoxesTyped /\ Serving' = Serving
  BY <1>1 DEF FmMessage, ServersInv, Serving
<1> HIDE DEF x
<1>3. /\ BoxesTyped'
      /\ box'["IDE"] = box["IDE"] /\ \A d \in Callers : box'[d] = box[d]
      /\ \A T : Has(box'["FM"], T) <=> Has(box["FM"], T) \/ x \in T
      /\ \A T : Single(box["FM"], T) /\ ~(x \in T /\ Has(box["FM"], T))
                => Single(box'["FM"], T)
  BY <1>1, <1>2, ToFm
<1>4. IdeTypeOK'
  <2>1. asked' \in 0 .. MaxRequests
    BY <1>1, DiskAssumption DEF ServersInv, IdeTypeOK
  <2>2. want' \in [Callers -> Requests \cup {Nobody}]
    BY <1>1 DEF ServersInv, IdeTypeOK
  <2> QED
    BY <1>1, <2>1, <2>2 DEF ServersInv, IdeTypeOK
<1>5. OneInFlight'
  <2>1. (Done' <=> Done) /\ (Sent' <=> Sent) /\ Single(box'["FM"], {Answer("IDE")})
    <3>1. x \notin {Answer("IDE")} /\ Single(box["FM"], {Answer("IDE")})
      BY <1>2, Kinds DEF ServersInv, OneInFlight
    <3>2. /\ Has(box'["FM"], {Answer("IDE")}) <=> Has(box["FM"], {Answer("IDE")})
          /\ Single(box'["FM"], {Answer("IDE")})
      BY <1>3, <3>1
    <3> QED
      BY <1>3, <3>2 DEF Done, Sent
  <2> QED
    BY <1>1, <1>2, <1>3, <2>1 DEF ServersInv, OneInFlight
<1>6. OwnRequests'
  <2>1. ~OnItsWay(c) /\ box[c] = <<>>
    <3>1. ASSUME Has(box["FM"], From(c)) PROVE FALSE
      <4>1. PICK y \in From(c) : Has(box["FM"], {y})
        BY <3>1 DEF Has
      <4>2. y \in FmMessage /\ y.src = c /\ y.io \in Requests
        BY <4>1, Kinds DEF From
      <4>3. want[c] = y.io
        BY <4>1, <4>2 DEF ServersInv, OwnRequests
      <4> QED
        BY <1>1, <4>2, <4>3, Kinds
    <3>2. ASSUME fm.at # "top", fm.m.src = c PROVE FALSE
      <4>1. fm.m \in FmMessage /\ want[c] = fm.m.io
        BY <3>2 DEF ServersInv, OwnRequests
      <4> QED
        BY <1>1, <4>1, Kinds
    <3> QED
      BY <1>1, <3>1, <3>2 DEF OnItsWay, ServersInv, OwnRequests
  <2>2. \A d \in Callers : x \in From(d) <=> d = c
    BY <1>2, Kinds
  <2>3. \A d \in Callers : want'[d] = IF d = c THEN r ELSE want[d]
    BY <1>1 DEF ServersInv, IdeTypeOK
  <2>4. ASSUME fm.at # "top"
        PROVE  /\ fm.m \in FmMessage /\ want'[fm.m.src] = fm.m.io
               /\ ~Has(box'["FM"], From(fm.m.src))
    <3>1. /\ fm.m \in FmMessage /\ want[fm.m.src] = fm.m.io
          /\ ~Has(box["FM"], From(fm.m.src))
      BY <2>4 DEF ServersInv, OwnRequests
    <3>2. fm.m.src \in Callers /\ fm.m.src # c
      BY <2>1, <2>4, <3>1, Kinds DEF OnItsWay
    <3> QED
      BY <1>3, <2>2, <2>3, <3>1, <3>2
  <2>5. ASSUME NEW y \in FmMessage, Has(box'["FM"], {y})
        PROVE  want'[y.src] = y.io
    <3>1. y.src \in Callers
      BY Kinds
    <3>2. CASE y = x
      BY <1>2, <2>3, <3>1, <3>2
    <3>3. CASE y # x
      <4>1. Has(box["FM"], {y})
        BY <1>3, <2>5, <3>3
      <4>2. want[y.src] = y.io
        BY <4>1 DEF ServersInv, OwnRequests
      <4>3. y.src # c
        <5> SUFFICES ASSUME y.src = c PROVE FALSE
          OBVIOUS
        <5>1. y \in From(c)
          BY Kinds
        <5>2. Has(box["FM"], From(c))
          BY <4>1, <5>1 DEF Has
        <5> QED
          BY <2>1, <5>2 DEF OnItsWay
      <4> QED
        BY <2>3, <3>1, <4>2, <4>3
    <3> QED
      BY <3>2, <3>3
  <2>6. ASSUME NEW d \in Callers
        PROVE  /\ Single(box'["FM"], From(d))
               /\ OnItsWay(d)' \/ want'[d] = Nobody => box'[d] = <<>>
    <3>1. Single(box["FM"], From(d)) /\ (OnItsWay(d) \/ want[d] = Nobody => box[d] = <<>>)
      BY DEF ServersInv, OwnRequests
    <3>2. CASE d = c
      BY <1>3, <2>1, <3>1, <3>2 DEF OnItsWay
    <3>3. CASE d # c
      BY <1>1, <1>3, <2>2, <2>3, <3>1, <3>3 DEF OnItsWay
    <3> QED
      BY <3>2, <3>3
  <2> QED
    BY <1>1, <2>4, <2>5, <2>6 DEF OwnRequests
<1>7. DriveMatches' /\ CacheMatches' /\ CleanIsOnDisk'
  BY <1>1, <1>3, KeepsDrive, KeepsCache, KeepsClean
<1> QED
  BY <1>1, <1>3, <1>4, <1>5, <1>6, <1>7 DEF ServersInv, DriveInStep

LEMMA ResumeStep ==
    ASSUME ServersInv, NEW c \in Callers, Resume(c)
    PROVE  ServersInv'
<1>1. PICK k \in Oldest(c, "FM") : Collect(c, k)
  BY DEF Resume
<1>2. /\ want' = [want EXCEPT ![c] = Nobody] /\ BoxesTyped
      /\ UNCHANGED <<asked, fm, at, m, i, cache, drive, disk, halt>>
  BY DEF Resume, ServersInv
<1>3. /\ BoxesTyped' /\ box[c] = <<Answer("FM")>> /\ box'[c] = <<>>
      /\ box'["IDE"] = box["IDE"] /\ box'["FM"] = box["FM"]
      /\ \A d \in Callers \ {c} : box'[d] = box[d]
  BY <1>1, <1>2, FromCaller
<1>4. IdeTypeOK'
  <2>1. want' \in [Callers -> Requests \cup {Nobody}]
    BY <1>2 DEF ServersInv, IdeTypeOK
  <2> QED
    BY <1>2, <2>1 DEF ServersInv, IdeTypeOK
<1>5. OneInFlight'
  <2>1. Serving' = Serving
    BY <1>2 DEF Serving
  <2> QED
    BY <1>2, <1>3, <2>1, KeepsFlight
<1>6. OwnRequests'
  <2>1. ~OnItsWay(c)
    <3>1. box[c] # <<>>
      BY <1>3
    <3> QED
      BY <3>1 DEF ServersInv, OwnRequests
  <2>2. \A d \in Callers : want'[d] = IF d = c THEN Nobody ELSE want[d]
    BY <1>2 DEF ServersInv, IdeTypeOK
  <2>3. ASSUME fm.at # "top" PROVE want'[fm.m.src] = fm.m.io
    BY <2>1, <2>2, <2>3, Kinds DEF ServersInv, OwnRequests, OnItsWay
  <2>4. ASSUME NEW y \in FmMessage, Has(box["FM"], {y})
        PROVE  want'[y.src] = y.io
    <3>1. Has(box["FM"], From(y.src)) /\ y.src \in Callers
      BY <2>4, Kinds DEF Has
    <3> QED
      BY <2>1, <2>2, <2>4, <3>1 DEF OnItsWay, ServersInv, OwnRequests
  <2>5. ASSUME NEW d \in Callers, OnItsWay(d)' \/ want'[d] = Nobody
        PROVE  box'[d] = <<>>
    <3>1. OnItsWay(d)' <=> OnItsWay(d)
      BY <1>2, <1>3 DEF OnItsWay
    <3> QED
      BY <1>3, <2>2, <2>5, <3>1 DEF ServersInv, OwnRequests
  <2> QED
    BY <1>2, <1>3, <2>3, <2>4, <2>5 DEF ServersInv, OwnRequests
<1>7. DriveMatches' /\ CacheMatches' /\ CleanIsOnDisk'
  BY <1>2, <1>3, KeepsDrive, KeepsCache, KeepsClean
<1> QED
  BY <1>2, <1>3, <1>4, <1>5, <1>6, <1>7 DEF ServersInv, DriveInStep

(***************************************************************************)
(* FileManagement.                                                         *)
(***************************************************************************)
LEMMA FmReceiveStep ==
    ASSUME ServersInv, FmReceive
    PROVE  ServersInv'
<1>1. PICK k \in Oldest("FM", "ANY") :
         Collect("FM", k) /\ fm' = [at |-> "got", m |-> box["FM"][k]]
  BY DEF FmReceive
<1> DEFINE x == box["FM"][k]
<1>2. /\ fm.at = "top" /\ BoxesTyped /\ Serving' = Serving
      /\ UNCHANGED <<asked, want, buffer, at, m, i, cache, drive, disk, halt>>
  BY DEF FmReceive, fmUnchanged, ServersInv, Serving
<1>3. /\ BoxesTyped' /\ x \in FmMessage \cup {Answer("IDE")}
      /\ box'["IDE"] = box["IDE"] /\ \A c \in Callers : box'[c] = box[c]
      /\ \A T : Has(box'["FM"], T) => Has(box["FM"], T)
      /\ \A T : x \in T => Has(box["FM"], T)
      /\ \A T : x \notin T => (Has(box'["FM"], T) <=> Has(box["FM"], T))
      /\ \A T : Single(box["FM"], T) => Single(box'["FM"], T)
      /\ \A T : Single(box["FM"], T) /\ x \in T => ~Has(box'["FM"], T)
  BY <1>1, <1>2, FromFm
<1>4. fm'.at = "got" /\ fm'.m = x
  BY <1>1
<1> HIDE DEF x
<1>5. ~Sent /\ ~Serving /\ ~Done
  BY <1>2 DEF ServersInv, OneInFlight
<1>6. x \in FmMessage /\ x.src \in Callers
  <2>1. x # Answer("IDE")
    <3>1. ~Has(box["FM"], {Answer("IDE")})
      BY <1>5 DEF Done
    <3> QED
      BY <1>3, <3>1
  <2> QED
    BY <1>3, <2>1, Kinds
<1>7. OneInFlight'
  <2>1. ~Sent' /\ ~Done'
    BY <1>3, <1>5 DEF Sent, Done
  <2>2. Single(box'["FM"], {Answer("IDE")}) /\ Single(box'["IDE"], DeviceRequests)
    BY <1>3 DEF ServersInv, OneInFlight
  <2>3. ~Serving'
    BY <1>2, <1>5
  <2>4. \A y \in DeviceRequests : ~Has(box'["IDE"], {y})
    BY <1>3, <1>5 DEF Sent, Has
  <2>5. fm' \in [at : {"top", "got", "asked", "answered"}, m : FmMessage \cup {Nobody}]
    BY <1>1, <1>6 DEF x
  <2> QED
    BY <2>1, <2>2, <2>3, <2>4, <2>5 DEF OneInFlight
<1>8. OwnRequests'
  <2>1. Has(box["FM"], {x}) /\ Has(box["FM"], From(x.src)) /\ x \in From(x.src)
    BY <1>3, <1>6, Kinds
  <2>2. want[x.src] = x.io /\ Single(box["FM"], From(x.src)) /\ box[x.src] = <<>>
    BY <1>6, <2>1 DEF ServersInv, OwnRequests, OnItsWay
  <2>3. ~Has(box'["FM"], From(x.src))
    BY <1>3, <2>1, <2>2
  <2>4. ASSUME NEW y \in FmMessage, Has(box'["FM"], {y})
        PROVE  want'[y.src] = y.io
    BY <1>2, <1>3, <2>4 DEF ServersInv, OwnRequests
  <2>5. ASSUME NEW c \in Callers
        PROVE  /\ Single(box'["FM"], From(c))
               /\ OnItsWay(c)' \/ want'[c] = Nobody => box'[c] = <<>>
    <3>1. Single(box["FM"], From(c)) /\ (OnItsWay(c) \/ want[c] = Nobody => box[c] = <<>>)
      BY DEF ServersInv, OwnRequests
    <3>2. OnItsWay(c)' => OnItsWay(c)
      <4>1. x.src = c => Has(box["FM"], From(c))
        BY <2>1
      <4> QED
        BY <1>3, <1>4, <4>1 DEF OnItsWay
    <3> QED
      BY <1>2, <1>3, <3>1, <3>2
  <2> QED
    BY <1>2, <1>4, <1>6, <2>2, <2>3, <2>4, <2>5 DEF OwnRequests
<1>9. IdeTypeOK'
  BY <1>2 DEF ServersInv, IdeTypeOK
<1>10. DriveMatches' /\ CacheMatches' /\ CleanIsOnDisk'
  BY <1>2, <1>3, KeepsDrive, KeepsCache, KeepsClean
<1> QED
  BY <1>2, <1>3, <1>7, <1>8, <1>9, <1>10 DEF ServersInv, DriveInStep

LEMMA FmSendStep ==
    ASSUME ServersInv, FmSend
    PROVE  ServersInv'
<1> DEFINE y == Device(fm.m)
<1>1. /\ fm.at = "got" /\ fm' = [fm EXCEPT !.at = "asked"] /\ BoxesTyped
      /\ Serving' = Serving
      /\ UNCHANGED <<asked, want, buffer, at, m, i, cache, drive, disk, halt>>
  BY DEF FmSend, fmUnchanged, ServersInv, Serving
<1>2. Deliver("IDE", y)
  BY DEF FmSend, Device
<1>3. fm.m \in FmMessage /\ y \in DeviceRequests
  BY <1>1, Kinds DEF ServersInv, OwnRequests
<1>4. fm' = [at |-> "asked", m |-> fm.m]
  BY <1>1 DEF ServersInv, OneInFlight
<1> HIDE DEF y
<1>5. /\ BoxesTyped'
      /\ box'["FM"] = box["FM"] /\ \A c \in Callers : box'[c] = box[c]
      /\ \A T : Has(box'["IDE"], T) <=> Has(box["IDE"], T) \/ y \in T
      /\ \A T : Single(box["IDE"], T) /\ ~(y \in T /\ Has(box["IDE"], T))
                => Single(box'["IDE"], T)
  BY <1>1, <1>2, <1>3, ToIde
<1>6. ~Sent /\ ~Serving /\ ~Done
  BY <1>1 DEF ServersInv, OneInFlight
<1>7. OneInFlight'
  <2>1. Sent' /\ ~Done' /\ ~Serving'
    BY <1>1, <1>3, <1>5, <1>6 DEF Sent, Done
  <2>2. Single(box'["FM"], {Answer("IDE")}) /\ Single(box'["IDE"], DeviceRequests)
    BY <1>5, <1>6 DEF ServersInv, OneInFlight, Sent
  <2>3. ASSUME NEW z \in DeviceRequests, Has(box'["IDE"], {z})
        PROVE  z = Device(fm'.m)
    <3>1. ~Has(box["IDE"], {z})
      BY <1>6 DEF Sent, Has
    <3>2. y \in {z}
      BY <1>5, <2>3, <3>1
    <3> QED
      BY <1>4, <3>2 DEF y
  <2>4. fm' \in [at : {"top", "got", "asked", "answered"}, m : FmMessage \cup {Nobody}]
    BY <1>3, <1>4
  <2> QED
    BY <1>4, <2>1, <2>2, <2>3, <2>4 DEF OneInFlight
<1>8. OwnRequests'
  <2>1. \A c \in Callers : OnItsWay(c)' <=> OnItsWay(c)
    BY <1>1, <1>4, <1>5 DEF OnItsWay
  <2> QED
    BY <1>1, <1>4, <1>5, <2>1 DEF ServersInv, OwnRequests
<1>9. y \notin {Ready}
  BY <1>3, Kinds
<1>10. Has(box'["IDE"], {Ready}) <=> Has(box["IDE"], {Ready})
  BY <1>5, <1>9
<1>11. DriveMatches'
  <2>1. Single(box'["IDE"], {Ready})
    BY <1>5, <1>9 DEF ServersInv, DriveMatches
  <2> QED
    BY <1>1, <1>10, <2>1
    DEF ServersInv, DriveMatches, Awaiting, WriteSlot, Slot, Sector, Address, Io
<1>12. CacheMatches'
  BY <1>1, <1>10
  DEF ServersInv, CacheMatches, Serving, MustEvict, OnDisk, Slot, Sector, Address, Io
<1>13. IdeTypeOK'
  BY <1>1 DEF ServersInv, IdeTypeOK
<1>14. CleanIsOnDisk'
  BY <1>1, KeepsClean
<1> QED
  BY <1>1, <1>5, <1>7, <1>8, <1>11, <1>12, <1>13, <1>14 DEF ServersInv, DriveInStep

LEMMA FmAnsweredStep ==
    ASSUME ServersInv, FmAnswered
    PROVE  ServersInv'
<1>1. PICK k \in Oldest("FM", "IDE") : Collect("FM", k)
  BY DEF FmAnswered, Answers
<1> DEFINE x == box["FM"][k]
<1>2. /\ fm.at = "asked" /\ fm' = [fm EXCEPT !.at = "answered"] /\ BoxesTyped
      /\ Serving' = Serving
      /\ UNCHANGED <<asked, want, buffer, at, m, i, cache, drive, disk, halt>>
  BY DEF FmAnswered, fmUnchanged, ServersInv, Serving
<1>3. /\ BoxesTyped' /\ x \in FmMessage \cup {Answer("IDE")}
      /\ box'["IDE"] = box["IDE"] /\ \A c \in Callers : box'[c] = box[c]
      /\ x.src = "IDE"
      /\ \A T : x \in T => Has(box["FM"], T)
      /\ \A T : x \notin T => (Has(box'["FM"], T) <=> Has(box["FM"], T))
      /\ \A T : Single(box["FM"], T) => Single(box'["FM"], T)
      /\ \A T : Single(box["FM"], T) /\ x \in T => ~Has(box'["FM"], T)
  BY <1>1, <1>2, FromFm
<1> HIDE DEF x
<1>4. x = Answer("IDE") /\ x \notin FmMessage
  BY <1>3, Kinds
<1>5. fm' = [at |-> "answered", m |-> fm.m]
  BY <1>2 DEF ServersInv, OneInFlight
<1>6. Done /\ ~Done' /\ ~Sent' /\ ~Serving'
  <2>1. x \in {Answer("IDE")} /\ Single(box["FM"], {Answer("IDE")})
    BY <1>4 DEF ServersInv, OneInFlight
  <2>2. Has(box["FM"], {Answer("IDE")}) /\ ~Has(box'["FM"], {Answer("IDE")})
    BY <1>3, <2>1
  <2> QED
    BY <1>2, <1>3, <2>2 DEF ServersInv, OneInFlight, Sent, Done
<1>7. OneInFlight'
  <2>1. Single(box'["FM"], {Answer("IDE")})
    BY <1>3 DEF ServersInv, OneInFlight
  <2>2. fm' \in [at : {"top", "got", "asked", "answered"}, m : FmMessage \cup {Nobody}]
    BY <1>2, <1>5 DEF ServersInv, OwnRequests
  <2> QED
    BY <1>3, <1>5, <1>6, <2>1, <2>2 DEF ServersInv, OneInFlight
<1>8. OwnRequests'
  <2>1. \A c \in Callers : x \notin From(c)
    BY <1>4, Kinds
  <2>2. \A c \in Callers : Has(box'["FM"], From(c)) <=> Has(box["FM"], From(c))
    BY <1>3, <2>1
  <2>3. \A c \in Callers : OnItsWay(c)' <=> OnItsWay(c)
    BY <1>2, <1>5, <2>2 DEF OnItsWay
  <2>4. \A y \in FmMessage : Has(box'["FM"], {y}) <=> Has(box["FM"], {y})
    BY <1>3, <1>4
  <2>5. \A c \in Callers : Single(box'["FM"], From(c))
    BY <1>3 DEF ServersInv, OwnRequests
  <2>6. fm.m \in FmMessage /\ want[fm.m.src] = fm.m.io /\ ~Has(box["FM"], From(fm.m.src))
    BY <1>2 DEF ServersInv, OwnRequests
  <2>7. fm.m.src \in Callers
    BY <2>6, Kinds
  <2> QED
    BY <1>2, <1>3, <1>5, <2>2, <2>3, <2>4, <2>5, <2>6, <2>7 DEF ServersInv, OwnRequests
<1>9. IdeTypeOK'
  BY <1>2 DEF ServersInv, IdeTypeOK
<1>10. DriveMatches' /\ CacheMatches' /\ CleanIsOnDisk'
  BY <1>2, <1>3, KeepsDrive, KeepsCache, KeepsClean
<1> QED
  BY <1>2, <1>3, <1>7, <1>8, <1>9, <1>10 DEF ServersInv, DriveInStep

LEMMA FmReplyStep ==
    ASSUME ServersInv, FmReply
    PROVE  ServersInv'
<1> DEFINE c == fm.m.src
<1>1. /\ fm.at = "answered" /\ fm' = [at |-> "top", m |-> Nobody]
      /\ Deliver(c, Answer("FM")) /\ BoxesTyped /\ Serving' = Serving
      /\ UNCHANGED <<asked, want, buffer, at, m, i, cache, drive, disk, halt>>
  BY DEF FmReply, Answer, fmUnchanged, ServersInv, Serving
<1>2. /\ c \in Callers /\ want[c] = fm.m.io /\ want[c] \in Requests
      /\ ~Has(box["FM"], From(c)) /\ OnItsWay(c)
  BY <1>1, Kinds DEF ServersInv, OwnRequests, OnItsWay
<1>3. box[c] = <<>>
  BY <1>2 DEF ServersInv, OwnRequests
<1> HIDE DEF c
<1>4. /\ BoxesTyped' /\ box'["IDE"] = box["IDE"] /\ box'["FM"] = box["FM"]
      /\ \A d \in Callers \ {c} : box'[d] = box[d]
  BY <1>1, <1>2, <1>3, ToCaller
<1>5. ~Sent /\ ~Serving /\ ~Done
  BY <1>1 DEF ServersInv, OneInFlight
<1>6. OneInFlight'
  <2>1. ~Sent' /\ ~Serving' /\ ~Done'
    BY <1>1, <1>4, <1>5 DEF Sent, Done
  <2>2. \A y \in DeviceRequests : ~Has(box'["IDE"], {y})
    BY <1>4, <1>5 DEF Sent, Has
  <2> QED
    BY <1>1, <1>4, <2>1, <2>2 DEF ServersInv, OneInFlight
<1>7. OwnRequests'
  <2>1. ASSUME NEW d \in Callers, OnItsWay(d)' \/ want'[d] = Nobody
        PROVE  box'[d] = <<>>
    <3>1. Has(box["FM"], From(d)) \/ want[d] = Nobody
      BY <1>1, <1>4, <2>1 DEF OnItsWay
    <3>2. d # c
      BY <1>2, <3>1, Kinds
    <3>3. box[d] = <<>>
      BY <3>1 DEF ServersInv, OwnRequests, OnItsWay
    <3> QED
      BY <1>4, <3>2, <3>3
  <2> QED
    BY <1>1, <1>4, <2>1 DEF ServersInv, OwnRequests
<1>8. IdeTypeOK'
  BY <1>1 DEF ServersInv, IdeTypeOK
<1>9. DriveMatches' /\ CacheMatches' /\ CleanIsOnDisk'
  BY <1>1, <1>4, KeepsDrive, KeepsCache, KeepsClean
<1> QED
  BY <1>1, <1>4, <1>6, <1>7, <1>8, <1>9 DEF ServersInv, DriveInStep

(***************************************************************************)
(* ide_driver_thread.                                                      *)
(***************************************************************************)
\* What the driver works on: the request of FM, whose bytes are on the disk.
LEMMA Working ==
    ASSUME ServersInv, Serving
    PROVE  /\ fm.m \in FmMessage /\ fm.m.io \in Requests
           /\ m = Device(fm.m) /\ m.buf = fm.m.src
           /\ want[m.buf] = fm.m.io
           /\ Io.length = fm.m.io.length /\ Io.length \in Nat
           /\ Io.offset = Place(fm.m.io) /\ i \in Nat
<1>1. /\ fm.m \in FmMessage /\ m = Device(fm.m) /\ want[fm.m.src] = fm.m.io /\ i \in Nat
  BY DEF ServersInv, OneInFlight, OwnRequests, IdeTypeOK
<1>2. fm.m.io \in RequestRecord
  BY <1>1, Kinds, DiskAssumption
<1> QED
  BY <1>1, <1>2, Kinds DEF Device, DevIo, Io, RequestRecord

LEMMA AtAddress ==
    ASSUME ServersInv, Serving, i < Io.length
    PROVE  /\ Address \in Addresses
           /\ Sector \in Sectors /\ Sector \in Nat
           /\ Slot \in Slots /\ Slot = Sector % NSlots
           /\ Address % SectorSize \in 0 .. SectorSize - 1
<1>1. Place(fm.m.io) .. Place(fm.m.io) + fm.m.io.length - 1 \subseteq Addresses
  BY Working, DiskAssumption
<1>2. Place(fm.m.io) \in Int /\ KernelSize \in Nat
  <2>1. fm.m.io \in RequestRecord
    BY Working, DiskAssumption
  <2>2. KernelSize \in Nat /\ FileSize \in Nat
    BY DiskAssumption
  <2>3. fm.m.io.offset \in Nat /\ fm.m.io.file \in Nat
    BY <2>1 DEF RequestRecord
  <2>4. (fm.m.io.file - 1) * FileSize \in Int
    BY <2>2, <2>3
  <2> QED
    BY <2>2, <2>3, <2>4 DEF Place
<1>3. Address \in Addresses
  <2>1. Address = Place(fm.m.io) + i /\ i \in Nat /\ i < fm.m.io.length /\ fm.m.io.length \in Nat
    BY Working DEF Address
  <2>2. Address \in Place(fm.m.io) .. Place(fm.m.io) + fm.m.io.length - 1
    BY <1>2, <2>1
  <2> QED
    BY <1>1, <2>2
<1>4. /\ Sector \in Sectors /\ Sector \in Nat
      /\ Address % SectorSize \in 0 .. SectorSize - 1
  BY <1>3, AddressSector DEF Sector
<1>5. NSlots \in Nat \ {0}
  BY DiskAssumption
<1>6. Slot = Sector % NSlots /\ Slot \in 0 .. NSlots - 1
  BY <1>4, <1>5, Quotient DEF Slot
<1> QED
  BY <1>3, <1>4, <1>6 DEF Slots

LEMMA IdeReceiveStep ==
    ASSUME ServersInv, IdeReceive
    PROVE  ServersInv'
<1>1. PICK k \in Oldest("IDE", "ANY") : Collect("IDE", k) /\ m' = box["IDE"][k]
  BY DEF IdeReceive
<1> DEFINE x == box["IDE"][k]
<1>2. /\ at = "top" /\ BoxesTyped /\ i' = 0 /\ m' = x
      /\ at' = CASE x = WriteBack -> "scan" [] x = Ready -> "top" [] OTHER -> "byte"
      /\ halt' = IF x = Ready THEN "leak" ELSE "none"
      /\ UNCHANGED <<asked, want, buffer, fm, cache, drive, disk>>
  BY <1>1 DEF IdeReceive, ServersInv
<1>3. /\ BoxesTyped' /\ x \in DeviceRequests \cup {Ready, WriteBack}
      /\ box'["FM"] = box["FM"] /\ \A c \in Callers : box'[c] = box[c]
      /\ \A T : Has(box'["IDE"], T) => Has(box["IDE"], T)
      /\ \A T : x \in T => Has(box["IDE"], T)
      /\ \A T : x \notin T => (Has(box'["IDE"], T) <=> Has(box["IDE"], T))
      /\ \A T : Single(box["IDE"], T) => Single(box'["IDE"], T)
      /\ \A T : Single(box["IDE"], T) /\ x \in T => ~Has(box'["IDE"], T)
  BY <1>1, <1>2, FromIde
<1> HIDE DEF x
<1>4. drive = NoCommand /\ ~Has(box["IDE"], {Ready}) /\ ~Serving /\ x # Ready
  <2>1. drive = NoCommand /\ ~Has(box["IDE"], {Ready}) /\ ~Serving
    BY <1>2 DEF ServersInv, DriveMatches, Awaiting, Serving
  <2> QED
    BY <1>3, <2>1
<1>5. halt' = "none" /\ ~Has(box'["IDE"], {Ready}) /\ Single(box'["IDE"], {Ready})
  BY <1>2, <1>3, <1>4 DEF ServersInv, DriveMatches
<1>6. OwnRequests'
  BY <1>2, <1>3, KeepsOwn
<1>7. CleanIsOnDisk'
  BY <1>2, KeepsClean
<1>8. /\ Single(box'["IDE"], DeviceRequests) /\ (Done' <=> Done)
      /\ \A y \in DeviceRequests : Has(box'["IDE"], {y}) => y = Device(fm.m)
  BY <1>3 DEF ServersInv, OneInFlight, Done
<1>9. CASE x = WriteBack
  <2>1. at' = "scan" /\ ~Serving'
    BY <1>2, <1>4, <1>9 DEF Serving
  <2>2. x \notin DeviceRequests
    BY <1>9, Kinds
  <2>3. Sent' <=> Sent
    BY <1>3, <2>2 DEF Sent
  <2>4. OneInFlight'
    BY <1>2, <1>3, <1>8, <2>1, <2>3 DEF ServersInv, OneInFlight
  <2>5. DriveMatches'
    BY <1>2, <1>4, <1>5, <2>1 DEF DriveMatches
  <2>6. CacheMatches'
    <3>1. 0 <= NSlots
      BY DiskAssumption
    <3> QED
      BY <1>2, <2>1, <3>1 DEF ServersInv, CacheMatches
  <2>7. IdeTypeOK'
    BY <1>2, <1>5, <2>1 DEF ServersInv, IdeTypeOK
  <2> QED
    BY <1>3, <1>5, <1>6, <1>7, <2>4, <2>5, <2>6, <2>7 DEF ServersInv, DriveInStep
<1>10. CASE x # WriteBack
  <2>1. x \in DeviceRequests /\ at' = "byte" /\ Serving'
    BY <1>2, <1>3, <1>4, <1>10 DEF Serving
  <2>2. x = Device(fm.m) /\ Sent /\ ~Sent'
    <3>1. Has(box["IDE"], {x}) /\ Sent
      BY <1>3, <2>1 DEF Sent
    <3>2. Single(box["IDE"], DeviceRequests)
      BY DEF ServersInv, OneInFlight
    <3>3. ~Has(box'["IDE"], DeviceRequests)
      BY <1>3, <2>1, <3>2
    <3> QED
      BY <2>1, <3>1, <3>3 DEF ServersInv, OneInFlight, Sent
  <2>3. OneInFlight'
    BY <1>2, <1>3, <1>8, <2>1, <2>2 DEF ServersInv, OneInFlight
  <2>4. DriveMatches'
    BY <1>2, <1>4, <1>5, <2>1 DEF DriveMatches
  <2>5. Io'.length \in Nat
    <3>1. fm.m \in FmMessage
      BY <2>2 DEF ServersInv, OneInFlight, OwnRequests
    <3>2. fm.m.io \in RequestRecord
      BY <3>1, Kinds, DiskAssumption
    <3> QED
      BY <1>2, <2>2, <3>2 DEF Io, Device, DevIo, RequestRecord
  <2>6. CacheMatches'
    BY <1>2, <2>1, <2>5 DEF ServersInv, CacheMatches
  <2>7. IdeTypeOK'
    BY <1>2, <1>5, <2>1 DEF ServersInv, IdeTypeOK
  <2> QED
    BY <1>3, <1>5, <1>6, <1>7, <2>3, <2>4, <2>6, <2>7 DEF ServersInv, DriveInStep
<1> QED
  BY <1>9, <1>10

LEMMA FetchStep ==
    ASSUME ServersInv, FetchSector
    PROVE  ServersInv'
<1>1. /\ at = "byte" /\ i < Io.length /\ ~Hit(Slot, Sector) /\ Serving /\ drive = NoCommand
      /\ ~Has(box["IDE"], {Ready})
      /\ UNCHANGED <<box, asked, want, buffer, fm, m, i, cache, disk>>
  BY DEF FetchSector, Serving, ServersInv, DriveMatches, Awaiting
<1>2. /\ halt' = halt
      /\ IF MustEvict(Slot) THEN at' = "evict" /\ drive' = WriteSlot(Slot)
                            ELSE at' = "fetch" /\ drive' = [op |-> "read", sector |-> Sector]
  BY <1>1 DEF FetchSector, Issue
<1>3. at' \in {"evict", "fetch"} /\ Serving' /\ Awaiting'
  BY <1>2 DEF Serving, Awaiting
<1>4. Slot' = Slot /\ Io' = Io
  BY <1>1 DEF Slot, Sector, Address, Io
<1>5. DriveMatches'
  BY <1>1, <1>2, <1>3, <1>4 DEF ServersInv, DriveMatches, WriteSlot
<1>6. CacheMatches'
  BY <1>1, <1>2, <1>4 DEF ServersInv, CacheMatches, MustEvict
<1>7. OneInFlight'
  BY <1>1, <1>3, KeepsFlight DEF ServersInv, OneInFlight, Sent, Done
<1>8. OwnRequests' /\ BoxesTyped' /\ CleanIsOnDisk'
  BY <1>1, KeepsOwn, KeepsBoxes, KeepsClean
<1>9. IdeTypeOK'
  BY <1>1, <1>2 DEF ServersInv, IdeTypeOK
<1> QED
  BY <1>2, <1>5, <1>6, <1>7, <1>8, <1>9 DEF ServersInv, DriveInStep

\* receive(MSG_HARD_INTR, &m): the interrupt, or a write back that is dropped.
LEMMA FromHard ==
    ASSUME ServersInv, NEW k \in Oldest("IDE", "HARD"), Collect("IDE", k)
    PROVE  /\ BoxesTyped' /\ box["IDE"][k] \in {Ready, WriteBack}
           /\ box'["FM"] = box["FM"] /\ \A c \in Callers : box'[c] = box[c]
           /\ (Sent' <=> Sent) /\ (Done' <=> Done)
           /\ Single(box'["IDE"], DeviceRequests)
           /\ \A y \in DeviceRequests : Has(box'["IDE"], {y}) => y = Device(fm.m)
           /\ Single(box'["IDE"], {Ready})
           /\ box["IDE"][k] = Ready => Has(box["IDE"], {Ready}) /\ ~Has(box'["IDE"], {Ready})
           /\ box["IDE"][k] # Ready => (Has(box'["IDE"], {Ready}) <=> Has(box["IDE"], {Ready}))
<1> DEFINE x == box["IDE"][k]
<1>1. /\ BoxesTyped' /\ x \in DeviceRequests \cup {Ready, WriteBack}
      /\ box'["FM"] = box["FM"] /\ \A c \in Callers : box'[c] = box[c]
      /\ x.src = "HARD"
      /\ \A T : Has(box'["IDE"], T) => Has(box["IDE"], T)
      /\ \A T : x \in T => Has(box["IDE"], T)
      /\ \A T : x \notin T => (Has(box'["IDE"], T) <=> Has(box["IDE"], T))
      /\ \A T : Single(box["IDE"], T) => Single(box'["IDE"], T)
      /\ \A T : Single(box["IDE"], T) /\ x \in T => ~Has(box'["IDE"], T)
  BY FromIde DEF ServersInv
<1> HIDE DEF x
<1>2. x \in {Ready, WriteBack} /\ x \notin DeviceRequests
  BY <1>1, Kinds
<1>3. (Sent' <=> Sent) /\ (Done' <=> Done)
  BY <1>1, <1>2 DEF Sent, Done
<1>4. /\ Single(box["IDE"], DeviceRequests) /\ Single(box["IDE"], {Ready})
      /\ \A y \in DeviceRequests : Has(box["IDE"], {y}) => y = Device(fm.m)
  BY DEF ServersInv, OneInFlight, DriveMatches
<1>5. x = Ready => Has(box["IDE"], {Ready}) /\ ~Has(box'["IDE"], {Ready})
  BY <1>1, <1>4
<1>6. x # Ready => (Has(box'["IDE"], {Ready}) <=> Has(box["IDE"], {Ready}))
  BY <1>1
<1> QED
  BY <1>1, <1>2, <1>3, <1>4, <1>5, <1>6 DEF x

\* The driver waits on: only a write back was dropped.
LEMMA StillAwaits ==
    ASSUME ServersInv, NEW k \in Oldest("IDE", "HARD"), Collect("IDE", k), box["IDE"][k] # Ready,
           UNCHANGED <<asked, want, fm, at, m, i, cache, drive, disk, halt>>
    PROVE  ServersInv'
<1>1. /\ BoxesTyped'
      /\ box'["FM"] = box["FM"] /\ \A c \in Callers : box'[c] = box[c]
      /\ (Sent' <=> Sent) /\ (Done' <=> Done)
      /\ Single(box'["IDE"], DeviceRequests)
      /\ \A y \in DeviceRequests : Has(box'["IDE"], {y}) => y = Device(fm.m)
      /\ Single(box'["IDE"], {Ready})
      /\ Has(box'["IDE"], {Ready}) <=> Has(box["IDE"], {Ready})
  BY FromHard
<1>2. Serving' <=> Serving
  BY DEF Serving
<1>3. OneInFlight'
  BY <1>1, <1>2 DEF ServersInv, OneInFlight
<1>4. DriveMatches'
  BY <1>1 DEF ServersInv, DriveMatches, Awaiting, WriteSlot, Slot, Sector, Address, Io
<1>5. CacheMatches'
  BY <1>1 DEF ServersInv, CacheMatches, Serving, MustEvict, OnDisk, Slot, Sector, Address, Io
<1>6. OwnRequests' /\ CleanIsOnDisk'
  BY <1>1, KeepsOwn, KeepsClean
<1>7. IdeTypeOK'
  BY DEF ServersInv, IdeTypeOK
<1> QED
  BY <1>1, <1>3, <1>4, <1>5, <1>6, <1>7 DEF ServersInv, DriveInStep

LEMMA EvictedStep ==
    ASSUME ServersInv, Evicted
    PROVE  ServersInv'
<1>1. PICK k \in Oldest("IDE", "HARD") :
         /\ Collect("IDE", k)
         /\ IF box["IDE"][k] = Ready
            THEN Issue([op |-> "read", sector |-> Sector], "fetch")
            ELSE UNCHANGED <<drive, at, halt>>
  BY DEF Evicted, GetReady
<1>2. /\ at = "evict" /\ Serving
      /\ UNCHANGED <<asked, want, buffer, fm, m, i, cache, disk>>
  BY DEF Evicted, Serving
<1>3. CASE box["IDE"][k] # Ready
  BY <1>1, <1>2, <1>3, StillAwaits
<1>4. CASE box["IDE"][k] = Ready
  <2>1. /\ BoxesTyped'
        /\ box'["FM"] = box["FM"] /\ \A c \in Callers : box'[c] = box[c]
        /\ (Sent' <=> Sent) /\ (Done' <=> Done)
        /\ Single(box'["IDE"], DeviceRequests)
        /\ \A y \in DeviceRequests : Has(box'["IDE"], {y}) => y = Device(fm.m)
        /\ Single(box'["IDE"], {Ready})
        /\ Has(box["IDE"], {Ready}) /\ ~Has(box'["IDE"], {Ready})
    BY <1>1, <1>4, FromHard
  <2>2. drive = NoCommand
    BY <2>1 DEF ServersInv, DriveMatches
  <2>3. /\ drive' = [op |-> "read", sector |-> Sector] /\ at' = "fetch" /\ halt' = halt
        /\ Serving'
    BY <1>1, <1>4, <2>2 DEF Issue, Serving
  <2>4. OneInFlight'
    BY <1>2, <2>1, <2>3 DEF ServersInv, OneInFlight
  <2>5. DriveMatches'
    BY <2>1, <2>3 DEF DriveMatches, Awaiting
  <2>6. CacheMatches'
    BY <1>2, <2>3 DEF ServersInv, CacheMatches, Io
  <2>7. OwnRequests' /\ CleanIsOnDisk'
    BY <1>2, <2>1, KeepsOwn, KeepsClean
  <2>8. IdeTypeOK'
    BY <1>2, <2>3 DEF ServersInv, IdeTypeOK
  <2> QED
    BY <2>1, <2>3, <2>4, <2>5, <2>6, <2>7, <2>8 DEF ServersInv, DriveInStep
<1> QED
  BY <1>3, <1>4

\* A slot that is replaced, where the driver works on FM's request: what has
\* to be shown of it.
LEMMA SlotReplaced ==
    ASSUME ServersInv, Serving, i < Io.length,
           NEW slot \in [sector : Sectors, used : BOOLEAN, dirty : BOOLEAN, content : Content],
           slot.used, slot.sector = Sector, cache' = [cache EXCEPT ![Slot] = slot],
           ~slot.dirty => \A b \in 0 .. SectorSize - 1 :
                             slot.content[b] = disk[slot.sector * SectorSize + b],
           disk' = disk
    PROVE  /\ cache' \in [Slots -> [sector : Sectors, used : BOOLEAN, dirty : BOOLEAN,
                                    content : Content]]
           /\ \A s \in Slots : cache'[s].used => cache'[s].sector % NSlots = s
           /\ \A s \in Slots : cache'[s].dirty => cache'[s].used
           /\ CleanIsOnDisk'
<1>1. /\ cache \in [Slots -> [sector : Sectors, used : BOOLEAN, dirty : BOOLEAN,
                              content : Content]]
      /\ \A s \in Slots : cache[s].used => cache[s].sector % NSlots = s
      /\ \A s \in Slots : cache[s].dirty => cache[s].used
  BY DEF ServersInv, IdeTypeOK, CacheMatches
<1>2. Slot \in Slots /\ Slot = Sector % NSlots
  BY AtAddress
<1>3. \A s \in Slots : cache'[s] = IF s = Slot THEN slot ELSE cache[s]
  BY <1>1
<1>4. CleanIsOnDisk'
  <2> SUFFICES ASSUME NEW s \in Slots, cache'[s].used, ~cache'[s].dirty,
                      NEW b \in 0 .. SectorSize - 1
               PROVE  cache'[s].content[b] = disk'[cache'[s].sector * SectorSize + b]
    BY DEF CleanIsOnDisk
  <2>1. CASE s = Slot
    BY <1>3, <2>1
  <2>2. CASE s # Slot
    BY <1>3, <2>2 DEF ServersInv, CleanIsOnDisk
  <2> QED
    BY <2>1, <2>2
<1> QED
  BY <1>1, <1>2, <1>3, <1>4

LEMMA FetchedStep ==
    ASSUME ServersInv, Fetched
    PROVE  ServersInv'
<1>1. PICK k \in Oldest("IDE", "HARD") :
         /\ Collect("IDE", k)
         /\ IF box["IDE"][k] = Ready
            THEN cache' = [cache EXCEPT ![Slot] = Filled(Sector)] /\ at' = "byte"
            ELSE UNCHANGED <<cache, at>>
  BY DEF Fetched, GetReady
<1>2. /\ at = "fetch" /\ Serving /\ i < Io.length
      /\ UNCHANGED <<asked, want, buffer, fm, m, i, drive, disk, halt>>
  BY DEF Fetched, Serving, ServersInv, CacheMatches
<1>3. CASE box["IDE"][k] # Ready
  BY <1>1, <1>2, <1>3, StillAwaits
<1>4. CASE box["IDE"][k] = Ready
  <2>1. /\ BoxesTyped'
        /\ box'["FM"] = box["FM"] /\ \A c \in Callers : box'[c] = box[c]
        /\ (Sent' <=> Sent) /\ (Done' <=> Done)
        /\ Single(box'["IDE"], DeviceRequests)
        /\ \A y \in DeviceRequests : Has(box'["IDE"], {y}) => y = Device(fm.m)
        /\ Single(box'["IDE"], {Ready})
        /\ Has(box["IDE"], {Ready}) /\ ~Has(box'["IDE"], {Ready})
    BY <1>1, <1>4, FromHard
  <2>2. drive' = NoCommand
    BY <1>2, <2>1 DEF ServersInv, DriveMatches
  <2>3. at' = "byte" /\ Serving' /\ cache' = [cache EXCEPT ![Slot] = Filled(Sector)]
    BY <1>1, <1>4 DEF Serving
  <2> DEFINE slot == Filled(Sector)
  <2>4. /\ slot \in [sector : Sectors, used : BOOLEAN, dirty : BOOLEAN, content : Content]
        /\ slot.used /\ slot.sector = Sector
        /\ \A b \in 0 .. SectorSize - 1 : slot.content[b] = disk[slot.sector * SectorSize + b]
    <3>1. Sector \in Sectors
      BY <1>2, AtAddress
    <3>2. \A b \in 0 .. SectorSize - 1 : Sector * SectorSize + b \in Addresses
      BY <3>1, SectorAddresses
    <3>3. \A b \in 0 .. SectorSize - 1 : disk[Sector * SectorSize + b] \in Nat
      BY <3>2 DEF ServersInv, IdeTypeOK
    <3>4. [b \in 0 .. SectorSize - 1 |-> disk[Sector * SectorSize + b]] \in Content
      BY <3>3 DEF Content
    <3> QED
      BY <3>1, <3>4 DEF Filled
  <2> HIDE DEF slot
  <2>5. /\ cache' \in [Slots -> [sector : Sectors, used : BOOLEAN, dirty : BOOLEAN,
                                 content : Content]]
        /\ \A s \in Slots : cache'[s].used => cache'[s].sector % NSlots = s
        /\ \A s \in Slots : cache'[s].dirty => cache'[s].used
        /\ CleanIsOnDisk'
    <3>1. cache' = [cache EXCEPT ![Slot] = slot] /\ disk' = disk
      BY <1>2, <2>3 DEF slot
    <3> QED
      BY <1>2, <2>4, <3>1, SlotReplaced
  <2>6. OneInFlight'
    BY <1>2, <2>1, <2>3 DEF ServersInv, OneInFlight
  <2>7. DriveMatches'
    BY <2>1, <2>2, <2>3 DEF DriveMatches
  <2>8. CacheMatches'
    BY <1>2, <2>3, <2>5 DEF ServersInv, CacheMatches, Io
  <2>9. OwnRequests'
    BY <1>2, <2>1, KeepsOwn
  <2>10. IdeTypeOK'
    BY <1>2, <2>3, <2>5 DEF ServersInv, IdeTypeOK
  <2> QED
    BY <1>2, <2>1, <2>5, <2>6, <2>7, <2>8, <2>9, <2>10 DEF ServersInv, DriveInStep
<1> QED
  BY <1>3, <1>4

LEMMA ReadByteStep ==
    ASSUME ServersInv, ReadByte
    PROVE  ServersInv'
<1>1. /\ at = "byte" /\ i < Io.length /\ Serving /\ Serving' = Serving /\ i' = i + 1
      /\ drive = NoCommand /\ ~Has(box["IDE"], {Ready})
      /\ UNCHANGED <<box, asked, want, fm, at, m, cache, drive, disk, halt>>
  BY DEF ReadByte, Serving, ServersInv, DriveMatches, Awaiting
<1>2. i \in Nat /\ Io.length \in Nat /\ i' \in Nat /\ i' <= Io.length /\ Io' = Io
  <2>1. i \in Nat /\ Io.length \in Nat
    BY <1>1, Working
  <2>2. \A x, y \in Nat : x < y => x + 1 \in Nat /\ x + 1 <= y
    OBVIOUS
  <2> QED
    BY <1>1, <2>1, <2>2 DEF Io
<1>3. DriveMatches'
  BY <1>1 DEF DriveMatches, ServersInv
<1>4. CacheMatches'
  BY <1>1, <1>2 DEF ServersInv, CacheMatches
<1>5. OneInFlight' /\ OwnRequests' /\ BoxesTyped' /\ CleanIsOnDisk'
  BY <1>1, KeepsFlight, KeepsOwn, KeepsBoxes, KeepsClean
<1>6. IdeTypeOK'
  BY <1>1, <1>2 DEF ServersInv, IdeTypeOK
<1> QED
  BY <1>1, <1>3, <1>4, <1>5, <1>6 DEF ServersInv, DriveInStep

\* A byte of a slot is written.
LEMMA WrittenSlot ==
    ASSUME NEW R, NEW old \in [sector : R, used : BOOLEAN, dirty : BOOLEAN, content : Content],
           NEW b \in 0 .. SectorSize - 1, NEW d \in Nat
    PROVE  /\ Written(old, b, d) \in [sector : R, used : BOOLEAN, dirty : BOOLEAN,
                                      content : Content]
           /\ Written(old, b, d).sector = old.sector
           /\ Written(old, b, d).used = old.used
           /\ Written(old, b, d).dirty = TRUE
<1> DEFINE c == [old.content EXCEPT ![b] = d]
<1>1. Written(old, b, d) = [[old EXCEPT !.content = c] EXCEPT !.dirty = TRUE]
  BY DEF Written
<1>2. c \in Content
  BY DEF Content
<1> HIDE DEF c
<1>3. [old EXCEPT !.content = c] \in [sector : R, used : BOOLEAN, dirty : BOOLEAN,
                                      content : Content]
  BY <1>2
<1> QED
  BY <1>1, <1>2, <1>3

LEMMA WriteByteStep ==
    ASSUME ServersInv, WriteByte
    PROVE  ServersInv'
<1> DEFINE slot == Written(cache[Slot], Address % SectorSize, want[m.buf].data)
<1>1. /\ at = "byte" /\ i < Io.length /\ Serving /\ Serving' = Serving /\ i' = i + 1
      /\ drive = NoCommand /\ ~Has(box["IDE"], {Ready})
      /\ cache' = [cache EXCEPT ![Slot] = slot]
      /\ Hit(Slot, Sector)
      /\ UNCHANGED <<box, asked, want, fm, at, m, drive, disk, halt>>
  BY DEF WriteByte, Serving, ServersInv, DriveMatches, Awaiting
<1>2. i \in Nat /\ Io.length \in Nat /\ i' \in Nat /\ i' <= Io.length /\ Io' = Io
  <2>1. i \in Nat /\ Io.length \in Nat
    BY <1>1, Working
  <2>2. \A x, y \in Nat : x < y => x + 1 \in Nat /\ x + 1 <= y
    OBVIOUS
  <2> QED
    BY <1>1, <2>1, <2>2 DEF Io
<1>3. /\ slot \in [sector : Sectors, used : BOOLEAN, dirty : BOOLEAN, content : Content]
      /\ slot.used /\ slot.sector = Sector /\ slot.dirty
  <2>1. /\ Slot \in Slots /\ Address % SectorSize \in 0 .. SectorSize - 1
    BY <1>1, AtAddress
  <2>2. cache[Slot] \in [sector : Sectors, used : BOOLEAN, dirty : BOOLEAN, content : Content]
    BY <2>1 DEF ServersInv, IdeTypeOK
  <2>3. want[m.buf].data \in Nat
    <3>1. want[m.buf] \in RequestRecord
      BY <1>1, Working, DiskAssumption
    <3> QED
      BY <3>1 DEF RequestRecord
  <2>4. /\ slot \in [sector : Sectors, used : BOOLEAN, dirty : BOOLEAN, content : Content]
        /\ slot.sector = cache[Slot].sector /\ slot.used = cache[Slot].used /\ slot.dirty
    <3> DEFINE old == cache[Slot]
               b == Address % SectorSize
               d == want[m.buf].data
    <3>1. /\ old \in [sector : Sectors, used : BOOLEAN, dirty : BOOLEAN, content : Content]
          /\ b \in 0 .. SectorSize - 1 /\ d \in Nat
      BY <2>1, <2>2, <2>3
    <3> HIDE DEF old, b, d
    <3>2. /\ Written(old, b, d) \in [sector : Sectors, used : BOOLEAN, dirty : BOOLEAN,
                                     content : Content]
          /\ Written(old, b, d).sector = old.sector
          /\ Written(old, b, d).used = old.used
          /\ Written(old, b, d).dirty = TRUE
      BY <3>1, WrittenSlot
    <3> QED
      BY <3>2 DEF old, b, d
  <2> HIDE DEF slot
  <2> QED
    BY <1>1, <2>4 DEF Hit
<1> HIDE DEF slot
<1>4. /\ cache' \in [Slots -> [sector : Sectors, used : BOOLEAN, dirty : BOOLEAN,
                               content : Content]]
      /\ \A s \in Slots : cache'[s].used => cache'[s].sector % NSlots = s
      /\ \A s \in Slots : cache'[s].dirty => cache'[s].used
      /\ CleanIsOnDisk'
  BY <1>1, <1>3, SlotReplaced
<1>5. DriveMatches'
  BY <1>1 DEF DriveMatches, ServersInv
<1>6. CacheMatches'
  BY <1>1, <1>2, <1>4 DEF ServersInv, CacheMatches
<1>7. OneInFlight' /\ OwnRequests' /\ BoxesTyped'
  BY <1>1, KeepsFlight, KeepsOwn, KeepsBoxes
<1>8. IdeTypeOK'
  BY <1>1, <1>2, <1>4 DEF ServersInv, IdeTypeOK
<1> QED
  BY <1>1, <1>4, <1>5, <1>6, <1>7, <1>8 DEF ServersInv, DriveInStep

LEMMA IdeReplyStep ==
    ASSUME ServersInv, IdeReply
    PROVE  ServersInv'
<1> DEFINE x == Answer("IDE")
<1>1. /\ at = "byte" /\ Serving /\ BoxesTyped /\ at' = "top" /\ i' = 0 /\ ~Serving'
      /\ drive = NoCommand /\ ~Has(box["IDE"], {Ready})
      /\ UNCHANGED <<asked, want, buffer, fm, cache, drive, disk, halt>>
  BY DEF IdeReply, Serving, ServersInv, DriveMatches, Awaiting
<1>2. m.src = "FM" /\ fm.at = "asked" /\ ~Sent /\ ~Done
  BY <1>1 DEF ServersInv, OneInFlight, Device
<1>3. Deliver("FM", x)
  BY <1>2 DEF IdeReply, Answer
<1> HIDE DEF x
<1>4. /\ BoxesTyped'
      /\ box'["IDE"] = box["IDE"] /\ \A c \in Callers : box'[c] = box[c]
      /\ \A T : Has(box'["FM"], T) <=> Has(box["FM"], T) \/ x \in T
      /\ \A T : Single(box["FM"], T) /\ ~(x \in T /\ Has(box["FM"], T))
                => Single(box'["FM"], T)
  BY <1>1, <1>3, ToFm DEF x
<1>5. OneInFlight'
  <2>1. Done' /\ ~Sent'
    BY <1>2, <1>4 DEF Sent, Done, x
  <2>2. Single(box'["FM"], {Answer("IDE")})
    <3>1. Single(box["FM"], {Answer("IDE")}) /\ ~Has(box["FM"], {Answer("IDE")})
      BY <1>2 DEF ServersInv, OneInFlight, Done
    <3> QED
      BY <1>4, <3>1
  <2> QED
    BY <1>1, <1>2, <1>4, <2>1, <2>2 DEF ServersInv, OneInFlight
<1>6. OwnRequests'
  <2>1. \A c \in Callers : x \notin From(c)
    BY Kinds DEF x
  <2>2. \A c \in Callers : Has(box'["FM"], From(c)) <=> Has(box["FM"], From(c))
    BY <1>4, <2>1
  <2>3. \A c \in Callers : OnItsWay(c)' <=> OnItsWay(c)
    BY <1>1, <2>2 DEF OnItsWay
  <2>4. \A y \in FmMessage : x # y
    BY Kinds DEF x
  <2>5. \A y \in FmMessage : Has(box'["FM"], {y}) <=> Has(box["FM"], {y})
    BY <1>4, <2>4
  <2>6. \A c \in Callers : Single(box'["FM"], From(c))
    BY <1>4, <2>1 DEF ServersInv, OwnRequests
  <2>7. fm.m \in FmMessage /\ want[fm.m.src] = fm.m.io /\ ~Has(box["FM"], From(fm.m.src))
    BY <1>2 DEF ServersInv, OwnRequests
  <2>8. fm.m.src \in Callers
    BY <2>7, Kinds
  <2> QED
    BY <1>1, <1>4, <2>2, <2>3, <2>5, <2>6, <2>7, <2>8 DEF ServersInv, OwnRequests
<1>7. DriveMatches'
  BY <1>1, <1>4 DEF DriveMatches, ServersInv
<1>8. CacheMatches'
  BY <1>1 DEF ServersInv, CacheMatches
<1>9. IdeTypeOK' /\ CleanIsOnDisk'
  BY <1>1, KeepsClean DEF ServersInv, IdeTypeOK
<1> QED
  BY <1>1, <1>4, <1>5, <1>6, <1>7, <1>8, <1>9 DEF ServersInv, DriveInStep

(***************************************************************************)
(* The scan of a write back.                                               *)
(***************************************************************************)
LEMMA ScanSlotStep ==
    ASSUME ServersInv, ScanSlot
    PROVE  ServersInv'
<1>1. /\ at = "scan" /\ ~Serving /\ i \in Slots /\ i \in Nat
      /\ drive = NoCommand /\ ~Has(box["IDE"], {Ready})
      /\ UNCHANGED <<box, asked, want, buffer, fm, m, cache, disk>>
  <2>1. at = "scan" /\ i \in Nat /\ i <= NSlots /\ i # NSlots
    BY DEF ScanSlot, AllScanned, ServersInv, IdeTypeOK, CacheMatches
  <2>2. NSlots \in Nat
    BY DiskAssumption
  <2>3. i \in Slots
    BY <2>1, <2>2 DEF Slots
  <2> QED
    BY <2>1, <2>3 DEF ScanSlot, ServersInv, DriveMatches, Awaiting, Serving
<1>2. OwnRequests' /\ BoxesTyped' /\ CleanIsOnDisk'
  BY <1>1, KeepsOwn, KeepsBoxes, KeepsClean
<1>3. CASE cache[i].dirty
  <2>1. at' = "clean" /\ drive' = WriteSlot(i) /\ i' = i /\ halt' = halt /\ ~Serving'
    BY <1>1, <1>3 DEF ScanSlot, Issue, Serving
  <2>2. OneInFlight'
    BY <1>1, <2>1, KeepsFlight DEF ServersInv, OneInFlight, Sent, Done
  <2>3. DriveMatches'
    BY <1>1, <2>1 DEF ServersInv, DriveMatches, Awaiting, WriteSlot
  <2>4. CacheMatches'
    BY <1>1, <1>3, <2>1 DEF ServersInv, CacheMatches, MustEvict
  <2>5. IdeTypeOK'
    BY <1>1, <2>1 DEF ServersInv, IdeTypeOK
  <2> QED
    BY <1>2, <2>1, <2>2, <2>3, <2>4, <2>5 DEF ServersInv, DriveInStep
<1>4. CASE ~cache[i].dirty
  <2>1. i' = i + 1 /\ UNCHANGED <<drive, at, halt>> /\ ~Serving'
    BY <1>1, <1>4 DEF ScanSlot, Serving
  <2>2. i' \in Nat /\ i' <= NSlots
    <3>1. NSlots \in Nat
      BY DiskAssumption
    <3> QED
      BY <1>1, <2>1, <3>1 DEF Slots
  <2>3. OneInFlight'
    BY <1>1, <2>1, KeepsFlight DEF ServersInv, OneInFlight, Sent, Done
  <2>4. DriveMatches'
    BY <1>1, <2>1 DEF ServersInv, DriveMatches
  <2>5. CacheMatches'
    BY <1>1, <2>1, <2>2 DEF ServersInv, CacheMatches
  <2>6. IdeTypeOK'
    BY <1>1, <2>1, <2>2 DEF ServersInv, IdeTypeOK
  <2> QED
    BY <1>2, <2>1, <2>3, <2>4, <2>5, <2>6 DEF ServersInv, DriveInStep
<1> QED
  BY <1>3, <1>4

LEMMA SlotWrittenStep ==
    ASSUME ServersInv, SlotWritten
    PROVE  ServersInv'
<1>1. PICK k \in Oldest("IDE", "HARD") :
         /\ Collect("IDE", k)
         /\ IF box["IDE"][k] = Ready
            THEN /\ cache' = [cache EXCEPT ![i].dirty = FALSE]
                 /\ i' = i + 1 /\ at' = "scan"
            ELSE UNCHANGED <<cache, i, at>>
  BY DEF SlotWritten, GetReady
<1>2. /\ at = "clean" /\ ~Serving /\ i \in Slots
      /\ UNCHANGED <<asked, want, buffer, fm, m, drive, disk, halt>>
  BY DEF SlotWritten, Serving, ServersInv, CacheMatches
<1>3. CASE box["IDE"][k] # Ready
  BY <1>1, <1>2, <1>3, StillAwaits
<1>4. CASE box["IDE"][k] = Ready
  <2>1. /\ BoxesTyped'
        /\ box'["FM"] = box["FM"] /\ \A c \in Callers : box'[c] = box[c]
        /\ (Sent' <=> Sent) /\ (Done' <=> Done)
        /\ Single(box'["IDE"], DeviceRequests)
        /\ \A y \in DeviceRequests : Has(box'["IDE"], {y}) => y = Device(fm.m)
        /\ Single(box'["IDE"], {Ready})
        /\ Has(box["IDE"], {Ready}) /\ ~Has(box'["IDE"], {Ready})
    BY <1>1, <1>4, FromHard
  <2>2. drive' = NoCommand /\ OnDisk(i)
    BY <1>2, <2>1 DEF ServersInv, DriveMatches, CacheMatches
  <2>3. /\ at' = "scan" /\ ~Serving' /\ i' = i + 1
        /\ cache' = [cache EXCEPT ![i].dirty = FALSE]
    BY <1>1, <1>4 DEF Serving
  <2>4. i' \in Nat /\ i' <= NSlots
    <3>1. NSlots \in Nat
      BY DiskAssumption
    <3> QED
      BY <1>2, <2>3, <3>1 DEF Slots
  <2>5. /\ cache \in [Slots -> [sector : Sectors, used : BOOLEAN, dirty : BOOLEAN,
                                content : Content]]
        /\ \A s \in Slots : cache[s].used => cache[s].sector % NSlots = s
        /\ \A s \in Slots : cache[s].dirty => cache[s].used
    BY DEF ServersInv, IdeTypeOK, CacheMatches
  <2>6. /\ cache' \in [Slots -> [sector : Sectors, used : BOOLEAN, dirty : BOOLEAN,
                                 content : Content]]
        /\ \A s \in Slots : /\ cache'[s].used = cache[s].used
                            /\ cache'[s].sector = cache[s].sector
                            /\ cache'[s].content = cache[s].content
                            /\ cache'[s].dirty => cache[s].dirty
                            /\ s # i => cache'[s].dirty = cache[s].dirty
    BY <2>3, <2>5
  <2>7. CleanIsOnDisk'
    <3> SUFFICES ASSUME NEW s \in Slots, cache'[s].used, ~cache'[s].dirty,
                        NEW b \in 0 .. SectorSize - 1
                 PROVE  cache[s].content[b] = disk[cache[s].sector * SectorSize + b]
      BY <1>2, <2>6 DEF CleanIsOnDisk
    <3>1. CASE s = i
      BY <2>2, <3>1 DEF OnDisk
    <3>2. CASE s # i
      BY <2>6, <3>2 DEF ServersInv, CleanIsOnDisk
    <3> QED
      BY <3>1, <3>2
  <2>8. OneInFlight'
    BY <1>2, <2>1, <2>3 DEF ServersInv, OneInFlight
  <2>9. DriveMatches'
    BY <2>1, <2>2, <2>3 DEF DriveMatches
  <2>10. CacheMatches'
    BY <2>3, <2>4, <2>5, <2>6 DEF CacheMatches
  <2>11. OwnRequests'
    BY <1>2, <2>1, KeepsOwn
  <2>12. IdeTypeOK'
    BY <1>2, <2>3, <2>4, <2>5, <2>6 DEF ServersInv, IdeTypeOK
  <2> QED
    BY <1>2, <2>1, <2>7, <2>8, <2>9, <2>10, <2>11, <2>12 DEF ServersInv, DriveInStep
<1> QED
  BY <1>3, <1>4

LEMMA ScanEndsStep ==
    ASSUME ServersInv, ScanEnds
    PROVE  ServersInv'
<1>1. /\ at = "scan" /\ ~Serving /\ at' = "top" /\ i' = 0 /\ ~Serving'
      /\ drive = NoCommand /\ ~Has(box["IDE"], {Ready})
      /\ UNCHANGED <<box, asked, want, buffer, fm, cache, drive, disk, halt>>
  BY DEF ScanEnds, ServersInv, DriveMatches, Awaiting, Serving
<1>2. OneInFlight'
  BY <1>1 DEF ServersInv, OneInFlight, Sent, Done
<1>3. DriveMatches'
  BY <1>1 DEF ServersInv, DriveMatches
<1>4. CacheMatches'
  BY <1>1 DEF ServersInv, CacheMatches
<1>5. OwnRequests' /\ BoxesTyped' /\ CleanIsOnDisk'
  BY <1>1, KeepsOwn, KeepsBoxes, KeepsClean
<1>6. IdeTypeOK'
  BY <1>1 DEF ServersInv, IdeTypeOK
<1> QED
  BY <1>1, <1>2, <1>3, <1>4, <1>5, <1>6 DEF ServersInv, DriveInStep

(***************************************************************************)
(* The drive and the timer.                                                *)
(***************************************************************************)
\* The drive has ended the write of a slot that is used and dirty: the disk
\* has what is in that slot, and what it had of every other.
LEMMA SlotReachesDisk ==
    ASSUME ServersInv, NEW s \in Slots, MustEvict(s), IdeIntr, drive = WriteSlot(s)
    PROVE  OnDisk(s)' /\ CleanIsOnDisk'
<1>1. /\ cache' = cache
      /\ \A a \in Addresses :
            disk'[a] = IF a \div SectorSize = cache[s].sector
                       THEN cache[s].content[a % SectorSize] ELSE disk[a]
  BY DEF IdeIntr, WriteSlot
<1>2. \A t \in Slots : cache[t].sector \in Sectors
  BY DEF ServersInv, IdeTypeOK
<1>3. ASSUME NEW t \in Slots, NEW b \in 0 .. SectorSize - 1
      PROVE  disk'[cache[t].sector * SectorSize + b] =
                IF cache[t].sector = cache[s].sector THEN cache[s].content[b]
                ELSE disk[cache[t].sector * SectorSize + b]
  <2> DEFINE a == cache[t].sector * SectorSize + b
  <2>1. a \in Addresses /\ a \div SectorSize = cache[t].sector /\ a % SectorSize = b
    BY <1>2, SectorAddresses
  <2> HIDE DEF a
  <2>2. disk'[a] = IF cache[t].sector = cache[s].sector THEN cache[s].content[b] ELSE disk[a]
    BY <1>1, <2>1
  <2> QED
    BY <2>2 DEF a
<1>4. OnDisk(s)'
  BY <1>1, <1>3 DEF OnDisk
<1>5. CleanIsOnDisk'
  <2> SUFFICES ASSUME NEW t \in Slots, cache[t].used, ~cache[t].dirty,
                      NEW b \in 0 .. SectorSize - 1
               PROVE  cache[t].content[b] = disk'[cache[t].sector * SectorSize + b]
    BY <1>1 DEF CleanIsOnDisk
  <2>1. cache[t].sector # cache[s].sector
    <3>1. cache[s].used /\ cache[s].dirty
      BY DEF MustEvict
    <3>2. cache[t].sector % NSlots = t /\ cache[s].sector % NSlots = s
      BY <3>1 DEF ServersInv, IdeTypeOK
    <3> QED
      BY <3>1, <3>2
  <2> QED
    BY <1>3, <2>1 DEF ServersInv, CleanIsOnDisk
<1> QED
  BY <1>4, <1>5

LEMMA IdeIntrStep ==
    ASSUME ServersInv, IdeIntr
    PROVE  ServersInv'
<1>1. /\ drive # NoCommand /\ drive' = NoCommand /\ Deliver("IDE", Ready) /\ BoxesTyped
      /\ UNCHANGED <<asked, want, buffer, fm, at, m, i, cache, halt>>
      /\ ~Has(box["IDE"], {Ready}) /\ Awaiting /\ Serving' = Serving
  BY DEF IdeIntr, ServersInv, DriveMatches, Serving
<1>2. /\ BoxesTyped'
      /\ box'["FM"] = box["FM"] /\ \A c \in Callers : box'[c] = box[c]
      /\ \A T : Has(box'["IDE"], T) <=> Has(box["IDE"], T) \/ Ready \in T
      /\ \A T : Single(box["IDE"], T) /\ ~(Ready \in T /\ Has(box["IDE"], T))
                => Single(box'["IDE"], T)
  BY <1>1, ToIde
<1>3. Ready \notin DeviceRequests /\ \A y \in DeviceRequests : Ready # y
  BY Kinds
<1>4. OneInFlight'
  <2>1. (Sent' <=> Sent) /\ (Done' <=> Done)
    BY <1>2, <1>3 DEF Sent, Done
  <2>2. Single(box'["IDE"], DeviceRequests)
    BY <1>2, <1>3 DEF ServersInv, OneInFlight
  <2>3. \A y \in DeviceRequests : Has(box'["IDE"], {y}) => y = Device(fm.m)
    BY <1>2, <1>3 DEF ServersInv, OneInFlight
  <2> QED
    BY <1>1, <1>2, <2>1, <2>2, <2>3 DEF ServersInv, OneInFlight
<1>5. OwnRequests'
  BY <1>1, <1>2, KeepsOwn
<1>6. DriveMatches'
  <2>1. Single(box'["IDE"], {Ready})
    BY <1>1, <1>2 DEF ServersInv, DriveMatches
  <2> QED
    BY <1>1, <2>1 DEF DriveMatches, Awaiting
<1>7. disk' \in [Addresses -> Nat] /\ CleanIsOnDisk' /\ (at = "clean" => OnDisk(i)')
  <2>1. disk' = [a \in Addresses |->
           IF drive.op = "write" /\ a \div SectorSize = drive.sector
           THEN drive.content[a % SectorSize] ELSE disk[a]]
    BY DEF IdeIntr
  <2>2. disk \in [Addresses -> Nat]
    BY DEF ServersInv, IdeTypeOK
  <2>3. CASE at = "fetch"
    <3>1. drive.op = "read"
      BY <1>1, <2>3 DEF ServersInv, DriveMatches
    <3>2. disk' = disk
      BY <2>1, <2>2, <3>1
    <3> QED
      BY <1>1, <2>2, <2>3, <3>2, KeepsClean
  <2>4. ASSUME NEW s \in Slots, MustEvict(s), drive = WriteSlot(s)
        PROVE  disk' \in [Addresses -> Nat] /\ CleanIsOnDisk' /\ OnDisk(s)'
    <3>1. cache[s].content \in Content
      BY DEF ServersInv, IdeTypeOK
    <3>2. \A a \in Addresses : cache[s].content[a % SectorSize] \in Nat
      BY <3>1, AddressSector DEF Content
    <3>3. \A a \in Addresses : disk[a] \in Nat
      BY <2>2
    <3>4. disk' \in [Addresses -> Nat]
      BY <2>1, <2>4, <3>2, <3>3 DEF WriteSlot
    <3> QED
      BY <2>4, <3>4, SlotReachesDisk
  <2>5. CASE at = "evict"
    <3>1. drive = WriteSlot(Slot) /\ MustEvict(Slot) /\ Serving /\ i < Io.length
      BY <1>1, <2>5 DEF ServersInv, DriveMatches, CacheMatches, Serving
    <3>2. Slot \in Slots
      BY <3>1, AtAddress
    <3> QED
      BY <2>4, <2>5, <3>1, <3>2
  <2>6. CASE at = "clean"
    <3>1. drive = WriteSlot(i) /\ MustEvict(i) /\ i \in Slots
      BY <1>1, <2>6 DEF ServersInv, DriveMatches, CacheMatches
    <3>2. PICK s \in Slots : s = i
      BY <3>1
    <3>3. disk' \in [Addresses -> Nat] /\ CleanIsOnDisk' /\ OnDisk(s)'
      BY <2>4, <3>1, <3>2
    <3> QED
      BY <1>1, <3>2, <3>3 DEF OnDisk
  <2> QED
    BY <1>1, <2>3, <2>5, <2>6 DEF Awaiting
<1>8. CacheMatches'
  BY <1>1, <1>7 DEF ServersInv, CacheMatches, MustEvict, Slot, Sector, Address, Io
<1>9. IdeTypeOK'
  BY <1>1, <1>7 DEF ServersInv, IdeTypeOK
<1> QED
  BY <1>1, <1>2, <1>4, <1>5, <1>6, <1>7, <1>8, <1>9 DEF ServersInv, DriveInStep

LEMMA TimeIntrStep ==
    ASSUME ServersInv, TimeIntr
    PROVE  ServersInv'
<1>1. /\ Deliver("IDE", WriteBack) /\ BoxesTyped
      /\ UNCHANGED <<asked, want, buffer, fm, at, m, i, cache, drive, disk, halt>>
      /\ Serving' = Serving
  BY DEF TimeIntr, ServersInv, Serving
<1>2. /\ BoxesTyped'
      /\ box'["FM"] = box["FM"] /\ \A c \in Callers : box'[c] = box[c]
      /\ \A T : Has(box'["IDE"], T) <=> Has(box["IDE"], T) \/ WriteBack \in T
      /\ \A T : Single(box["IDE"], T) /\ ~(WriteBack \in T /\ Has(box["IDE"], T))
                => Single(box'["IDE"], T)
  BY <1>1, ToIde
<1>3. /\ WriteBack \notin DeviceRequests /\ \A y \in DeviceRequests : WriteBack # y
      /\ WriteBack \notin {Ready}
  BY Kinds
<1>4. OneInFlight'
  <2>1. (Sent' <=> Sent) /\ (Done' <=> Done)
    BY <1>2, <1>3 DEF Sent, Done
  <2>2. Single(box'["IDE"], DeviceRequests)
    BY <1>2, <1>3 DEF ServersInv, OneInFlight
  <2>3. \A y \in DeviceRequests : Has(box'["IDE"], {y}) => y = Device(fm.m)
    BY <1>2, <1>3 DEF ServersInv, OneInFlight
  <2> QED
    BY <1>1, <1>2, <2>1, <2>2, <2>3 DEF ServersInv, OneInFlight
<1>5. OwnRequests'
  BY <1>1, <1>2, KeepsOwn
<1>6. Single(box'["IDE"], {Ready}) /\ (Has(box'["IDE"], {Ready}) <=> Has(box["IDE"], {Ready}))
  BY <1>2, <1>3 DEF ServersInv, DriveMatches
<1>7. DriveMatches'
  BY <1>1, <1>6 DEF ServersInv, DriveMatches, Awaiting, WriteSlot, Slot, Sector, Address, Io
<1>8. CacheMatches'
  BY <1>1, <1>6 DEF ServersInv, CacheMatches, Serving, MustEvict, OnDisk, Slot, Sector, Address, Io
<1>9. IdeTypeOK' /\ CleanIsOnDisk'
  BY <1>1, KeepsClean DEF ServersInv, IdeTypeOK
<1> QED
  BY <1>1, <1>2, <1>4, <1>5, <1>7, <1>8, <1>9 DEF ServersInv, DriveInStep

LEMMA InitServers == IdeInit => ServersInv
<1> SUFFICES ASSUME IdeInit PROVE ServersInv
  OBVIOUS
<1>1. /\ DOMAIN box = Callers \cup {"FM", "IDE"}
      /\ \A p \in Callers \cup {"FM", "IDE"} : box[p] = <<>>
      /\ asked = 0 /\ want = [c \in Callers |-> Nobody]
      /\ fm = [at |-> "top", m |-> Nobody] /\ at = "top" /\ m = Nobody /\ i = 0
      /\ cache = [s \in Slots |-> EmptySlot] /\ drive = NoCommand /\ disk = Contents
      /\ halt = "none"
  BY DEF IdeInit
<1>2. box["FM"] = <<>> /\ box["IDE"] = <<>> /\ \A c \in Callers : box[c] = <<>>
  BY <1>1
<1>3. \A T : ~Has(<<>>, T) /\ Single(<<>>, T)
  <2>1. Len(<<>>) = 0
    OBVIOUS
  <2>2. 1 .. 0 = {}
    OBVIOUS
  <2> QED
    BY <2>1, <2>2 DEF Has, Single
<1>4. BoxesTyped
  BY <1>1, <1>2 DEF BoxesTyped
<1>5. OneInFlight
  BY <1>1, <1>2, <1>3 DEF OneInFlight, Sent, Done, Serving
<1>6. OwnRequests
  BY <1>1, <1>2, <1>3 DEF OwnRequests
<1>7. DriveMatches
  BY <1>1, <1>2, <1>3 DEF DriveMatches
<1>8. /\ EmptySlot \in [sector : Sectors, used : BOOLEAN, dirty : BOOLEAN, content : Content]
      /\ ~EmptySlot.used /\ ~EmptySlot.dirty
  <2>1. 0 \in Sectors
    <3>1. SectorSize \in Nat \ {0} /\ 0 \in Addresses
      BY DiskAssumption, FS_CardinalityType
    <3>2. 0 \div SectorSize = 0
      BY <3>1
    <3> QED
      BY <3>1, <3>2 DEF Sectors
  <2>2. [b \in 0 .. SectorSize - 1 |-> 0] \in Content
    BY DEF Content
  <2> QED
    BY <2>1, <2>2 DEF EmptySlot
<1>9. CacheMatches
  BY <1>1, <1>8 DEF CacheMatches, Serving
<1>10. IdeTypeOK
  <2>1. 0 \in 0 .. MaxRequests
    BY DiskAssumption
  <2>2. disk \in [Addresses -> Nat]
    BY <1>1, DiskAssumption
  <2> QED
    BY <1>1, <1>8, <2>1, <2>2 DEF IdeTypeOK
<1>11. CleanIsOnDisk
  BY <1>1, <1>8 DEF CleanIsOnDisk
<1> QED
  BY <1>1, <1>4, <1>5, <1>6, <1>7, <1>9, <1>10, <1>11 DEF ServersInv, DriveInStep

LEMMA StepServers == ServersInv /\ [IdeNext]_vars => ServersInv'
<1> SUFFICES ASSUME ServersInv, [IdeNext]_vars PROVE ServersInv'
  OBVIOUS
<1>1. CASE FileManagement
  BY <1>1, FmReceiveStep, FmSendStep, FmAnsweredStep, FmReplyStep DEF FileManagement
<1>2. CASE IdeDriver
  BY <1>2, IdeReceiveStep, FetchStep, EvictedStep, FetchedStep, ReadByteStep, WriteByteStep,
     IdeReplyStep, ScanSlotStep, SlotWrittenStep, ScanEndsStep DEF IdeDriver
<1>3. CASE IdeIntr \/ TimeIntr
  BY <1>3, IdeIntrStep, TimeIntrStep
<1>4. CASE \E c \in Callers : Resume(c) \/ \E r \in Requests : Call(c, r)
  BY <1>4, CallStep, ResumeStep
<1>5. CASE UNCHANGED vars
  <2>1. /\ UNCHANGED <<box, asked, want, fm, at, m, i, cache, drive, disk, halt>>
        /\ Serving' = Serving
    BY <1>5 DEF vars, Serving
  <2>2. BoxesTyped' /\ OneInFlight' /\ OwnRequests' /\ DriveMatches'
    BY <2>1, KeepsBoxes, KeepsFlight, KeepsOwn, KeepsDrive
  <2>3. CacheMatches' /\ CleanIsOnDisk'
    BY <2>1, KeepsCache, KeepsClean
  <2>4. IdeTypeOK' /\ DriveInStep'
    BY <2>1 DEF ServersInv, IdeTypeOK, DriveInStep
  <2> QED
    BY <2>2, <2>3, <2>4 DEF ServersInv
<1> QED
  BY <1>1, <1>2, <1>3, <1>4, <1>5 DEF IdeNext

-----------------------------------------------------------------------------
(***************************************************************************)
(* What the callers see: which requests wait, and the bytes.               *)
(***************************************************************************)
LEMMA ForKinds ==
    /\ \A c \in Callers : For(c) \subseteq DeviceRequests
    /\ \A c \in Callers : Ready \notin For(c) /\ WriteBack \notin For(c)
    /\ \A x \in FmMessage, c \in Callers : Device(x) \in For(c) <=> x.src = c
<1>1. \A c \in Callers : For(c) \subseteq DeviceRequests
  BY Kinds DEF For, DeviceRequests
<1>2. ASSUME NEW x \in FmMessage, NEW c \in Callers
      PROVE  Device(x) \in For(c) <=> x.src = c
  <2>1. x \in From(c) <=> x.src = c
    BY Kinds
  <2>2. ASSUME Device(x) \in For(c) PROVE x.src = c
    <3>1. PICK y \in From(c) : Device(x) = Device(y)
      BY <2>2 DEF For
    <3>2. Device(x).buf = x.src /\ Device(y).buf = y.src
      BY DEF Device
    <3>3. y.src = c
      BY <3>1, Kinds
    <3> QED
      BY <3>1, <3>2, <3>3
  <2> QED
    BY <2>1, <2>2 DEF For
<1> QED
  BY <1>1, <1>2, Kinds

\* The state of the callers' requests and of the bytes, as FlatDisk has them.
LEMMA FlatState ==
    ASSUME want' = want,
           \A c \in Callers : Waiting(c)' <=> Waiting(c),
           \A a \in Addresses : FinalByte(a)' = FinalByte(a),
           \A c \in Callers : FinalAnswer(c)' = FinalAnswer(c)
    PROVE  UNCHANGED Flat!flatVars
  BY DEF Flat!flatVars, Phase

LEMMA WaitingSame ==
    ASSUME UNCHANGED <<box["FM"], box["IDE"], fm>>
    PROVE  \A c \in Callers : Waiting(c)' <=> Waiting(c)
  BY DEF Waiting

LEMMA SameByteAt ==
    ASSUME UNCHANGED <<cache, disk>>, NEW CONSTANT a
    PROVE  ByteAt(a)' = ByteAt(a)
  BY DEF ByteAt, Cached, Hit

LEMMA SameBytes ==
    ASSUME UNCHANGED <<cache, disk>>
    PROVE  \A a \in Addresses : ByteAt(a)' = ByteAt(a)
  BY DEF ByteAt, Cached, Hit

LEMMA SameRest ==
    ASSUME UNCHANGED <<cache, disk, m, i>>
    PROVE  RestBytes' = RestBytes
  BY SameByteAt DEF RestBytes, Io

LEMMA PlaceIsInt ==
    ASSUME NEW r \in Requests
    PROVE  Place(r) \in Int
<1>1. r \in RequestRecord /\ KernelSize \in Nat /\ FileSize \in Nat
  BY DiskAssumption
<1>2. r.offset \in Nat /\ r.file \in Nat
  BY <1>1 DEF RequestRecord
<1>3. (r.file - 1) * FileSize \in Int
  BY <1>1, <1>2
<1> QED
  BY <1>1, <1>2, <1>3 DEF Place

\* The addresses that the driver has still to serve are on the disk.
LEMMA RestAddresses ==
    ASSUME ServersInv, Serving, NEW j \in Rest
    PROVE  Io.offset + j \in Addresses /\ Io.offset \in Int /\ Io.length \in Nat
<1>1. Place(fm.m.io) .. Place(fm.m.io) + fm.m.io.length - 1 \subseteq Addresses
  BY Working, DiskAssumption
<1>2. Place(fm.m.io) \in Int
  BY Working, PlaceIsInt
<1>3. /\ Io.offset = Place(fm.m.io) /\ i \in Nat
      /\ Io.length = fm.m.io.length /\ Io.length \in Nat
  BY Working
<1>4. Io.offset + j \in Place(fm.m.io) .. Place(fm.m.io) + fm.m.io.length - 1
  BY <1>2, <1>3 DEF Rest
<1> QED
  BY <1>1, <1>2, <1>3, <1>4

\* A step that changes no byte and does not work on the request.
LEMMA SameView ==
    ASSUME ServersInv, Serving' = Serving, Serving => UNCHANGED <<m, i>>,
           UNCHANGED <<want, buffer>>,
           \A a \in Addresses : ByteAt(a)' = ByteAt(a)
    PROVE  /\ \A a \in Addresses : FinalByte(a)' = FinalByte(a)
           /\ \A c \in Callers : FinalAnswer(c)' = FinalAnswer(c)
<1>1. Serving => Io' = Io /\ Rest' = Rest
  BY DEF Io, Rest
<1>2. ASSUME NEW a \in Addresses PROVE FinalByte(a)' = FinalByte(a)
  BY <1>1 DEF FinalByte
<1>3. ASSUME NEW c \in Callers PROVE FinalAnswer(c)' = FinalAnswer(c)
  <2>1. CASE Serving /\ m.buf = c /\ Io.op = "read"
    <3>1. Io.length - i \in Int /\ i \in Nat /\ Io.length \in Nat
      BY <2>1, Working
    <3>2. \A k \in 1 .. Io.length - i :
             ByteAt(Io.offset + i + k - 1)' = ByteAt(Io.offset + i + k - 1)
      <4> TAKE k \in 1 .. Io.length - i
      <4>1. i + k - 1 \in Rest
        BY <3>1 DEF Rest
      <4>2. Io.offset + (i + k - 1) \in Addresses /\ Io.offset \in Int
        BY <2>1, <4>1, RestAddresses
      <4>3. Io.offset + i + k - 1 = Io.offset + (i + k - 1)
        BY <3>1, <4>2
      <4> QED
        BY <1>1, <2>1, <4>2, <4>3
    <3>3. RestBytes' = RestBytes
      BY <1>1, <2>1, <3>2 DEF RestBytes
    <3> QED
      BY <1>1, <2>1, <3>3 DEF FinalAnswer
  <2>2. CASE ~(Serving /\ m.buf = c /\ Io.op = "read")
    BY <1>1, <2>2 DEF FinalAnswer
  <2> QED
    BY <2>1, <2>2
<1> QED
  BY <1>2, <1>3

\* What is kept of the new parts of the invariant.
LEMMA KeepsFresh ==
    ASSUME IdeInv, buffer' = buffer, \A c \in Callers : Waiting(c)' => Waiting(c)
    PROVE  BuffersFresh'
  BY DEF IdeInv, BuffersFresh

LEMMA KeepsEvicted ==
    ASSUME IdeInv, UNCHANGED <<at, m, i, cache, disk>>,
           Has(box'["IDE"], {Ready}) => Has(box["IDE"], {Ready})
    PROVE  EvictedIsOnDisk'
  BY DEF IdeInv, EvictedIsOnDisk, OnDisk, Slot, Sector, Address, Io

\* A step that the callers do not see, and what it keeps.
Unseen == UNCHANGED Flat!flatVars /\ BuffersFresh'

LEMMA NotSeen ==
    ASSUME IdeInv, Serving' = Serving, Serving => UNCHANGED <<m, i>>,
           UNCHANGED <<want, buffer>>,
           \A a \in Addresses : ByteAt(a)' = ByteAt(a),
           \A c \in Callers : Waiting(c)' <=> Waiting(c)
    PROVE  Unseen
<1>1. /\ \A a \in Addresses : FinalByte(a)' = FinalByte(a)
      /\ \A c \in Callers : FinalAnswer(c)' = FinalAnswer(c)
  BY SameView DEF IdeInv
<1>2. UNCHANGED Flat!flatVars
  BY <1>1, FlatState
<1> QED
  BY <1>2, KeepsFresh DEF Unseen
-----------------------------------------------------------------------------
(***************************************************************************)
(* The callers.                                                            *)
(***************************************************************************)
LEMMA CallAsks ==
    ASSUME IdeInv, NEW c \in Callers, NEW r \in Requests, Call(c, r)
    PROVE  Flat!Ask(c, r) /\ BuffersFresh' /\ EvictedIsOnDisk'
<1> DEFINE x == [src |-> c, io |-> r]
<1>1. /\ want[c] = Nobody /\ want' = [want EXCEPT ![c] = r]
      /\ buffer' = [buffer EXCEPT ![c] = <<>>]
      /\ Deliver("FM", x)
      /\ UNCHANGED <<fm, at, m, i, cache, drive, disk, halt>>
  BY DEF Call
<1>2. x \in FmMessage /\ x.src = c /\ ServersInv /\ BoxesTyped
  BY DEF FmMessage, IdeInv, ServersInv
<1> HIDE DEF x
<1>3. /\ box'["IDE"] = box["IDE"]
      /\ \A T : Has(box'["FM"], T) <=> Has(box["FM"], T) \/ x \in T
  BY <1>1, <1>2, ToFm
<1>4. /\ r # Nobody /\ want \in [Callers -> Requests \cup {Nobody}]
      /\ buffer \in [Callers -> Seq(Nat)]
  BY Kinds DEF IdeInv, ServersInv, IdeTypeOK, BuffersFresh
<1>5. /\ want'[c] = r /\ \A d \in Callers \ {c} : want'[d] = want[d]
      /\ buffer'[c] = <<>> /\ \A d \in Callers \ {c} : buffer'[d] = buffer[d]
  BY <1>1, <1>4
<1>6. Waiting(c)' /\ \A d \in Callers \ {c} : Waiting(d)' <=> Waiting(d)
  <2>1. x \in From(c) /\ \A d \in Callers \ {c} : x \notin From(d)
    BY <1>2, Kinds
  <2> QED
    BY <1>1, <1>3, <2>1 DEF Waiting
<1>7. Serving => m.buf \in Callers \ {c}
  <2> SUFFICES ASSUME Serving PROVE m.buf \in Callers \ {c}
    OBVIOUS
  <2>1. fm.m \in FmMessage /\ m.buf = fm.m.src /\ want[m.buf] = fm.m.io
    BY <1>2, Working
  <2>2. m.buf \in Callers /\ want[m.buf] # Nobody
    BY <2>1, Kinds
  <2> QED
    BY <1>1, <2>2
<1>8. Serving' = Serving /\ Io' = Io /\ Rest' = Rest
  BY <1>1 DEF Serving, Io, Rest
<1>9. \A a \in Addresses : ByteAt(a)' = ByteAt(a)
  BY <1>1, SameBytes
<1>10. \A a \in Addresses : FinalByte(a)' = FinalByte(a)
  BY <1>1, <1>5, <1>7, <1>8, <1>9 DEF FinalByte
<1>11. FinalAnswer(c)' = <<>>
  BY <1>1, <1>5, <1>7, <1>8 DEF FinalAnswer
<1>12. \A d \in Callers \ {c} : FinalAnswer(d)' = FinalAnswer(d)
  BY <1>1, <1>5, <1>8, SameRest DEF FinalAnswer
<1>13. Phase(c) = "idle" /\ Phase(c)' = "asked"
  BY <1>1, <1>4, <1>5, <1>6 DEF Phase
<1>14. \A d \in Callers \ {c} : Phase(d)' = Phase(d)
  BY <1>5, <1>6 DEF Phase
<1>15. Flat!Ask(c, r)
  BY <1>1, <1>10, <1>11, <1>12, <1>13, <1>14 DEF Flat!Ask
<1>16. BuffersFresh'
  <2>1. buffer' \in [Callers -> Seq(Nat)]
    BY <1>1, <1>4
  <2>2. \A d \in Callers : Waiting(d)' => buffer'[d] = <<>>
    BY <1>5, <1>6 DEF IdeInv, BuffersFresh
  <2> QED
    BY <2>1, <2>2 DEF BuffersFresh
<1>17. EvictedIsOnDisk'
  BY <1>1, <1>3, KeepsEvicted
<1> QED
  BY <1>15, <1>16, <1>17

LEMMA ResumeReturns ==
    ASSUME IdeInv, NEW c \in Callers, Resume(c)
    PROVE  Flat!Return(c) /\ BuffersFresh' /\ EvictedIsOnDisk'
<1>1. PICK k \in Oldest(c, "FM") : Collect(c, k)
  BY DEF Resume
<1>2. /\ want' = [want EXCEPT ![c] = Nobody]
      /\ UNCHANGED <<asked, buffer, fm, at, m, i, cache, drive, disk, halt>>
      /\ ServersInv /\ BoxesTyped /\ want \in [Callers -> Requests \cup {Nobody}]
  BY DEF Resume, IdeInv, ServersInv, IdeTypeOK
<1>3. box[c] # <<>> /\ box'["IDE"] = box["IDE"] /\ box'["FM"] = box["FM"]
  <2>1. <<Answer("FM")>> # <<>>
    OBVIOUS
  <2> QED
    BY <1>1, <1>2, <2>1, FromCaller
<1>4. want[c] # Nobody /\ ~OnItsWay(c)
  BY <1>3 DEF IdeInv, ServersInv, OwnRequests
<1>5. ~Waiting(c)
  <2>1. ~Has(box["FM"], From(c)) /\ ~(fm.at # "top" /\ fm.m.src = c)
    BY <1>4 DEF OnItsWay
  <2>2. ~Has(box["IDE"], For(c))
    <3> SUFFICES ASSUME Has(box["IDE"], For(c)) PROVE FALSE
      OBVIOUS
    <3>1. PICK y \in For(c) : Has(box["IDE"], {y})
      BY DEF Has
    <3>2. y \in DeviceRequests /\ Sent
      BY <3>1, ForKinds DEF Has, Sent
    <3>3. y = Device(fm.m) /\ fm.at = "asked"
      BY <3>1, <3>2 DEF IdeInv, ServersInv, OneInFlight
    <3>4. fm.m \in FmMessage
      BY <3>3 DEF IdeInv, ServersInv, OwnRequests
    <3> QED
      BY <2>1, <3>1, <3>3, <3>4, ForKinds
  <2> QED
    BY <2>1, <2>2 DEF Waiting
<1>6. \A d \in Callers : Waiting(d)' <=> Waiting(d)
  BY <1>2, <1>3, WaitingSame
<1>7. want'[c] = Nobody /\ \A d \in Callers \ {c} : want'[d] = want[d]
  BY <1>2
<1>8. Phase(c) = "done" /\ Phase(c)' = "idle" /\ \A d \in Callers \ {c} : Phase(d)' = Phase(d)
  BY <1>4, <1>5, <1>6, <1>7 DEF Phase
<1>9. Serving => m.buf \in Callers \ {c}
  <2> SUFFICES ASSUME Serving PROVE m.buf \in Callers \ {c}
    OBVIOUS
  <2>1. fm.m \in FmMessage /\ m.buf = fm.m.src /\ fm.at = "asked"
    BY <1>2, Working DEF ServersInv, OneInFlight
  <2> QED
    BY <1>4, <2>1, Kinds DEF OnItsWay
<1>10. Serving' = Serving /\ Io' = Io /\ Rest' = Rest
  BY <1>2 DEF Serving, Io, Rest
<1>11. \A a \in Addresses : FinalByte(a)' = FinalByte(a)
  BY <1>2, <1>7, <1>9, <1>10, SameBytes DEF FinalByte
<1>12. \A d \in Callers : FinalAnswer(d)' = FinalAnswer(d)
  BY <1>2, <1>10, SameRest DEF FinalAnswer
<1>13. Flat!Return(c)
  BY <1>2, <1>8, <1>11, <1>12 DEF Flat!Return
<1> QED
  BY <1>2, <1>3, <1>6, <1>13, KeepsFresh, KeepsEvicted
-----------------------------------------------------------------------------
(***************************************************************************)
(* FileManagement: nobody sees where a request is.                         *)
(***************************************************************************)
LEMMA FmReceiveUnseen ==
    ASSUME IdeInv, FmReceive
    PROVE  Unseen /\ EvictedIsOnDisk'
<1>1. PICK k \in Oldest("FM", "ANY") :
         Collect("FM", k) /\ fm' = [at |-> "got", m |-> box["FM"][k]]
  BY DEF FmReceive
<1> DEFINE x == box["FM"][k]
<1>2. /\ fm.at = "top" /\ ServersInv /\ BoxesTyped /\ Serving' = Serving
      /\ UNCHANGED <<asked, want, buffer, at, m, i, cache, drive, disk, halt>>
  BY DEF FmReceive, fmUnchanged, IdeInv, ServersInv, Serving
<1>3. /\ x \in FmMessage \cup {Answer("IDE")} /\ box'["IDE"] = box["IDE"]
      /\ \A T : x \in T => Has(box["FM"], T)
      /\ \A T : x \notin T => (Has(box'["FM"], T) <=> Has(box["FM"], T))
      /\ \A T : Single(box["FM"], T) /\ x \in T => ~Has(box'["FM"], T)
  BY <1>1, <1>2, FromFm
<1>4. fm'.at = "got" /\ fm'.m = x
  BY <1>1
<1> HIDE DEF x
<1>5. x \in FmMessage
  <2>1. ~Done
    BY <1>2 DEF ServersInv, OneInFlight
  <2> QED
    BY <1>3, <2>1 DEF Done
<1>6. ASSUME NEW c \in Callers PROVE Waiting(c)' <=> Waiting(c)
  <2>1. CASE x.src = c
    <3>1. Waiting(c)'
      BY <1>4, <2>1 DEF Waiting
    <3>2. Has(box["FM"], From(c))
      BY <1>3, <1>5, <2>1, Kinds
    <3> QED
      BY <3>1, <3>2 DEF Waiting
  <2>2. CASE x.src # c
    <3>1. x \notin From(c)
      BY <1>5, <2>2, Kinds
    <3> QED
      BY <1>2, <1>3, <1>4, <2>2, <3>1 DEF Waiting
  <2> QED
    BY <2>1, <2>2
<1> QED
  BY <1>2, <1>3, <1>6, SameBytes, NotSeen, KeepsEvicted

LEMMA FmSendUnseen ==
    ASSUME IdeInv, FmSend
    PROVE  Unseen /\ EvictedIsOnDisk'
<1> DEFINE y == Device(fm.m)
<1>1. /\ fm.at = "got" /\ fm' = [fm EXCEPT !.at = "asked"] /\ ServersInv /\ BoxesTyped
      /\ Serving' = Serving
      /\ UNCHANGED <<asked, want, buffer, at, m, i, cache, drive, disk, halt>>
  BY DEF FmSend, fmUnchanged, IdeInv, ServersInv, Serving
<1>2. Deliver("IDE", y)
  BY DEF FmSend, Device
<1>3. fm.m \in FmMessage /\ y \in DeviceRequests
  BY <1>1, Kinds DEF ServersInv, OwnRequests
<1>4. fm' = [at |-> "asked", m |-> fm.m]
  BY <1>1 DEF ServersInv, OneInFlight
<1>5. \A c \in Callers : y \in For(c) <=> fm.m.src = c
  BY <1>3, ForKinds
<1> HIDE DEF y
<1>6. /\ box'["FM"] = box["FM"]
      /\ \A T : Has(box'["IDE"], T) <=> Has(box["IDE"], T) \/ y \in T
  BY <1>1, <1>2, <1>3, ToIde
<1>7. \A c \in Callers : Waiting(c)' <=> Waiting(c)
  BY <1>1, <1>4, <1>5, <1>6 DEF Waiting
<1>8. y \notin {Ready}
  BY <1>3, Kinds
<1> QED
  BY <1>1, <1>6, <1>7, <1>8, SameBytes, NotSeen, KeepsEvicted

LEMMA FmAnsweredUnseen ==
    ASSUME IdeInv, FmAnswered
    PROVE  Unseen /\ EvictedIsOnDisk'
<1>1. PICK k \in Oldest("FM", "IDE") : Collect("FM", k)
  BY DEF FmAnswered, Answers
<1> DEFINE x == box["FM"][k]
<1>2. /\ fm.at = "asked" /\ fm' = [fm EXCEPT !.at = "answered"]
      /\ ServersInv /\ BoxesTyped /\ Serving' = Serving
      /\ UNCHANGED <<asked, want, buffer, at, m, i, cache, drive, disk, halt>>
  BY DEF FmAnswered, fmUnchanged, IdeInv, ServersInv, Serving
<1>3. /\ x \in FmMessage \cup {Answer("IDE")} /\ box'["IDE"] = box["IDE"] /\ x.src = "IDE"
      /\ \A T : x \notin T => (Has(box'["FM"], T) <=> Has(box["FM"], T))
  BY <1>1, <1>2, FromFm
<1> HIDE DEF x
<1>4. \A c \in Callers : x \notin From(c)
  BY <1>3, Kinds
<1>5. fm' = [at |-> "answered", m |-> fm.m]
  BY <1>2 DEF ServersInv, OneInFlight
<1>6. \A c \in Callers : Waiting(c)' <=> Waiting(c)
  BY <1>2, <1>3, <1>4, <1>5 DEF Waiting
<1> QED
  BY <1>2, <1>3, <1>6, SameBytes, NotSeen, KeepsEvicted

LEMMA FmReplyUnseen ==
    ASSUME IdeInv, FmReply
    PROVE  Unseen /\ EvictedIsOnDisk'
<1>1. /\ fm.at = "answered" /\ fm' = [at |-> "top", m |-> Nobody]
      /\ Deliver(fm.m.src, Answer("FM")) /\ ServersInv /\ BoxesTyped /\ Serving' = Serving
      /\ UNCHANGED <<asked, want, buffer, at, m, i, cache, drive, disk, halt>>
  BY DEF FmReply, fmUnchanged, IdeInv, ServersInv, Serving, Answer
<1>2. fm.m \in FmMessage /\ fm.m.src \in Callers
  BY <1>1, Kinds DEF ServersInv, OwnRequests
<1>3. box'["FM"] = box["FM"] /\ box'["IDE"] = box["IDE"]
  BY <1>1, <1>2, Kinds DEF Deliver, BoxesTyped
<1>4. \A c \in Callers : Waiting(c)' <=> Waiting(c)
  BY <1>1, <1>3 DEF Waiting
<1> QED
  BY <1>1, <1>3, <1>4, SameBytes, NotSeen, KeepsEvicted
-----------------------------------------------------------------------------
(***************************************************************************)
(* ide_driver_thread: what a request does is done when it is taken.        *)
(***************************************************************************)
LEMMA ByteIsNat ==
    ASSUME ServersInv, NEW a \in Addresses
    PROVE  ByteAt(a) \in Nat
<1>1. a \div SectorSize \in Nat /\ a % SectorSize \in 0 .. SectorSize - 1
  BY AddressSector
<1>2. NSlots \in Nat \ {0}
  BY DiskAssumption
<1>3. (a \div SectorSize) % NSlots \in Slots
  BY <1>1, <1>2, Quotient DEF Slots
<1>4. /\ disk[a] \in Nat
      /\ cache[(a \div SectorSize) % NSlots].content \in Content
  BY <1>3 DEF ServersInv, IdeTypeOK
<1> QED
  BY <1>1, <1>4 DEF ByteAt, Content

\* The bytes that were read come before those that are still to be read.
LEMMA NextByte ==
    ASSUME NEW s \in Seq(Nat), NEW n \in Nat \ {0}, NEW f \in [1 .. n -> Nat],
           NEW g \in [1 .. n - 1 -> Nat], \A k \in 1 .. n - 1 : g[k] = f[k + 1]
    PROVE  s \o f = Append(s, f[1]) \o g
<1> DEFINE t == Append(s, f[1])
<1>1. f \in Seq(Nat) /\ Len(f) = n
  BY FunctionIsSeq
<1>2. f[1] \in Nat /\ g \in [1 .. n - 1 -> Nat] /\ n - 1 \in Nat
  OBVIOUS
<1>3. g \in Seq(Nat) /\ Len(g) = n - 1
  BY <1>2, FunctionIsSeq
<1>4. \A k \in 1 .. n - 1 : g[k] = f[k + 1]
  OBVIOUS
<1>5. /\ t \in Seq(Nat) /\ Len(t) = Len(s) + 1 /\ Len(s) \in Nat
      /\ \A k \in 1 .. Len(s) : t[k] = s[k]
      /\ t[Len(s) + 1] = f[1]
  BY <1>2, AppendProperties, LenProperties
<1> HIDE DEF t
<1>6. /\ s \o f \in Seq(Nat) /\ Len(s \o f) = Len(s) + n
      /\ \A k \in 1 .. Len(s) + n : (s \o f)[k] = IF k <= Len(s) THEN s[k] ELSE f[k - Len(s)]
  BY <1>1, ConcatProperties
<1>7. /\ t \o g \in Seq(Nat) /\ Len(t \o g) = Len(s) + n
      /\ \A k \in 1 .. Len(s) + n :
            (t \o g)[k] = IF k <= Len(s) + 1 THEN t[k] ELSE g[k - (Len(s) + 1)]
  <2>1. /\ t \o g \in Seq(Nat) /\ Len(t \o g) = Len(t) + Len(g)
        /\ \A k \in 1 .. Len(t) + Len(g) :
              (t \o g)[k] = IF k <= Len(t) THEN t[k] ELSE g[k - Len(t)]
    BY <1>3, <1>5, ConcatProperties
  <2>2. Len(t) + Len(g) = Len(s) + n
    BY <1>3, <1>5
  <2> QED
    BY <1>5, <2>1, <2>2
<1>8. ASSUME NEW k \in 1 .. Len(s) + n PROVE (s \o f)[k] = (t \o g)[k]
  <2>1. k \in Nat
    BY <1>5
  <2>2. CASE k <= Len(s)
    BY <1>5, <1>6, <1>7, <2>1, <2>2
  <2>3. CASE k = Len(s) + 1
    BY <1>5, <1>6, <1>7, <2>1, <2>3
  <2>4. CASE k > Len(s) + 1
    <3>1. /\ k - (Len(s) + 1) \in 1 .. n - 1
          /\ (k - (Len(s) + 1)) + 1 = k - Len(s)
      BY <1>5, <2>1, <2>4
    <3>2. g[k - (Len(s) + 1)] = f[k - Len(s)]
      BY <1>4, <3>1
    <3>3. ~(k <= Len(s)) /\ ~(k <= Len(s) + 1)
      BY <1>5, <2>1, <2>4
    <3>4. (s \o f)[k] = f[k - Len(s)] /\ (t \o g)[k] = g[k - (Len(s) + 1)]
      BY <1>6, <1>7, <3>3
    <3> QED
      BY <3>2, <3>4
  <2>5. k <= Len(s) \/ k = Len(s) + 1 \/ k > Len(s) + 1
    BY <1>5, <2>1
  <2> QED
    BY <2>2, <2>3, <2>4, <2>5
<1>9. Len(s \o f) = Len(t \o g)
  BY <1>5, <1>6, <1>7
<1>10. s \o f = t \o g
  BY <1>6, <1>7, <1>8, <1>9, SeqEqual
<1> QED
  BY <1>10 DEF t


\* The request of the driver is not asked any more.
LEMMA ServedNotWaiting ==
    ASSUME ServersInv, Serving
    PROVE  ~Waiting(m.buf)
<1>1. /\ fm.at = "asked" /\ ~Sent /\ m.buf = fm.m.src /\ fm.m \in FmMessage
  BY Working DEF ServersInv, OneInFlight
<1>2. ~Has(box["FM"], From(m.buf)) /\ m.buf \in Callers
  BY <1>1, Kinds DEF ServersInv, OwnRequests
<1>3. ~Has(box["IDE"], For(m.buf))
  BY <1>1, <1>2, ForKinds DEF Sent, Has
<1> QED
  BY <1>1, <1>2, <1>3 DEF Waiting

\* A request reaches the driver: it is read or written at this moment.
LEMMA RequestTaken ==
    ASSUME IdeInv, IdeReceive, DriveInStep', m' # WriteBack
    PROVE  (\E c \in Callers : Flat!Read(c) \/ Flat!Write(c)) /\ BuffersFresh'
<1>1. PICK k \in Oldest("IDE", "ANY") : Collect("IDE", k) /\ m' = box["IDE"][k]
  BY DEF IdeReceive
<1> DEFINE x == box["IDE"][k]
<1>2. /\ at = "top" /\ ServersInv /\ BoxesTyped /\ i' = 0 /\ m' = x /\ ~Serving
      /\ x # WriteBack /\ x # Ready /\ at' = "byte" /\ Serving'
      /\ UNCHANGED <<asked, want, buffer, fm, cache, drive, disk>>
  BY <1>1 DEF IdeReceive, IdeInv, ServersInv, Serving, DriveInStep
<1>3. /\ x \in DeviceRequests \cup {Ready, WriteBack} /\ box'["FM"] = box["FM"]
      /\ \A T : x \in T => Has(box["IDE"], T)
      /\ \A T : x \notin T => (Has(box'["IDE"], T) <=> Has(box["IDE"], T))
      /\ \A T : Single(box["IDE"], T) /\ x \in T => ~Has(box'["IDE"], T)
  BY <1>1, <1>2, FromIde
<1> HIDE DEF x
<1>4. x \in DeviceRequests /\ Sent /\ Has(box["IDE"], {x})
  BY <1>2, <1>3 DEF Sent
<1>5. x = Device(fm.m) /\ fm.at = "asked" /\ fm.m \in FmMessage /\ ~Sent'
  BY <1>2, <1>3, <1>4 DEF ServersInv, OneInFlight, OwnRequests, Sent
<1> PICK c \in Callers : c = fm.m.src
  BY <1>5, Kinds
<1> PICK r \in Requests : r = fm.m.io
  BY <1>5, Kinds
<1>6. /\ c \in Callers /\ r \in Requests /\ r # Nobody /\ want[c] = r
      /\ ~Has(box["FM"], From(c)) /\ \A d \in Callers : x \in For(d) <=> d = c
  BY <1>2, <1>5, Kinds, ForKinds DEF ServersInv, OwnRequests
<1>7. Waiting(c) /\ ~Waiting(c)' /\ \A d \in Callers \ {c} : Waiting(d)' <=> Waiting(d)
  <2>1. Waiting(c)
    BY <1>3, <1>6 DEF Waiting
  <2>2. ~Has(box'["IDE"], For(c))
    BY <1>5, <1>6, ForKinds DEF Sent, Has
  <2>3. ~Waiting(c)'
    BY <1>2, <1>3, <1>5, <1>6, <2>2 DEF Waiting
  <2>4. \A d \in Callers \ {c} : Waiting(d)' <=> Waiting(d)
    BY <1>2, <1>3, <1>6 DEF Waiting
  <2> QED
    BY <2>1, <2>3, <2>4
<1>8. Phase(c) = "asked" /\ Phase(c)' = "done" /\ \A d \in Callers \ {c} : Phase(d)' = Phase(d)
  BY <1>2, <1>6, <1>7 DEF Phase
<1> PICK n \in Nat : n = r.length
  BY DiskAssumption DEF RequestRecord
<1> PICK P \in Int : P = Place(r)
  BY PlaceIsInt
<1>9. P .. P + n - 1 \subseteq Addresses
  BY DiskAssumption
<1>10. /\ m'.buf = c /\ Io'.offset = P /\ Io'.length = n
       /\ Io'.op = IF r.op = "write" THEN "write" ELSE "read"
  BY <1>2, <1>5 DEF Device, DevIo, Io
<1>11. Rest' = 0 .. n - 1
  BY <1>2, <1>10 DEF Rest
<1>12. /\ \A a \in Addresses : ByteAt(a)' = ByteAt(a) /\ FinalByte(a) = ByteAt(a)
       /\ \A d \in Callers : FinalAnswer(d) = buffer[d] /\ FinalAnswer(d)' =
             IF c = d /\ r.op # "write" THEN buffer[d] \o RestBytes' ELSE buffer[d]
  BY <1>2, <1>10, SameBytes DEF FinalByte, FinalAnswer
<1>13. buffer[c] = <<>> /\ buffer \in [Callers -> Seq(Nat)]
  BY <1>6, <1>7 DEF IdeInv, BuffersFresh
<1>14. \A a \in Addresses : a \in Int
  BY AddressSector
<1>15. CASE r.op = "write"
  <2>1. ASSUME NEW a \in Addresses
        PROVE  FinalByte(a)' = IF a \in P .. P + n - 1 THEN r.data ELSE FinalByte(a)
    <3>1. a - P \in 0 .. n - 1 <=> a \in P .. P + n - 1
      BY <1>9, <1>14
    <3> QED
      BY <1>2, <1>6, <1>10, <1>11, <1>12, <1>15, <3>1 DEF FinalByte
  <2>2. \A d \in Callers : FinalAnswer(d)' = FinalAnswer(d)
    BY <1>12, <1>15
  <2>3. Flat!Place(want[c]) = P /\ want[c].length = n
    BY <1>6 DEF Flat!Place, Place
  <2>4. Flat!Write(c)
    BY <1>2, <1>6, <1>8, <1>15, <2>1, <2>2, <2>3 DEF Flat!Write
  <2> QED
    BY <1>2, <1>6, <1>7, <2>4, KeepsFresh
<1>16. CASE r.op # "write"
  <2>1. \A a \in Addresses : FinalByte(a)' = FinalByte(a)
    BY <1>10, <1>12, <1>16 DEF FinalByte
  <2> DEFINE f == [j \in 1 .. n |-> ByteAt(P + j - 1)]
  <2>2. ASSUME NEW j \in 1 .. n PROVE P + j - 1 \in Addresses /\ P + 0 + j - 1 = P + j - 1
    BY <1>9
  <2>3. f \in [1 .. n -> Nat]
    BY <1>2, <2>2, ByteIsNat
  <2>4. RestBytes' = f
    <3>1. RestBytes' = [j \in 1 .. n - 0 |-> ByteAt(P + 0 + j - 1)']
      BY <1>2, <1>10 DEF RestBytes
    <3>2. n - 0 = n
      BY <1>9
    <3>3. \A j \in 1 .. n : ByteAt(P + 0 + j - 1)' = ByteAt(P + j - 1)
      BY <1>12, <2>2
    <3> QED
      BY <3>1, <3>2, <3>3
  <2>5. f = [j \in 1 .. n |-> [a \in Addresses |-> FinalByte(a)][P + j - 1]]
    BY <1>12, <2>2
  <2>6. buffer[c] \o f = f
    <3>1. f \in Seq(Nat)
      BY <1>9, <2>3, FunctionIsSeq
    <3> HIDE DEF f
    <3> QED
      BY <1>13, <3>1, ConcatEmptySeq
  <2>7. FinalAnswer(c)' = f /\ \A d \in Callers \ {c} : FinalAnswer(d)' = FinalAnswer(d)
    BY <1>6, <1>12, <1>16, <2>4, <2>6
  <2>8. Flat!Place(want[c]) = P /\ want[c].length = n
    BY <1>6 DEF Flat!Place, Place
  <2>9. f = [j \in 1 .. want[c].length |->
               [a \in Addresses |-> FinalByte(a)][Flat!Place(want[c]) + j - 1]]
    BY <2>5, <2>8
  <2> HIDE DEF f
  <2>10. [d \in Callers |-> FinalAnswer(d)]' = [[d \in Callers |-> FinalAnswer(d)] EXCEPT ![c] = f]
    BY <2>7
  <2>11. [d \in Callers |-> Phase(d)]' = [[d \in Callers |-> Phase(d)] EXCEPT ![c] = "done"]
    BY <1>8
  <2>12. UNCHANGED <<[a \in Addresses |-> FinalByte(a)], want>>
    BY <1>2, <2>1
  <2>13. [d \in Callers |-> Phase(d)][c] = "asked" /\ want[c].op # "write"
    BY <1>6, <1>8, <1>16
  <2>14. Flat!Read(c)
    BY <2>9, <2>10, <2>11, <2>12, <2>13 DEF Flat!Read
  <2> QED
    BY <1>2, <1>6, <1>7, <2>14, KeepsFresh
<1> QED
  BY <1>15, <1>16

LEMMA ReceiveSimulates ==
    ASSUME IdeInv, IdeReceive, DriveInStep'
    PROVE  [Flat!FlatNext]_Flat!flatVars /\ BuffersFresh' /\ EvictedIsOnDisk'
<1>1. PICK k \in Oldest("IDE", "ANY") : Collect("IDE", k) /\ m' = box["IDE"][k]
  BY DEF IdeReceive
<1>2. /\ at = "top" /\ at' \in {"top", "scan", "byte"} /\ ServersInv /\ BoxesTyped
      /\ UNCHANGED <<want, buffer, fm, cache, drive, disk>>
  BY <1>1 DEF IdeReceive, IdeInv, ServersInv
<1>3. EvictedIsOnDisk'
  BY <1>2 DEF EvictedIsOnDisk
<1>4. CASE m' = WriteBack
  <2>1. ~Serving /\ Serving' = Serving
    BY <1>2, <1>4 DEF IdeReceive, Serving
  <2>2. /\ box'["FM"] = box["FM"]
        /\ \A T : WriteBack \notin T => (Has(box'["IDE"], T) <=> Has(box["IDE"], T))
    <3>1. /\ box'["FM"] = box["FM"]
          /\ \A T : box["IDE"][k] \notin T => (Has(box'["IDE"], T) <=> Has(box["IDE"], T))
      BY <1>1, <1>2, FromIde
    <3>2. box["IDE"][k] = WriteBack
      BY <1>1, <1>4
    <3> QED
      BY <3>1, <3>2
  <2>3. \A c \in Callers : Waiting(c)' <=> Waiting(c)
    BY <1>2, <2>2, ForKinds DEF Waiting
  <2> QED
    BY <1>2, <1>3, <2>1, <2>3, SameBytes, NotSeen DEF Unseen
<1>5. CASE m' # WriteBack
  BY <1>3, <1>5, RequestTaken DEF Flat!FlatNext
<1> QED
  BY <1>4, <1>5

LEMMA FetchUnseen ==
    ASSUME IdeInv, FetchSector
    PROVE  Unseen /\ EvictedIsOnDisk'
<1>1. /\ at = "byte" /\ i < Io.length /\ Serving /\ drive = NoCommand /\ ServersInv
      /\ ~Has(box["IDE"], {Ready})
      /\ UNCHANGED <<box, asked, want, buffer, fm, m, i, cache, disk>>
  BY DEF FetchSector, Serving, IdeInv, ServersInv, DriveMatches, Awaiting
<1>2. IF MustEvict(Slot) THEN at' = "evict" ELSE at' = "fetch"
  BY <1>1 DEF FetchSector, Issue
<1>3. Serving' = Serving
  BY <1>1, <1>2 DEF Serving
<1>4. Slot' = Slot /\ Slot \in Slots
  BY <1>1, AtAddress DEF Slot, Sector, Address, Io
<1>5. EvictedIsOnDisk'
  <2>1. at' = "fetch" /\ cache[Slot].used => OnDisk(Slot)
    BY <1>1, <1>2, <1>4 DEF MustEvict, ServersInv, CleanIsOnDisk, OnDisk
  <2> QED
    BY <1>1, <1>4, <2>1 DEF EvictedIsOnDisk, OnDisk
<1>6. \A c \in Callers : Waiting(c)' <=> Waiting(c)
  BY <1>1, WaitingSame
<1> QED
  BY <1>1, <1>3, <1>5, <1>6, SameBytes, NotSeen

\* receive(MSG_HARD_INTR, &m) takes nothing of a caller.
LEMMA HardUnseen ==
    ASSUME IdeInv, NEW k \in Oldest("IDE", "HARD"), Collect("IDE", k), fm' = fm
    PROVE  \A c \in Callers : Waiting(c)' <=> Waiting(c)
<1> DEFINE x == box["IDE"][k]
<1>1. x \in {Ready, WriteBack} /\ box'["FM"] = box["FM"]
  BY FromHard DEF IdeInv
<1>2. \A T : x \notin T => (Has(box'["IDE"], T) <=> Has(box["IDE"], T))
  BY FromIde DEF IdeInv, ServersInv
<1> HIDE DEF x
<1>3. \A c \in Callers : x \notin For(c)
  BY <1>1, ForKinds
<1> QED
  BY <1>1, <1>2, <1>3 DEF Waiting

LEMMA EvictedUnseen ==
    ASSUME IdeInv, Evicted
    PROVE  Unseen /\ EvictedIsOnDisk'
<1>1. PICK k \in Oldest("IDE", "HARD") :
         /\ Collect("IDE", k)
         /\ IF box["IDE"][k] = Ready
            THEN Issue([op |-> "read", sector |-> Sector], "fetch")
            ELSE UNCHANGED <<drive, at, halt>>
  BY DEF Evicted, GetReady
<1>2. /\ at = "evict" /\ Serving /\ ServersInv
      /\ UNCHANGED <<asked, want, buffer, fm, m, i, cache, disk>>
  BY DEF Evicted, Serving, IdeInv
<1>3. /\ box["IDE"][k] = Ready => Has(box["IDE"], {Ready})
      /\ box["IDE"][k] # Ready => (Has(box'["IDE"], {Ready}) <=> Has(box["IDE"], {Ready}))
  BY <1>1, <1>2, FromHard
<1>4. at' = at \/ (at' = "fetch" /\ OnDisk(Slot))
  BY <1>1, <1>2, <1>3 DEF Issue, IdeInv, EvictedIsOnDisk
<1>5. Serving' = Serving
  BY <1>2, <1>4 DEF Serving
<1>6. EvictedIsOnDisk'
  <2>1. CASE box["IDE"][k] # Ready
    BY <1>1, <1>2, <1>3, <2>1, KeepsEvicted
  <2>2. CASE box["IDE"][k] = Ready
    <3>1. at' = "fetch" /\ OnDisk(Slot)
      BY <1>1, <1>2, <1>3, <2>2 DEF Issue, IdeInv, EvictedIsOnDisk, ServersInv, DriveMatches
    <3>2. Slot' = Slot /\ OnDisk(Slot)'
      BY <1>2, <3>1 DEF OnDisk, Slot, Sector, Address, Io
    <3> QED
      BY <3>1, <3>2 DEF EvictedIsOnDisk, OnDisk
  <2> QED
    BY <2>1, <2>2
<1> QED
  BY <1>1, <1>2, <1>5, <1>6, HardUnseen, SameBytes, NotSeen

\* A byte is where its address says.
LEMMA BytePlace ==
    ASSUME ServersInv, NEW a \in Addresses
    PROVE  /\ a \div SectorSize \in Sectors
           /\ (a \div SectorSize) % NSlots \in Slots
           /\ a % SectorSize \in 0 .. SectorSize - 1
           /\ (a \div SectorSize) * SectorSize + (a % SectorSize) = a
<1>1. a \div SectorSize \in Nat /\ a \div SectorSize \in Sectors /\ a \in Nat
      /\ a % SectorSize \in 0 .. SectorSize - 1
  BY AddressSector
<1>2. NSlots \in Nat \ {0} /\ SectorSize \in Nat \ {0}
  BY DiskAssumption
<1>3. (a \div SectorSize) % NSlots \in Slots
  BY <1>1, <1>2, Quotient DEF Slots
<1> QED
  BY <1>1, <1>2, <1>3, Quotient

\* The slot that is filled had nothing the disk does not have.
LEMMA FetchedUnseen ==
    ASSUME IdeInv, Fetched
    PROVE  Unseen /\ EvictedIsOnDisk'
<1>1. PICK k \in Oldest("IDE", "HARD") :
         /\ Collect("IDE", k)
         /\ IF box["IDE"][k] = Ready
            THEN cache' = [cache EXCEPT ![Slot] = Filled(Sector)] /\ at' = "byte"
            ELSE UNCHANGED <<cache, at>>
  BY DEF Fetched, GetReady
<1>2. /\ at = "fetch" /\ Serving /\ i < Io.length /\ ServersInv
      /\ UNCHANGED <<asked, want, buffer, fm, m, i, drive, disk, halt>>
  BY DEF Fetched, Serving, IdeInv, ServersInv, CacheMatches
<1>3. Serving' = Serving
  BY <1>1, <1>2 DEF Serving
<1>4. CASE box["IDE"][k] # Ready
  <2>1. Has(box'["IDE"], {Ready}) <=> Has(box["IDE"], {Ready})
    BY <1>1, <1>2, <1>4, FromHard
  <2>2. UNCHANGED <<cache, at>>
    BY <1>1, <1>4
  <2> QED
    BY <1>1, <1>2, <1>3, <2>1, <2>2, KeepsEvicted, HardUnseen, SameBytes, NotSeen
<1>5. CASE box["IDE"][k] = Ready
  <2>1. cache' = [cache EXCEPT ![Slot] = Filled(Sector)] /\ at' = "byte"
    BY <1>1, <1>5
  <2>2. Slot \in Slots /\ cache \in [Slots -> [sector : Sectors, used : BOOLEAN,
                                               dirty : BOOLEAN, content : Content]]
    BY <1>2, AtAddress DEF ServersInv, IdeTypeOK
  <2>3. /\ \A s \in Slots : s # Slot => cache'[s] = cache[s]
        /\ cache'[Slot] = Filled(Sector)
    BY <2>1, <2>2
  <2>4. ASSUME NEW a \in Addresses PROVE ByteAt(a)' = ByteAt(a)
    <3> DEFINE q == a \div SectorSize
               b == a % SectorSize
               s == q % NSlots
    <3>1. q \in Sectors /\ s \in Slots /\ b \in 0 .. SectorSize - 1 /\ q * SectorSize + b = a
      BY <1>2, BytePlace
    <3>2. /\ ByteAt(a) = IF cache[s].used /\ cache[s].sector = q
                         THEN cache[s].content[b] ELSE disk[a]
          /\ ByteAt(a)' = IF cache'[s].used /\ cache'[s].sector = q
                          THEN cache'[s].content[b] ELSE disk[a]
      BY <1>2 DEF ByteAt, Cached, Hit
    <3> HIDE DEF q, b, s
    <3>3. CASE s # Slot
      BY <2>3, <3>1, <3>2, <3>3
    <3>4. CASE s = Slot
      <4>1. ByteAt(a) = disk[a]
        BY <1>2, <3>1, <3>2, <3>4 DEF IdeInv, EvictedIsOnDisk, OnDisk
      <4>2. /\ cache'[Slot].sector = Sector
            /\ cache'[Slot].content[b] = disk[Sector * SectorSize + b]
        <5>1. Filled(Sector).sector = Sector
              /\ Filled(Sector).content[b] = disk[Sector * SectorSize + b]
          BY <3>1 DEF Filled
        <5> QED
          BY <2>3, <5>1
      <4> QED
        BY <3>1, <3>2, <3>4, <4>1, <4>2
    <3> QED
      BY <3>3, <3>4
  <2>5. EvictedIsOnDisk'
    BY <2>1 DEF EvictedIsOnDisk
  <2> QED
    BY <1>1, <1>2, <1>3, <2>4, <2>5, HardUnseen, NotSeen
<1> QED
  BY <1>4, <1>5

LEMMA ReplyUnseen ==
    ASSUME IdeInv, IdeReply
    PROVE  Unseen /\ EvictedIsOnDisk'
<1>1. /\ at = "byte" /\ Serving /\ ServersInv /\ BoxesTyped /\ at' = "top" /\ ~Serving'
      /\ i = Io.length /\ i' = 0
      /\ UNCHANGED <<asked, want, buffer, fm, cache, drive, disk, halt>>
  BY DEF IdeReply, Serving, IdeInv, ServersInv
<1>2. m.src = "FM" /\ Io.length \in Nat
  BY <1>1, Working DEF Device
<1>3. Deliver("FM", Answer("IDE"))
  BY <1>2 DEF IdeReply, Answer
<1>4. /\ box'["IDE"] = box["IDE"]
      /\ \A T : Has(box'["FM"], T) <=> Has(box["FM"], T) \/ Answer("IDE") \in T
  BY <1>1, <1>3, ToFm
<1>5. \A c \in Callers : Waiting(c)' <=> Waiting(c)
  BY <1>1, <1>4, Kinds DEF Waiting
<1>6. \A a \in Addresses : FinalByte(a)' = FinalByte(a)
  <2>1. Rest = {}
    BY <1>1, <1>2 DEF Rest
  <2> QED
    BY <1>1, <2>1, SameBytes DEF FinalByte
<1>7. ASSUME NEW c \in Callers PROVE FinalAnswer(c)' = FinalAnswer(c)
  <2>1. RestBytes = <<>>
    <3>1. 1 .. Io.length - i = {}
      BY <1>1, <1>2
    <3>2. [k \in {} |-> ByteAt(Io.offset + i + k - 1)] = <<>>
      OBVIOUS
    <3> QED
      BY <3>1, <3>2 DEF RestBytes
  <2>2. buffer[c] \in Seq(Nat)
    BY DEF IdeInv, BuffersFresh
  <2>3. buffer[c] \o <<>> = buffer[c]
    BY <2>2, ConcatEmptySeq
  <2> QED
    BY <1>1, <2>1, <2>3 DEF FinalAnswer
<1>8. UNCHANGED Flat!flatVars
  BY <1>1, <1>5, <1>6, <1>7, FlatState
<1>9. EvictedIsOnDisk'
  BY <1>1 DEF EvictedIsOnDisk
<1> QED
  BY <1>1, <1>5, <1>8, <1>9, KeepsFresh DEF Unseen

LEMMA ScanSlotUnseen ==
    ASSUME IdeInv, ScanSlot
    PROVE  Unseen /\ EvictedIsOnDisk'
<1>1. /\ at = "scan" /\ at' \in {"scan", "clean"}
      /\ UNCHANGED <<box, asked, want, buffer, fm, m, cache, disk>>
  BY DEF ScanSlot, Issue
<1>2. ~Serving /\ Serving' = Serving
  BY <1>1 DEF Serving
<1>3. EvictedIsOnDisk'
  BY <1>1 DEF EvictedIsOnDisk
<1> QED
  BY <1>1, <1>2, <1>3, WaitingSame, SameBytes, NotSeen

LEMMA SlotWrittenUnseen ==
    ASSUME IdeInv, SlotWritten
    PROVE  Unseen /\ EvictedIsOnDisk'
<1>1. PICK k \in Oldest("IDE", "HARD") :
         /\ Collect("IDE", k)
         /\ IF box["IDE"][k] = Ready
            THEN /\ cache' = [cache EXCEPT ![i].dirty = FALSE]
                 /\ i' = i + 1 /\ at' = "scan"
            ELSE UNCHANGED <<cache, i, at>>
  BY DEF SlotWritten, GetReady
<1>2. /\ at = "clean" /\ ServersInv /\ UNCHANGED <<asked, want, buffer, fm, m, drive, disk, halt>>
  BY DEF SlotWritten, IdeInv
<1>3. ~Serving /\ Serving' = Serving /\ at' \in {"scan", "clean"}
  BY <1>1, <1>2 DEF Serving
<1>4. \A s \in Slots : /\ cache'[s].used = cache[s].used
                       /\ cache'[s].sector = cache[s].sector
                       /\ cache'[s].content = cache[s].content
  BY <1>1 DEF IdeInv, ServersInv, IdeTypeOK
<1>5. \A a \in Addresses : ByteAt(a)' = ByteAt(a)
  BY <1>2, <1>4, BytePlace DEF ByteAt, Cached, Hit
<1>6. EvictedIsOnDisk'
  BY <1>3 DEF EvictedIsOnDisk
<1> QED
  BY <1>1, <1>2, <1>3, <1>5, <1>6, HardUnseen, NotSeen

LEMMA ScanEndsUnseen ==
    ASSUME IdeInv, ScanEnds
    PROVE  Unseen /\ EvictedIsOnDisk'
<1>1. /\ at = "scan" /\ at' = "top" /\ ~Serving /\ Serving' = Serving
      /\ UNCHANGED <<box, asked, want, buffer, fm, cache, drive, disk, halt>>
  BY DEF ScanEnds, Serving
<1>2. EvictedIsOnDisk'
  BY <1>1 DEF EvictedIsOnDisk
<1> QED
  BY <1>1, <1>2, WaitingSame, SameBytes, NotSeen

\* The next byte is appended to what the caller has.
LEMMA ReadByteUnseen ==
    ASSUME IdeInv, ReadByte
    PROVE  Unseen /\ EvictedIsOnDisk'
<1> DEFINE n == Io.length - i
           f == RestBytes
           c == m.buf
<1>1. /\ at = "byte" /\ i < Io.length /\ Io.op = "read" /\ Serving /\ Serving' = Serving
      /\ i' = i + 1 /\ Hit(Slot, Sector) /\ ServersInv
      /\ buffer' = [buffer EXCEPT ![c] = Append(@, cache[Slot].content[Address % SectorSize])]
      /\ UNCHANGED <<box, asked, want, fm, at, m, cache, drive, disk, halt>>
  BY DEF ReadByte, Serving, IdeInv
<1>2. /\ i \in Nat /\ Io.length \in Nat /\ Io' = Io /\ n \in Nat \ {0} /\ c \in Callers
      /\ Address \in Addresses
  <2>1. i \in Nat /\ Io.length \in Nat /\ c \in Callers
    BY <1>1, Working, Kinds
  <2>2. Address \in Addresses
    BY <1>1, AtAddress
  <2> QED
    BY <1>1, <2>1, <2>2 DEF Io
<1>3. Io.offset \in Int
  <2>1. i \in Rest
    BY <1>1, <1>2 DEF Rest
  <2> QED
    BY <1>1, <2>1, RestAddresses
<1>4. ASSUME NEW k \in 1 .. n PROVE Io.offset + i + k - 1 \in Addresses
  <2>1. i + k - 1 \in Rest
    BY <1>2 DEF Rest
  <2>2. Io.offset + (i + k - 1) \in Addresses
    BY <1>1, <2>1, RestAddresses
  <2> QED
    BY <1>2, <1>3, <2>2
<1>5. f \in [1 .. n -> Nat] /\ \A k \in 1 .. n : f[k] = ByteAt(Io.offset + i + k - 1)
  BY <1>1, <1>4, ByteIsNat DEF RestBytes
<1>6. f[1] = cache[Slot].content[Address % SectorSize]
  <2>1. Io.offset + i + 1 - 1 = Address /\ 1 \in 1 .. n
    BY <1>2, <1>3 DEF Address
  <2>2. ByteAt(Address) = cache[Slot].content[Address % SectorSize]
    BY <1>1 DEF ByteAt, Cached, Slot, Sector
  <2> QED
    BY <1>5, <2>1, <2>2
<1>7. RestBytes' \in [1 .. n - 1 -> Nat] /\ \A k \in 1 .. n - 1 : RestBytes'[k] = f[k + 1]
  <2>1. RestBytes' = [k \in 1 .. Io.length - (i + 1) |-> ByteAt(Io.offset + (i + 1) + k - 1)]
    BY <1>1, <1>2, SameByteAt DEF RestBytes
  <2>2. Io.length - (i + 1) = n - 1
    BY <1>2
  <2>3. ASSUME NEW k \in 1 .. n - 1
        PROVE  ByteAt(Io.offset + (i + 1) + k - 1) = f[k + 1] /\ f[k + 1] \in Nat
    <3>1. k + 1 \in 1 .. n /\ Io.offset + (i + 1) + k - 1 = Io.offset + i + (k + 1) - 1
      BY <1>2, <1>3
    <3> QED
      BY <1>5, <3>1
  <2> HIDE DEF f, n
  <2> QED
    BY <2>1, <2>2, <2>3
<1> HIDE DEF f
<1>8. buffer \in [Callers -> Seq(Nat)]
  BY DEF IdeInv, BuffersFresh
<1>9. /\ buffer'[c] = Append(buffer[c], f[1]) /\ \A d \in Callers \ {c} : buffer'[d] = buffer[d]
  BY <1>1, <1>2, <1>6, <1>8
<1>10. buffer[c] \o f = buffer'[c] \o RestBytes'
  <2> HIDE DEF n, c
  <2>1. buffer[c] \in Seq(Nat)
    BY <1>2, <1>8
  <2>2. buffer[c] \o f = Append(buffer[c], f[1]) \o RestBytes'
    <3> PICK j \in Nat \ {0} : j = n
      BY <1>2
    <3> PICK s \in Seq(Nat) : s = buffer[c]
      BY <2>1
    <3> PICK g \in [1 .. j -> Nat] : g = f
      BY <1>5
    <3> PICK h \in [1 .. j - 1 -> Nat] : h = RestBytes'
      BY <1>7
    <3>1. \A k \in 1 .. j - 1 : h[k] = g[k + 1]
      BY <1>7
    <3>2. s \o g = Append(s, g[1]) \o h
      BY <3>1, NextByte
    <3> QED
      BY <3>2
  <2> QED
    BY <1>7, <1>9, <2>2
<1>11. ASSUME NEW d \in Callers PROVE FinalAnswer(d)' = FinalAnswer(d)
  <2>1. CASE d = c
    BY <1>1, <1>2, <1>10, <2>1 DEF FinalAnswer, f
  <2>2. CASE d # c
    BY <1>1, <1>2, <1>9, <2>2 DEF FinalAnswer
  <2> QED
    BY <2>1, <2>2
<1>12. \A a \in Addresses : FinalByte(a)' = FinalByte(a)
  BY <1>1, <1>2, SameBytes DEF FinalByte
<1>13. \A d \in Callers : Waiting(d)' <=> Waiting(d)
  BY <1>1, WaitingSame
<1>14. UNCHANGED Flat!flatVars
  BY <1>1, <1>11, <1>12, <1>13, FlatState
<1>15. BuffersFresh'
  <2>1. Append(buffer[c], f[1]) \in Seq(Nat)
    <3> HIDE DEF n, c
    <3>1. buffer[c] \in Seq(Nat) /\ f[1] \in Nat
      BY <1>2, <1>5, <1>8
    <3> QED
      BY <3>1, AppendProperties
  <2>2. buffer' \in [Callers -> Seq(Nat)]
    BY <1>1, <1>2, <1>6, <1>8, <2>1
  <2>3. ASSUME NEW d \in Callers, Waiting(d)' PROVE buffer'[d] = <<>>
    <3>1. Waiting(d) /\ ~Waiting(c)
      BY <1>1, <1>13, <2>3, ServedNotWaiting
    <3>2. d # c
      BY <3>1
    <3> QED
      BY <1>9, <3>1, <3>2 DEF IdeInv, BuffersFresh
  <2> QED
    BY <2>2, <2>3 DEF BuffersFresh
<1>16. EvictedIsOnDisk'
  BY <1>1 DEF EvictedIsOnDisk
<1> QED
  BY <1>14, <1>15, <1>16 DEF Unseen

\* The next byte is written: it is what it was to become.
LEMMA WriteByteUnseen ==
    ASSUME IdeInv, WriteByte
    PROVE  Unseen /\ EvictedIsOnDisk'
<1> DEFINE data == want[m.buf].data
           b0 == Address % SectorSize
<1>1. /\ at = "byte" /\ i < Io.length /\ Io.op = "write" /\ Serving /\ Serving' = Serving
      /\ i' = i + 1 /\ Hit(Slot, Sector) /\ ServersInv
      /\ cache' = [cache EXCEPT ![Slot] = Written(@, b0, data)]
      /\ UNCHANGED <<box, asked, want, buffer, fm, at, m, drive, disk, halt>>
  BY DEF WriteByte, Serving, IdeInv
<1>2. /\ i \in Nat /\ Io.length \in Nat /\ Io' = Io
      /\ Address \in Addresses /\ Slot \in Slots
      /\ Slot = Sector % NSlots /\ b0 \in 0 .. SectorSize - 1
      /\ Sector * SectorSize + b0 = Address
  <2>1. i \in Nat /\ Io.length \in Nat
    BY <1>1, Working
  <2>2. /\ Address \in Addresses /\ Slot \in Slots
        /\ Slot = Sector % NSlots /\ b0 \in 0 .. SectorSize - 1
    BY <1>1, AtAddress
  <2>3. Sector * SectorSize + b0 = Address
    BY <1>1, <2>2, BytePlace DEF Sector
  <2> QED
    BY <1>1, <2>1, <2>2, <2>3 DEF Io
<1>3. Io.offset \in Int
  <2>1. i \in Rest
    BY <1>1, <1>2 DEF Rest
  <2> QED
    BY <1>1, <2>1, RestAddresses
<1>4. cache \in [Slots -> [sector : Sectors, used : BOOLEAN, dirty : BOOLEAN, content : Content]]
  BY <1>1 DEF ServersInv, IdeTypeOK
<1>5. /\ \A s \in Slots : s # Slot => cache'[s] = cache[s]
      /\ cache'[Slot].used = cache[Slot].used /\ cache'[Slot].sector = cache[Slot].sector
      /\ \A b \in 0 .. SectorSize - 1 :
            cache'[Slot].content[b] = IF b = b0 THEN data ELSE cache[Slot].content[b]
  <2>1. cache[Slot].content \in Content /\ cache'[Slot] = Written(cache[Slot], b0, data)
    BY <1>1, <1>2, <1>4
  <2>2. cache'[Slot].content = [cache[Slot].content EXCEPT ![b0] = data]
        /\ cache'[Slot].used = cache[Slot].used /\ cache'[Slot].sector = cache[Slot].sector
    BY <1>2, <1>4, <2>1 DEF Written
  <2> QED
    BY <1>1, <1>2, <1>4, <2>1, <2>2 DEF Content
<1> HIDE DEF data, b0
<1>6. ASSUME NEW a \in Addresses
      PROVE  ByteAt(a)' = IF a = Address THEN data ELSE ByteAt(a)
  <2> DEFINE q == a \div SectorSize
             b == a % SectorSize
             s == q % NSlots
  <2>1. q \in Sectors /\ s \in Slots /\ b \in 0 .. SectorSize - 1 /\ q * SectorSize + b = a
    BY <1>1, BytePlace
  <2>2. /\ ByteAt(a) = IF cache[s].used /\ cache[s].sector = q THEN cache[s].content[b] ELSE disk[a]
        /\ ByteAt(a)' = IF cache'[s].used /\ cache'[s].sector = q
                        THEN cache'[s].content[b] ELSE disk[a]
    BY <1>1 DEF ByteAt, Cached, Hit
  <2>3. a = Address => q = Sector /\ b = b0 /\ s = Slot
    BY <1>2 DEF Sector, b0
  <2>4. q = Sector => s = Slot
    BY <1>2
  <2> HIDE DEF q, b, s
  <2>5. q = Sector /\ b = b0 => a = Address
    BY <1>2, <2>1
  <2>6. CASE s # Slot
    BY <1>5, <2>1, <2>2, <2>3, <2>6
  <2>7. CASE s = Slot
    <3>1. cache[s].used /\ cache[s].sector = Sector
      BY <1>1, <2>7 DEF Hit
    <3> QED
      BY <1>5, <2>1, <2>2, <2>3, <2>5, <2>7, <3>1
  <2> QED
    BY <2>6, <2>7
<1>7. ASSUME NEW a \in Addresses PROVE FinalByte(a)' = FinalByte(a)
  <2>1. a \in Int /\ Address = Io.offset + i
    BY AddressSector DEF Address
  <2>2. a = Address <=> a - Io.offset = i
    BY <1>2, <1>3, <2>1
  <2>3. a - Io.offset \in Rest <=> a - Io.offset \in Rest' \/ a - Io.offset = i
    BY <1>1, <1>2, <1>3, <2>1 DEF Rest
  <2>4. i \notin Rest'
    BY <1>1, <1>2 DEF Rest
  <2>5. want'[m'.buf].data = data
    BY <1>1 DEF data
  <2>6. FinalByte(a) = IF a - Io.offset \in Rest THEN data ELSE ByteAt(a)
    BY <1>1 DEF FinalByte, data
  <2>7. FinalByte(a)' = IF a - Io.offset \in Rest' THEN data ELSE ByteAt(a)'
    BY <1>1, <1>2, <2>5 DEF FinalByte
  <2> QED
    BY <1>6, <2>2, <2>3, <2>4, <2>6, <2>7
<1>8. \A c \in Callers : FinalAnswer(c)' = FinalAnswer(c)
  BY <1>1, <1>2 DEF FinalAnswer
<1>9. \A c \in Callers : Waiting(c)' <=> Waiting(c)
  BY <1>1, WaitingSame
<1>10. UNCHANGED Flat!flatVars
  BY <1>1, <1>7, <1>8, <1>9, FlatState
<1>11. EvictedIsOnDisk'
  BY <1>1 DEF EvictedIsOnDisk
<1> QED
  BY <1>1, <1>9, <1>10, <1>11, KeepsFresh DEF Unseen
-----------------------------------------------------------------------------
(***************************************************************************)
(* The drive and the timer.  What is written to the disk is in the cache.  *)
(***************************************************************************)
LEMMA IntrUnseen ==
    ASSUME IdeInv, IdeIntr
    PROVE  Unseen /\ EvictedIsOnDisk'
<1>1. /\ drive # NoCommand /\ Deliver("IDE", Ready) /\ ServersInv /\ BoxesTyped
      /\ UNCHANGED <<asked, want, buffer, fm, at, m, i, cache, halt>>
      /\ Awaiting /\ Serving' = Serving
      /\ disk' = [a \in Addresses |->
            IF drive.op = "write" /\ a \div SectorSize = drive.sector
            THEN drive.content[a % SectorSize] ELSE disk[a]]
  BY DEF IdeIntr, IdeInv, ServersInv, DriveMatches, Serving
<1>2. /\ box'["FM"] = box["FM"]
      /\ \A T : Has(box'["IDE"], T) <=> Has(box["IDE"], T) \/ Ready \in T
  BY <1>1, ToIde
<1>3. \A c \in Callers : Waiting(c)' <=> Waiting(c)
  BY <1>1, <1>2, ForKinds DEF Waiting
<1>4. Slot' = Slot
  BY <1>1 DEF Slot, Sector, Address, Io
<1>5. ASSUME NEW s \in Slots, MustEvict(s), drive = WriteSlot(s)
      PROVE  OnDisk(s)' /\ \A a \in Addresses : ByteAt(a)' = ByteAt(a)
  <2>1. cache[s].used /\ cache[s].sector % NSlots = s
    BY <1>5 DEF MustEvict, IdeInv, ServersInv, IdeTypeOK
  <2>2. ASSUME NEW a \in Addresses PROVE ByteAt(a)' = ByteAt(a)
    <3>1. Cached(a)' <=> Cached(a)
      BY <1>1 DEF Cached, Hit
    <3>2. CASE a \div SectorSize = cache[s].sector
      <4>1. Cached(a)
        BY <2>1, <3>2 DEF Cached, Hit
      <4> QED
        BY <1>1, <3>1, <4>1 DEF ByteAt
    <3>3. CASE a \div SectorSize # cache[s].sector
      <4>1. disk'[a] = disk[a]
        BY <1>1, <1>5, <3>3 DEF WriteSlot
      <4> QED
        BY <1>1, <3>1, <4>1 DEF ByteAt
    <3> QED
      BY <3>2, <3>3
  <2> QED
    BY <1>1, <1>5, <2>2, SlotReachesDisk
<1>6. CASE at = "fetch"
  <2>1. drive.op = "read"
    BY <1>1, <1>6 DEF ServersInv, DriveMatches
  <2>2. disk' = disk
    BY <1>1, <2>1 DEF ServersInv, IdeTypeOK
  <2>3. EvictedIsOnDisk'
    BY <1>1, <1>4, <1>6, <2>2 DEF IdeInv, EvictedIsOnDisk, OnDisk
  <2> QED
    BY <1>1, <1>3, <2>2, <2>3, SameBytes, NotSeen
<1>7. CASE at = "evict"
  <2>1. drive = WriteSlot(Slot) /\ MustEvict(Slot) /\ Serving /\ i < Io.length
    BY <1>1, <1>7 DEF ServersInv, DriveMatches, CacheMatches, Serving
  <2>2. Slot \in Slots
    BY <1>1, <2>1, AtAddress
  <2> PICK s \in Slots : s = Slot
    BY <2>2
  <2>3. OnDisk(s)' /\ \A a \in Addresses : ByteAt(a)' = ByteAt(a)
    BY <1>5, <2>1
  <2>4. EvictedIsOnDisk'
    BY <1>1, <1>4, <1>7, <2>3 DEF EvictedIsOnDisk, OnDisk
  <2> QED
    BY <1>1, <1>3, <2>3, <2>4, NotSeen
<1>8. CASE at = "clean"
  <2>1. drive = WriteSlot(i) /\ MustEvict(i) /\ i \in Slots
    BY <1>1, <1>8 DEF ServersInv, DriveMatches, CacheMatches
  <2>2. \A a \in Addresses : ByteAt(a)' = ByteAt(a)
    BY <1>5, <2>1
  <2>3. EvictedIsOnDisk'
    BY <1>1, <1>8 DEF EvictedIsOnDisk
  <2> QED
    BY <1>1, <1>3, <2>2, <2>3, NotSeen
<1> QED
  BY <1>1, <1>6, <1>7, <1>8 DEF Awaiting

LEMMA TimeUnseen ==
    ASSUME IdeInv, TimeIntr
    PROVE  Unseen /\ EvictedIsOnDisk'
<1>1. /\ Deliver("IDE", WriteBack) /\ ServersInv /\ BoxesTyped
      /\ UNCHANGED <<asked, want, buffer, fm, at, m, i, cache, drive, disk, halt>>
      /\ Serving' = Serving
  BY DEF TimeIntr, IdeInv, ServersInv, Serving
<1>2. /\ box'["FM"] = box["FM"]
      /\ \A T : Has(box'["IDE"], T) <=> Has(box["IDE"], T) \/ WriteBack \in T
  BY <1>1, ToIde
<1>3. \A c \in Callers : Waiting(c)' <=> Waiting(c)
  BY <1>1, <1>2, ForKinds DEF Waiting
<1>4. WriteBack \notin {Ready}
  BY Kinds
<1> QED
  BY <1>1, <1>2, <1>3, <1>4, SameBytes, NotSeen, KeepsEvicted
-----------------------------------------------------------------------------
\* Every step is one of the callers', or nothing that they see.
LEMMA StepFlat ==
    ASSUME IdeInv, [IdeNext]_vars
    PROVE  [Flat!FlatNext]_Flat!flatVars /\ IdeInv'
<1>1. ServersInv'
  BY StepServers DEF IdeInv
<1>2. ASSUME Unseen, EvictedIsOnDisk'
      PROVE  [Flat!FlatNext]_Flat!flatVars /\ IdeInv'
  BY <1>1, <1>2 DEF Unseen, IdeInv
<1>3. CASE FileManagement
  BY <1>2, <1>3, FmReceiveUnseen, FmSendUnseen, FmAnsweredUnseen, FmReplyUnseen
  DEF FileManagement
<1>4. CASE IdeReceive
  BY <1>1, <1>4, ReceiveSimulates DEF IdeInv, ServersInv
<1>5. CASE IdeDriver /\ ~IdeReceive
  BY <1>2, <1>5, FetchUnseen, EvictedUnseen, FetchedUnseen, ReadByteUnseen, WriteByteUnseen,
     ReplyUnseen, ScanSlotUnseen, SlotWrittenUnseen, ScanEndsUnseen DEF IdeDriver
<1>6. CASE IdeIntr \/ TimeIntr
  BY <1>2, <1>6, IntrUnseen, TimeUnseen
<1>7. CASE \E c \in Callers : Resume(c) \/ \E r \in Requests : Call(c, r)
  BY <1>1, <1>7, CallAsks, ResumeReturns DEF Flat!FlatNext, IdeInv
<1>8. CASE UNCHANGED vars
  <2>1. /\ UNCHANGED <<box, want, buffer, fm, at, m, i, cache, disk>> /\ Serving' = Serving
    BY <1>8 DEF vars, Serving
  <2>2. Unseen /\ EvictedIsOnDisk'
    BY <2>1, WaitingSame, SameBytes, NotSeen, KeepsEvicted
  <2> QED
    BY <1>2, <2>2
<1> QED
  BY <1>3, <1>4, <1>5, <1>6, <1>7, <1>8 DEF IdeNext, IdeDriver

LEMMA InitFlat == IdeInit => Flat!FlatInit /\ IdeInv
<1> SUFFICES ASSUME IdeInit PROVE Flat!FlatInit /\ IdeInv
  OBVIOUS
<1>1. /\ box["FM"] = <<>> /\ box["IDE"] = <<>> /\ fm.at = "top"
      /\ want = [c \in Callers |-> Nobody] /\ buffer = [c \in Callers |-> <<>>]
      /\ at = "top" /\ cache = [s \in Slots |-> EmptySlot] /\ disk = Contents
  BY DEF IdeInit
<1>2. ~Serving /\ ServersInv
  BY <1>1, InitServers DEF Serving
<1>3. ASSUME NEW a \in Addresses PROVE FinalByte(a) = Contents[a]
  <2>1. ~cache[(a \div SectorSize) % NSlots].used
    BY <1>1, <1>2, BytePlace DEF EmptySlot
  <2> QED
    BY <1>1, <1>2, <2>1 DEF FinalByte, ByteAt, Cached, Hit
<1>4. [a \in Addresses |-> FinalByte(a)] = Contents
  BY <1>3, DiskAssumption
<1>5. Flat!FlatInit
  BY <1>1, <1>2, <1>4 DEF Flat!FlatInit, Phase, FinalAnswer
<1>6. BuffersFresh
  <2>1. <<>> \in Seq(Nat)
    OBVIOUS
  <2> QED
    BY <1>1, <2>1 DEF BuffersFresh
<1>7. EvictedIsOnDisk
  BY <1>1 DEF EvictedIsOnDisk
<1> QED
  BY <1>2, <1>5, <1>6, <1>7 DEF IdeInv

(***************************************************************************)
(* FM has one request at a time at IDE and gives each answer to the caller *)
(* that waits for it, the drive has one command at a time and its          *)
(* interrupt is awaited, and a slot is given up only when the disk has it. *)
(***************************************************************************)
THEOREM IdeInvariant == IdeSpec => []IdeInv
<1> QED
  BY InitFlat, StepFlat, PTL DEF IdeSpec

(***************************************************************************)
(* The addresses, sectors and slots that the driver computes from a        *)
(* request exist: nothing outside the cache or the disk is used.           *)
(***************************************************************************)
THEOREM IdeTypeCorrect == IdeSpec => []IdeTypeOK
<1>1. IdeInv => IdeTypeOK
  BY DEF IdeInv, ServersInv
<1> QED
  BY <1>1, IdeInvariant, PTL

(***************************************************************************)
(* The driver does not panic: there is no interrupt that nobody waits for, *)
(* and no command while the drive works, whatever comes from the timer.    *)
(***************************************************************************)
THEOREM DriveNeverSurprises == IdeSpec => []DriveInStep
<1>1. IdeInv => DriveInStep
  BY DEF IdeInv, ServersInv
<1> QED
  BY <1>1, IdeInvariant, PTL

(***************************************************************************)
(* A slot that is not marked dirty has the bytes of its sector, so that it *)
(* may be replaced without a write.                                        *)
(***************************************************************************)
THEOREM CleanSlotsOnDisk == IdeSpec => []CleanIsOnDisk
<1>1. IdeInv => CleanIsOnDisk
  BY DEF IdeInv, ServersInv
<1> QED
  BY <1>1, IdeInvariant, PTL

(***************************************************************************)
(* The file server and the driver are a disk of bytes: every request is    *)
(* read or written at once, at a moment between its call and its return,   *)
(* whatever its sectors go through in the cache and on the disk, and its   *)
(* caller has the bytes of that moment.                                    *)
(***************************************************************************)
THEOREM ImplementsDisk == IdeSpec => FlatSafety
<1> QED
  BY InitFlat, StepFlat, IdeInvariant, PTL DEF IdeSpec, FlatSafety
=============================================================================
