------------------------------ MODULE YmodemProofs ------------------------------
(***************************************************************************)
(* Ymodem proved for every size of packets and files, any number of        *)
(* damaged messages and any limits of the error counts: what the two       *)
(* boards report of a session is true.                                     *)
(*                                                                         *)
(* The proof has eight parts: what the line does to a message; what the    *)
(* glue does to the two volumes; the inductive invariant IInv; what a step *)
(* adds to the line; the steps of the receiver, then those of the          *)
(* transmitter; the theorems that follow from IInv; what crc16 makes of a  *)
(* packet; and Wired, what is on the line at all times.                    *)
(*                                                                         *)
(* The heart of IInv is how far apart the ends can be. The receiver has    *)
(* counted as many packets as the transmitter has seen acknowledged        *)
(* (acked), or one more, and the answer to that one is the only ACK under  *)
(* way (Upstream). So an ACK is never that for another block. Packets on   *)
(* the line were all sent (Genuine), the receiver writes the one it        *)
(* expects (Receiver), and an EOT is sent when all of them are written.    *)
(***************************************************************************)
EXTENDS Ymodem, WellFoundedInduction, TLAPS

(* What the proof asks of the line and of littlefs. Each part is needed:   *)
(* YMODEM's control bytes carry no check, so that noise can be the ACK of  *)
(* a block that was lost, or an EOT, and the receiver does not compare     *)
(* what it has with the size (ymodem.c:335); and the results of            *)
(* lfs_file_read and lfs_c2000_fclose are not looked at (ymodem.c:545,     *)
(* ymodem.c:291).                                                          *)
Honest == ACK \notin Noise /\ EOT \notin Noise /\ {"read", "close"} \cap FailingCalls = {}

------------------------------------------------------------------------------
(* The line.                                                               *)
Items == [ch : Int, seq : Int, data : Seq(Int), sound : BOOLEAN]

(* The two ends and the line between them speak of the same items: the     *)
(* instances of YmodemLine in them are one.                                *)
LEMMA SameLine ==
    /\ \A item : R!IsPacket(item) <=> IsPacket(item)
    /\ \A c : R!Control(c) = Control(c) /\ T!Control(c) = Control(c)
    /\ \A m : R!Controls(m) = Controls(m) /\ T!Controls(m) = Controls(m)
    /\ \A h, k, d : T!Packet(h, k, d) = Packet(h, k, d)
    /\ \A m : R!Arrivals(m) = Arrivals(m) /\ T!Arrivals(m) = Arrivals(m)
<1>1. \A item : (R!IsPacket(item) <=> IsPacket(item)) /\ (T!IsPacket(item) <=> IsPacket(item))
  BY DEF IsPacket, SOH, STX, R!IsPacket, R!SOH, R!STX, T!IsPacket, T!SOH, T!STX
<1>2. /\ \A c : R!Control(c) = Control(c) /\ T!Control(c) = Control(c)
      /\ R!JUNK = JUNK /\ T!JUNK = JUNK
  BY DEF Control, R!Control, T!Control, JUNK, R!JUNK, T!JUNK
<1>3. \A m : R!Controls(m) = Controls(m) /\ T!Controls(m) = Controls(m)
  BY <1>2 DEF Controls, R!Controls, T!Controls
<1>4. \A h, k, d : T!Packet(h, k, d) = Packet(h, k, d)
  BY DEF Packet, T!Packet
<1>5. /\ \A s, k : R!RemoveAt(s, k) = RemoveAt(s, k) /\ T!RemoveAt(s, k) = RemoveAt(s, k)
      /\ \A s, k, e : /\ R!ReplaceAt(s, k, e) = ReplaceAt(s, k, e)
                       /\ T!ReplaceAt(s, k, e) = ReplaceAt(s, k, e)
  BY DEF RemoveAt, ReplaceAt, R!RemoveAt, R!ReplaceAt, T!RemoveAt, T!ReplaceAt
<1>6. ASSUME NEW m PROVE R!Damaged(m) = Damaged(m) /\ T!Damaged(m) = Damaged(m)
  BY <1>1, <1>2, <1>5 DEF Damaged, R!Damaged, T!Damaged
<1>7. \A m : R!Arrivals(m) = Arrivals(m) /\ T!Arrivals(m) = Arrivals(m)
  BY <1>6 DEF Arrivals, R!Arrivals, T!Arrivals
<1> QED BY <1>1, <1>2, <1>3, <1>4, <1>7

(* One sequence behind another.                                            *)
LEMMA Concatenated ==
    ASSUME NEW S, NEW s \in Seq(S), NEW r \in Seq(S)
    PROVE  /\ s \o r \in Seq(S) /\ Len(s \o r) = Len(s) + Len(r)
           /\ Len(s) \in Nat /\ Len(r) \in Nat
           /\ \A i \in 1..(Len(s) + Len(r)) :
                 (s \o r)[i] = IF i <= Len(s) THEN s[i] ELSE r[i - Len(s)]
OBVIOUS

(* A sequence with an element taken out or replaced.                       *)
LEMMA RemoveAtFacts ==
    ASSUME NEW S, NEW s \in Seq(S), NEW k \in 1..Len(s)
    PROVE  LET r == RemoveAt(s, k)
           IN /\ r \in Seq(S) /\ Len(r) = Len(s) - 1
              /\ \A j \in 1..Len(r) : r[j] = IF j < k THEN s[j] ELSE s[j + 1]
<1> DEFINE a == SubSeq(s, 1, k - 1)
           b == SubSeq(s, k + 1, Len(s))
<1>1. a \in Seq(S) /\ Len(a) = k - 1 /\ \A j \in 1..(k - 1) : a[j] = s[j]
  OBVIOUS
<1>2. b \in Seq(S) /\ Len(b) = Len(s) - k /\ \A j \in 1..(Len(s) - k) : b[j] = s[j + k]
  OBVIOUS
<1> HIDE DEF a, b
<1>3. a \o b \in Seq(S) /\ Len(a \o b) = Len(s) - 1
  <2>1. a \o b \in Seq(S) /\ Len(a \o b) = Len(a) + Len(b)
    BY <1>1, <1>2, Concatenated
  <2>2. Len(s) \in Nat
    OBVIOUS
  <2> QED BY <1>1, <1>2, <2>1, <2>2
<1>4. \A j \in 1..Len(a \o b) : (a \o b)[j] = IF j < k THEN s[j] ELSE s[j + 1]
  <2> TAKE j \in 1..Len(a \o b)
  <2>1. CASE j < k
    BY <1>1, <1>2, <1>3, <2>1
  <2>2. CASE ~(j < k)
    <3>1. (a \o b)[j] = b[j - (k - 1)]
      BY <1>1, <1>2, <1>3, <2>2
    <3>2. b[j - (k - 1)] = s[j - (k - 1) + k]
      BY <1>2, <1>3, <2>2
    <3> QED BY <2>2, <3>1, <3>2
  <2> QED BY <2>1, <2>2
<1> QED BY <1>3, <1>4 DEF RemoveAt, a, b

(* What arrives of control bytes: some of these in their order, and noise. *)
Babble(r, bytes) ==
    /\ r \in Seq(Items) /\ Len(r) <= Len(bytes)
    /\ \A i \in 1..Len(r) :
          \/ r[i].ch \in Noise
          \/ \E j \in 1..Len(bytes) : j >= i /\ r[i].ch = bytes[j]

(* A control byte is an item, and noise never looks like the start of a    *)
(* packet.                                                                 *)
LEMMA ControlType ==
    /\ \A c \in Int : Control(c) \in Items /\ Control(c).ch = c
    /\ Noise \subseteq Int /\ JUNK \in Int
    /\ \A c \in Noise : c # SOH /\ c # STX
<1>1. \A c \in Int : Control(c) \in Items /\ Control(c).ch = c
  BY DEF Control, Items
<1>2. Noise \subseteq {4, 6, 21, 24, 67, 65, 255}
  BY NoiseAssumption DEF EOT, ACK, NAK, CA, CRC16, ABORT1, JUNK
<1> QED BY <1>1, <1>2 DEF JUNK, SOH, STX

(* What the line can do to a message: nothing, or to one of its items a    *)
(* loss, a damage, or a first byte turned into noise.                      *)
LEMMA DamagedFacts ==
    ASSUME NEW m, NEW a \in Arrivals(m)
    PROVE  \/ a[1] = m
           \/ \E k \in 1..Len(m) :
                 IF IsPacket(m[k])
                 THEN \/ a[1] \in {RemoveAt(m, k), ReplaceAt(m, k, [m[k] EXCEPT !.sound = FALSE])}
                      \/ \E x \in Noise : a[1] = <<Control(x), Control(JUNK)>>
                 ELSE \/ a[1] = RemoveAt(m, k)
                      \/ \E x \in Noise : a[1] = ReplaceAt(m, k, Control(x))
<1>1. CASE a = <<m, 0>>
  BY <1>1
<1>2. CASE a \in {<<d, 1>> : d \in Damaged(m)}
  <2>1. a[1] \in Damaged(m)
    BY <1>2
  <2>2. PICK k \in 1..Len(m) :
            a[1] \in IF IsPacket(m[k])
                     THEN {RemoveAt(m, k), ReplaceAt(m, k, [m[k] EXCEPT !.sound = FALSE])}
                              \cup {<<Control(x), Control(JUNK)>> : x \in Noise}
                     ELSE {RemoveAt(m, k)} \cup {ReplaceAt(m, k, Control(x)) : x \in Noise}
    BY <2>1 DEF Damaged
  <2> QED BY <2>2
<1> QED BY <1>1, <1>2 DEF Arrivals

(* Control bytes arrive as some of themselves, with noise in place of      *)
(* one.                                                                    *)
LEMMA ControlArrivals ==
    ASSUME NEW bytes \in Seq(Int), \A j \in 1..Len(bytes) : bytes[j] \notin {SOH, STX},
           NEW a \in Arrivals(Controls(bytes))
    PROVE  Babble(a[1], bytes)
<1> DEFINE m == Controls(bytes)
<1>1. /\ m \in Seq(Items) /\ Len(m) = Len(bytes) /\ Len(bytes) \in Nat
      /\ \A j \in 1..Len(bytes) : m[j].ch = bytes[j]
  BY ControlType DEF Controls
<1> HIDE DEF m
<1>2. CASE a[1] = m
  BY <1>1, <1>2 DEF Babble
<1>3. CASE a[1] # m
  <2>1. PICK k \in 1..Len(m) :
            IF IsPacket(m[k])
            THEN \/ a[1] \in {RemoveAt(m, k), ReplaceAt(m, k, [m[k] EXCEPT !.sound = FALSE])}
                 \/ \E x \in Noise : a[1] = <<Control(x), Control(JUNK)>>
            ELSE \/ a[1] = RemoveAt(m, k)
                 \/ \E x \in Noise : a[1] = ReplaceAt(m, k, Control(x))
    BY <1>3, DamagedFacts DEF m
  <2>2. ~IsPacket(m[k])
    BY <1>1 DEF IsPacket
  <2>3. CASE a[1] = RemoveAt(m, k)
    <3>1. /\ a[1] \in Seq(Items) /\ Len(a[1]) = Len(m) - 1
          /\ \A j \in 1..Len(a[1]) : a[1][j] = IF j < k THEN m[j] ELSE m[j + 1]
      BY <1>1, <2>3, RemoveAtFacts
    <3>2. ASSUME NEW i \in 1..Len(a[1])
          PROVE  \E j \in 1..Len(bytes) : j >= i /\ a[1][i].ch = bytes[j]
      <4>1. i \in 1..Len(bytes) /\ i + 1 \in 1..Len(bytes) /\ i >= i /\ i + 1 >= i
        BY <1>1, <3>1
      <4>2. CASE i < k
        <5>1. a[1][i].ch = bytes[i]
          BY <1>1, <3>1, <4>1, <4>2
        <5> QED BY <4>1, <5>1
      <4>3. CASE ~(i < k)
        <5>1. a[1][i].ch = bytes[i + 1]
          BY <1>1, <3>1, <4>1, <4>3
        <5> QED BY <4>1, <5>1
      <4> QED BY <4>2, <4>3
    <3> QED BY <1>1, <3>1, <3>2 DEF Babble
  <2>4. ASSUME NEW x \in Noise, a[1] = ReplaceAt(m, k, Control(x))
        PROVE  Babble(a[1], bytes)
    <3>1. a[1] = [m EXCEPT ![k] = Control(x)] /\ Control(x) \in Items /\ Control(x).ch = x
      BY <2>4, ControlType DEF ReplaceAt
    <3>2. /\ a[1] \in Seq(Items) /\ Len(a[1]) = Len(m)
          /\ \A j \in 1..Len(m) : a[1][j] = IF j = k THEN Control(x) ELSE m[j]
      BY <1>1, <3>1
    <3> QED BY <1>1, <3>1, <3>2 DEF Babble
  <2> QED BY <2>1, <2>2, <2>3, <2>4
<1> QED BY <1>2, <1>3

(* What arrives of a packet: it, whole or damaged, nothing, or a byte of   *)
(* noise with the rest of the packet behind it.                            *)
Apart(r) == \A i \in 1..Len(r) : r[i].ch = CA => i < Len(r) /\ r[i + 1].ch # CA

Delivery(r, item) ==
    /\ r \in Seq(Items)
    /\ \A i \in 1..Len(r) :
          \/ r[i] = item
          \/ r[i].ch = item.ch /\ ~r[i].sound
          \/ r[i].ch \in Noise \cup {JUNK}
    /\ Apart(r)

(* A packet arrives as it is, unsound, as noise, or not at all.            *)
LEMMA PacketArrivals ==
    ASSUME NEW item \in Items, IsPacket(item), NEW a \in Arrivals(<<item>>)
    PROVE  Delivery(a[1], item)
<1> DEFINE m == <<item>>
           bad == [item EXCEPT !.sound = FALSE]
<1>1. m \in Seq(Items) /\ Len(m) = 1 /\ m[1] = item /\ 1..Len(m) = {1}
  OBVIOUS
<1>2. bad \in Items /\ bad.ch = item.ch /\ ~bad.sound /\ item.ch # CA
  <2>1. bad \in Items
    BY DEF Items
  <2>2. bad.ch = item.ch /\ bad.sound = FALSE
    BY DEF Items
  <2>3. item.ch # CA
    BY DEF IsPacket, SOH, STX, CA
  <2> HIDE DEF bad
  <2> QED BY <2>1, <2>2, <2>3
<1> HIDE DEF m, bad
<1>3. CASE a[1] = m
  BY <1>1, <1>2, <1>3 DEF Delivery, Apart
<1>4. CASE a[1] # m
  <2>1. a \in Arrivals(m)
    BY DEF m
  <2>2. \/ a[1] = RemoveAt(m, 1)
        \/ a[1] = ReplaceAt(m, 1, bad)
        \/ \E x \in Noise : a[1] = <<Control(x), Control(JUNK)>>
    BY <1>1, <1>4, <2>1, DamagedFacts DEF bad
  <2>3. CASE a[1] = RemoveAt(m, 1)
    <3>1. 1 \in 1..Len(m)
      BY <1>1
    <3>2. RemoveAt(m, 1) \in Seq(Items) /\ Len(RemoveAt(m, 1)) = Len(m) - 1
      BY <1>1, <3>1, RemoveAtFacts
    <3> QED BY <1>1, <2>3, <3>2 DEF Delivery, Apart
  <2>4. CASE a[1] = ReplaceAt(m, 1, bad)
    <3>1. a[1] = [m EXCEPT ![1] = bad]
      BY <2>4 DEF ReplaceAt
    <3>2. a[1] \in Seq(Items) /\ Len(a[1]) = 1 /\ a[1][1] = bad
      BY <1>1, <1>2, <3>1
    <3> QED BY <1>2, <3>2 DEF Delivery, Apart
  <2>5. ASSUME NEW x \in Noise, a[1] = <<Control(x), Control(JUNK)>>
        PROVE  Delivery(a[1], item)
    <3>1. /\ a[1] \in Seq(Items) /\ Len(a[1]) = 2
          /\ a[1][1].ch = x /\ a[1][2].ch = JUNK
      BY <2>5, ControlType
    <3> QED BY <3>1 DEF Delivery, Apart, JUNK, CA
  <2> QED BY <2>2, <2>3, <2>4, <2>5
<1> QED BY <1>3, <1>4
------------------------------------------------------------------------------
(* The two volumes.                                                        *)
VolumeRecords ==
    [bInit : BOOLEAN, bMount : BOOLEAN, bFileIsOpen : BOOLEAN, pLfs : BOOLEAN, pFile : BOOLEAN,
     lfs : {"off", "mounted"}, file : {"none", "live", "dead"}, stray : BOOLEAN, broken : BOOLEAN,
     exists : BOOLEAN, stored : Seq(Int), cache : Seq(Int), pos : Nat]

(* The empty sequence.                                                     *)
LEMMA EmptyFacts == <<>> \in Seq(Int) /\ Len(<<>>) = 0
OBVIOUS

(* Contents that begin with the first units of the file sent.              *)
Holds(contents, len) ==
    /\ contents \in Seq(Int) /\ len <= Len(contents)
    /\ \A k \in 1..len : contents[k] = k

(* The receiver's volume while the file is written, and afterwards.        *)
Writing(v, len) ==
    /\ v \in VolumeRecords /\ v.pFile /\ v.bMount /\ v.bFileIsOpen /\ v.exists
    /\ v.pos = len /\ Holds(v.cache, len)

Kept(v, len) == v \in VolumeRecords /\ ~v.bFileIsOpen /\ Holds(v.stored, len)

(* The transmitter's volume while the file is read.                        *)
Reading(v, place) == v \in VolumeRecords /\ v.cache = file /\ v.pos = place

(* The operators of the glue are the same in the instances of the two      *)
(* ends.                                                                   *)
LEMMA SameGlue ==
    /\ \A v, ok : /\ R!lfs_c2000_mount(v, ok) = lfs_c2000_mount(v, ok)
                  /\ T!lfs_c2000_mount(v, ok) = lfs_c2000_mount(v, ok)
    /\ \A v, ok : /\ R!lfs_c2000_fopen(v, ok) = lfs_c2000_fopen(v, ok)
                  /\ T!lfs_c2000_fopen(v, ok) = lfs_c2000_fopen(v, ok)
    /\ \A v, data, ok : R!lfs_c2000_fwrite(v, data, ok) = lfs_c2000_fwrite(v, data, ok)
    /\ \A v, n : T!lfs_file_read(v, n) = lfs_file_read(v, n)
    /\ \A v, ok : R!lfs_cleanup(v, ok) = lfs_cleanup(v, ok)
<1>1. \A v, ok : /\ R!lfs_c2000_mount(v, ok) = lfs_c2000_mount(v, ok)
                 /\ T!lfs_c2000_mount(v, ok) = lfs_c2000_mount(v, ok)
  BY DEF lfs_c2000_mount, Restarted, lfs_c2000_init, Returned,
         R!lfs_c2000_mount, R!Restarted, R!lfs_c2000_init, R!Returned,
         T!lfs_c2000_mount, T!Restarted, T!lfs_c2000_init, T!Returned
<1>2. \A v, ok : /\ R!lfs_c2000_fopen(v, ok) = lfs_c2000_fopen(v, ok)
                 /\ T!lfs_c2000_fopen(v, ok) = lfs_c2000_fopen(v, ok)
  BY DEF lfs_c2000_fopen, OnVolume, Returned, R!lfs_c2000_fopen, R!OnVolume, R!Returned,
         T!lfs_c2000_fopen, T!OnVolume, T!Returned
<1>3. \A v, data, ok : R!lfs_c2000_fwrite(v, data, ok) = lfs_c2000_fwrite(v, data, ok)
  BY DEF lfs_c2000_fwrite, OnFile, Overwrite, Returned,
         R!lfs_c2000_fwrite, R!OnFile, R!Overwrite, R!Returned
<1>4. \A v, n : T!lfs_file_read(v, n) = lfs_file_read(v, n)
  BY DEF lfs_file_read, OnFile, Returned, T!lfs_file_read, T!OnFile, T!Returned
<1>5. \A v, ok : R!lfs_cleanup(v, ok) = lfs_cleanup(v, ok)
  BY DEF lfs_cleanup, lfs_c2000_umount, Restarted, lfs_c2000_fclose, OnFile,
         R!lfs_cleanup, R!lfs_c2000_umount, R!Restarted, R!lfs_c2000_fclose, R!OnFile
<1> QED BY <1>1, <1>2, <1>3, <1>4, <1>5

(* A volume mounted for a transfer, and the file opened on it.             *)
Mounted(v, ok) == [lfs_c2000_mount(v, ok).fs EXCEPT !.pLfs = lfs_c2000_mount(v, ok).ret]
Open(v, okMount, okOpen) == lfs_c2000_fopen(Mounted(v, okMount), okOpen)
Opened(v, okMount, okOpen) ==
    [Open(v, okMount, okOpen).fs EXCEPT !.pFile = Open(v, okMount, okOpen).ret]

(* Mounting leaves the stored file alone.                                  *)
LEMMA MountedFacts ==
    ASSUME NEW v \in VolumeRecords, NEW ok \in BOOLEAN
    PROVE  /\ lfs_c2000_mount(v, ok).ret = ok
           /\ Mounted(v, ok) \in VolumeRecords
           /\ Mounted(v, ok).stored = v.stored
<1> DEFINE i == lfs_c2000_init(v)
           life == IF ok THEN "mounted" ELSE "off"
           kind == IF i.file = "none" THEN "none" ELSE "dead"
           u == Restarted(i, life)
           w == lfs_c2000_mount(v, ok).fs
<1>1. i \in VolumeRecords /\ i.stored = v.stored
  BY DEF lfs_c2000_init, VolumeRecords
<1>2. u \in VolumeRecords /\ u.stored = v.stored
  <2>1. u = [i EXCEPT !.lfs = life, !.file = kind, !.stray = FALSE, !.cache = <<>>, !.pos = 0]
    BY DEF Restarted
  <2>2. life \in {"off", "mounted"} /\ kind \in {"none", "live", "dead"}
    OBVIOUS
  <2> HIDE DEF i, life, kind, u
  <2> QED BY <1>1, <2>1, <2>2, EmptyFacts DEF VolumeRecords
<1>3. w = (IF ok THEN [u EXCEPT !.bMount = TRUE] ELSE u) /\ lfs_c2000_mount(v, ok).ret = ok
  BY DEF lfs_c2000_mount, Returned
<1>4. w \in VolumeRecords /\ w.stored = v.stored
  <2> HIDE DEF u, w
  <2> QED BY <1>2, <1>3 DEF VolumeRecords
<1>5. Mounted(v, ok) = [w EXCEPT !.pLfs = ok]
  BY <1>3 DEF Mounted
<1> HIDE DEF w
<1> QED BY <1>3, <1>4, <1>5 DEF VolumeRecords

(* A file opened for a session is read and written from its start and      *)
(* begins as what is stored: nothing is truncated.                         *)
LEMMA OpenedFacts ==
    ASSUME NEW v \in VolumeRecords, NEW okMount \in BOOLEAN, NEW okOpen \in BOOLEAN,
           Open(v, okMount, okOpen).ret
    PROVE  LET w == Opened(v, okMount, okOpen)
           IN /\ w \in VolumeRecords /\ w.pFile /\ w.bMount /\ w.bFileIsOpen /\ w.exists
              /\ w.pos = 0 /\ w.cache = v.stored /\ w.stored = v.stored
<1> DEFINE m == Mounted(v, okMount)
           o == [OnVolume(m) EXCEPT !.bFileIsOpen = okOpen]
           r == lfs_c2000_fopen(m, okOpen).fs
           broken == o.broken \/ m.file = "live"
<1>1. m \in VolumeRecords /\ m.stored = v.stored
  BY MountedFacts
<1> HIDE DEF m
<1>2. m.bMount /\ ~m.bFileIsOpen /\ okOpen
  BY DEF Open, lfs_c2000_fopen, Returned, m
<1>3. /\ o \in VolumeRecords /\ o.bMount /\ o.bFileIsOpen /\ o.stored = v.stored
  BY <1>1, <1>2 DEF OnVolume, VolumeRecords
<1>4. r = [o EXCEPT !.broken = broken, !.file = "live",
                    !.exists = TRUE, !.cache = m.stored, !.pos = 0]
  BY <1>2 DEF lfs_c2000_fopen, Returned
<1>5. broken \in BOOLEAN
  BY <1>1 DEF VolumeRecords
<1> HIDE DEF o, r, broken
<1>6. /\ r \in VolumeRecords /\ r.bMount /\ r.bFileIsOpen /\ r.exists /\ r.pos = 0
      /\ r.cache = v.stored /\ r.stored = v.stored
  BY <1>1, <1>3, <1>4, <1>5 DEF VolumeRecords
<1>7. Opened(v, okMount, okOpen) = [r EXCEPT !.pFile = TRUE]
  <2>1. Open(v, okMount, okOpen) = lfs_c2000_fopen(m, okOpen)
    BY DEF Open, m
  <2>2. lfs_c2000_fopen(m, okOpen).ret = TRUE
    BY <1>2 DEF lfs_c2000_fopen, Returned
  <2> QED BY <2>1, <2>2 DEF Opened, r
<1> QED BY <1>6, <1>7 DEF VolumeRecords

(* A packet's units are written behind those written before, or not at     *)
(* all.                                                                    *)
LEMMA WriteFacts ==
    ASSUME NEW v, NEW len \in Nat, Writing(v, len), NEW data \in Seq(Int),
           \A k \in 1..Len(data) : data[k] = len + k, NEW ok \in BOOLEAN
    PROVE  LET w == lfs_c2000_fwrite(v, data, ok)
           IN IF ok THEN w.ret = Len(data) /\ Writing(w.fs, len + Len(data))
                    ELSE w.ret = -1 /\ Writing(w.fs, len)
<1> DEFINE o == OnFile(v)
           new == Overwrite(v.cache, v.pos, data)
           end == len + Len(data)
           w == lfs_c2000_fwrite(v, data, ok).fs
<1>1. /\ v \in VolumeRecords /\ v.pFile /\ v.bMount /\ v.bFileIsOpen /\ v.exists
      /\ v.pos = len /\ Holds(v.cache, len)
  BY DEF Writing
<1>2. /\ o \in VolumeRecords /\ o.pFile /\ o.bMount /\ o.bFileIsOpen /\ o.exists
      /\ o.pos = len /\ o.cache = v.cache
  BY <1>1 DEF OnFile, VolumeRecords
<1>3. CASE ~ok
  <2>1. lfs_c2000_fwrite(v, data, ok).ret = -1 /\ w = o
    BY <1>1, <1>3 DEF lfs_c2000_fwrite, Returned
  <2> HIDE DEF o, w
  <2> QED BY <1>1, <1>2, <1>3, <2>1 DEF Writing, w
<1>4. CASE ok
  <2>1. /\ lfs_c2000_fwrite(v, data, ok).ret = Len(data)
        /\ w = [o EXCEPT !.cache = new, !.pos = end]
    BY <1>1, <1>2, <1>4 DEF lfs_c2000_fwrite, Returned
  <2>2. v.cache \in Seq(Int) /\ len <= Len(v.cache) /\ Len(v.cache) \in Nat /\ Len(data) \in Nat
        /\ \A k \in 1..len : v.cache[k] = k
    BY <1>1 DEF Holds
  <2> DEFINE size == IF len + Len(data) > Len(v.cache) THEN len + Len(data) ELSE Len(v.cache)
             at(k) == IF k > len /\ k <= len + Len(data) THEN data[k - len] ELSE v.cache[k]
  <2>3. size \in Nat /\ size >= end /\ end \in Nat /\ size >= Len(v.cache)
        /\ (size = end \/ size = Len(v.cache))
    BY <2>2
  <2>4. new = [k \in 1..size |-> at(k)]
    BY <1>1 DEF Overwrite
  <2>5. \A k \in 1..size : at(k) \in Int
    <3> TAKE k \in 1..size
    <3>1. CASE k > len /\ k <= len + Len(data)
      <4>1. k - len \in 1..Len(data)
        BY <2>2, <3>1
      <4> QED BY <3>1, <4>1
    <3>2. CASE ~(k > len /\ k <= len + Len(data))
      <4>1. k \in 1..Len(v.cache)
        BY <2>2, <2>3, <3>2
      <4> QED BY <2>2, <3>2, <4>1
    <3> QED BY <3>1, <3>2
  <2>6. \A k \in 1..end : at(k) = k
    <3> TAKE k \in 1..end
    <3>1. CASE k > len
      <4>1. k - len \in 1..Len(data) /\ len + (k - len) = k /\ k <= len + Len(data)
        BY <2>2, <3>1
      <4> QED BY <3>1, <4>1
    <3>2. CASE ~(k > len)
      <4>1. k \in 1..len
        BY <2>2, <3>2
      <4> QED BY <2>2, <3>2, <4>1
    <3> QED BY <3>1, <3>2
  <2> HIDE DEF size, at, new
  <2>7. new \in Seq(Int) /\ Len(new) = size
    BY <2>3, <2>4, <2>5
  <2>8. Holds(new, end)
    <3>1. ASSUME NEW k \in 1..end PROVE new[k] = k
      <4>1. k \in 1..size
        BY <2>3
      <4> QED BY <2>4, <2>6, <4>1
    <3> QED BY <2>3, <2>7, <3>1 DEF Holds
  <2> HIDE DEF o, w, end
  <2>9. /\ w \in VolumeRecords /\ w.pFile /\ w.bMount /\ w.bFileIsOpen /\ w.exists
        /\ w.pos = end /\ w.cache = new
    BY <1>2, <2>1, <2>3, <2>7 DEF VolumeRecords
  <2>10. Writing(w, end)
    BY <2>8, <2>9 DEF Writing
  <2> QED BY <1>4, <2>1, <2>10 DEF w, end
<1> QED BY <1>3, <1>4

(* Every way out closes the file: what was written is stored.              *)
LEMMA CleanupFacts ==
    ASSUME NEW v, NEW len \in Nat, Writing(v, len)
    PROVE  Kept(lfs_cleanup(v, TRUE), len)
<1> DEFINE o == OnFile(v)
           c == lfs_c2000_fclose(v, TRUE)
           closed == [c EXCEPT !.pFile = FALSE]
           u == lfs_c2000_umount(closed)
<1>1. /\ v \in VolumeRecords /\ v.pFile /\ v.bMount /\ v.bFileIsOpen /\ v.exists
      /\ Holds(v.cache, len)
  BY DEF Writing
<1>2. o \in VolumeRecords /\ v.cache \in Seq(Int)
  BY <1>1 DEF OnFile, VolumeRecords
<1>3. c = [o EXCEPT !.bFileIsOpen = FALSE, !.file = "none", !.stored = v.cache,
                    !.cache = <<>>, !.pos = 0]
  BY <1>1 DEF lfs_c2000_fclose
<1> HIDE DEF o, c
<1>4. closed \in VolumeRecords /\ closed.bFileIsOpen = FALSE /\ closed.stored = v.cache
  BY <1>2, <1>3, EmptyFacts DEF VolumeRecords
<1>5. lfs_cleanup(v, TRUE) = IF closed.pLfs THEN [u EXCEPT !.pLfs = FALSE] ELSE closed
  BY <1>1 DEF lfs_cleanup, c
<1> HIDE DEF closed
<1>6. u \in VolumeRecords /\ u.bFileIsOpen = FALSE /\ u.stored = v.cache
  <2> DEFINE r == Restarted(closed, "off")
             kind == IF closed.file = "none" THEN "none" ELSE "dead"
  <2>1. r = [closed EXCEPT !.lfs = "off", !.file = kind, !.stray = FALSE, !.cache = <<>>, !.pos = 0]
    BY DEF Restarted
  <2>2. kind \in {"none", "live", "dead"}
    OBVIOUS
  <2>3. u = IF closed.bInit /\ closed.bMount THEN [r EXCEPT !.bMount = FALSE] ELSE closed
    BY DEF lfs_c2000_umount
  <2> HIDE DEF kind, r, u
  <2>4. r \in VolumeRecords /\ r.bFileIsOpen = FALSE /\ r.stored = v.cache
    BY <1>4, <2>1, <2>2, EmptyFacts DEF VolumeRecords
  <2> QED BY <1>4, <2>3, <2>4 DEF VolumeRecords
<1> HIDE DEF u
<1>7. /\ lfs_cleanup(v, TRUE) \in VolumeRecords
      /\ lfs_cleanup(v, TRUE).bFileIsOpen = FALSE
      /\ lfs_cleanup(v, TRUE).stored = v.cache
  BY <1>4, <1>5, <1>6 DEF VolumeRecords
<1> QED BY <1>1, <1>7 DEF Kept

(* lfs_file_read gives the next units of the file and moves the place.     *)
LEMMA ReadFacts ==
    ASSUME NEW v, NEW place \in Nat, Reading(v, place), NEW count \in Nat,
           file \in Seq(Int), place + count <= Len(file)
    PROVE  LET r == lfs_file_read(v, count)
           IN /\ Reading(r.fs, place + count)
              /\ r.ret = SubSeq(file, place + 1, place + count)
<1> DEFINE o == OnFile(v)
           r == lfs_file_read(v, count)
<1>1. o \in VolumeRecords /\ o.cache = file /\ o.pos = place /\ v.cache = file /\ v.pos = place
  BY DEF Reading, OnFile, VolumeRecords
<1>2. Len(file) \in Nat
  OBVIOUS
<1>3. r.fs = [o EXCEPT !.pos = place + count] /\ r.ret = SubSeq(file, place + 1, place + count)
  <2>1. (IF place + count > Len(file) THEN Len(file) ELSE place + count) = place + count
    BY <1>2
  <2> QED BY <1>1, <2>1 DEF lfs_file_read, Returned
<1>4. r.fs \in VolumeRecords /\ r.fs.cache = file /\ r.fs.pos = place + count
  <2> DEFINE end == place + count
             w == r.fs
  <2>1. end \in Nat /\ w = [o EXCEPT !.pos = end]
    BY <1>3
  <2> HIDE DEF o, w, end
  <2>2. w \in VolumeRecords /\ w.cache = file /\ w.pos = end
    BY <1>1, <2>1 DEF VolumeRecords
  <2> QED BY <2>2 DEF w, end
<1> HIDE DEF o, r
<1> QED BY <1>3, <1>4 DEF Reading, r

------------------------------------------------------------------------------
(* The inductive invariant.                                                *)
Units == Len(file)
Smaller(a, b) == IF a <= b THEN a ELSE b

(* The data of the k-th block.                                             *)
BlockOf(k) ==
    [m \in 1..PACKET_1K_SIZE |->
        IF (k - 1) * PACKET_1K_SIZE + m <= Units THEN (k - 1) * PACKET_1K_SIZE + m ELSE 0]

(* Before the first packet, up to the last answer to a block, and after    *)
(* it.                                                                     *)
Early == {"off", "poll", "pollWait", "open"}
Naming == {"name", "nameAck", "nameC"}
Blocks == {"prepare", "block", "blockAck"}
Sending == Naming \cup Blocks
Ending == {"eot", "eotAck", "eotC", "last", "lastAck"}

(* The packets of which the transmitter knows that they have arrived.      *)
acked == IF txPc = "nameC" THEN 1 ELSE IF txPc \in Blocks THEN blkNumber ELSE 0

(* The receiver has all of the file; and the transmitter knows.            *)
Delivered == packets_received >= 1 /\ file_len = Units
Past == Delivered /\ txPc \in Ending \cup {"done"}

(* out is something the receiver has not acted on.                         *)
Pending == rxPc \in {"consume", "handle"}
Normal(o) == o.ret = 0 /\ IsPacket(o.packet) /\ o.packet.sound
Ended(o) == o.ret = 0 /\ o.length = 0 /\ ~Normal(o)
Aborted(o) == o.ret = 0 /\ o.length = -1

Types ==
    /\ toRx \in Seq(Items) /\ toTx \in Seq(Items)
    /\ rxPc \in {"off", "packet", "consume", "handle", "done"}
    /\ txPc \in Early \cup Sending \cup Ending \cup {"done"}
    /\ out \in [ret : Int, length : Int, packet : Items]
    /\ packets_received \in Nat /\ file_len \in Nat /\ eof_cnt \in Nat
    /\ blkNumber \in Nat /\ txSize \in Nat /\ packet_data \in Seq(Int)
    /\ rxPc # "done" => rxFs \in VolumeRecords
    /\ file \in Seq(Int) /\ \A k \in 1..Units : file[k] = k

(* The transmitter sends the blocks of the file, each until it is          *)
(* acknowledged.                                                           *)
Sender ==
    /\ txPc \in Early => txFs \in VolumeRecords /\ txFs.stored = file
    /\ txPc \in Naming => packet_data = <<Units>> /\ txSize = Units /\ Reading(txFs, 0)
    /\ txPc \in Blocks =>
          /\ blkNumber >= 1 /\ txSize >= 1
          /\ txSize = Units - (blkNumber - 1) * PACKET_1K_SIZE
    /\ txPc = "prepare" => Reading(txFs, (blkNumber - 1) * PACKET_1K_SIZE)
    /\ txPc \in {"block", "blockAck"} =>
          /\ packet_data = BlockOf(blkNumber)
          /\ Reading(txFs, Smaller(blkNumber * PACKET_1K_SIZE, Units))
    /\ txPc \in Ending => Delivered
    /\ txPc = "done" /\ ret = 0 => Delivered

(* The receiver has written the packets it has counted, and no more.       *)
Receiver ==
    /\ rxPc = "off" => packets_received = 0
    /\ packets_received >= 1 =>
          /\ Units \in 1..MaxSize
          /\ file_len = Smaller((packets_received - 1) * PACKET_1K_SIZE, Units)
          /\ rxPc # "done" => rxSize = Units /\ Writing(rxFs, file_len)
          /\ rxPc = "done" => Kept(rxFs, file_len)
    /\ rxPc = "done" /\ rxSize > 0 => rxSize = Units /\ Delivered
    /\ eof_cnt > 0 => Past

(* A packet that passes the check is the first, a block that has been      *)
(* sent, or the last one.                                                  *)
Genuine(item) ==
    IsPacket(item) /\ item.sound =>
        \/ item.seq = 0 /\ item.data = <<Units>>
        \/ /\ item.seq \in 1..255 /\ item.data = BlockOf(item.seq)
           /\ txPc \in Sending => item.seq <= acked
        \/ item.seq = 0 /\ Delivered

Downstream ==
    /\ \A i \in 1..Len(toRx) : Genuine(toRx[i]) /\ (toRx[i].ch = EOT => Past)
    /\ Pending => /\ Genuine(out.packet)
                  /\ Normal(out) => out.length = Len(out.packet.data)
                  /\ Ended(out) => Past
    /\ txPc \in Early => /\ packets_received = 0
                         /\ \A i \in 1..Len(toRx) : ~IsPacket(toRx[i])
                         /\ Pending => ~IsPacket(out.packet)

(* Behind the first packet no CA is followed by another one while blocks   *)
(* are sent: noise does not end the session with an ACK.                   *)
Clean(m) ==
    \A i \in 1..Len(toRx) :
        i > m /\ toRx[i].ch = CA => i < Len(toRx) /\ toRx[i + 1].ch # CA

Begun == packets_received >= 1 \/ (Pending /\ Normal(out))

Pairs ==
    txPc \in Sending =>
        /\ \A m \in 1..Len(toRx) : IsPacket(toRx[m]) => Clean(m)
        /\ Begun => Clean(0)
        /\ packets_received >= 1 /\ Pending => ~Aborted(out)

(* An ACK on its way is that for the packet the transmitter waits for, or  *)
(* the last word of a receiver that has given up before it began.          *)
Upstream ==
    /\ txPc \in Early \cup Sending =>
          \A i \in 1..Len(toTx) : toTx[i].ch = ACK =>
              \/ /\ packets_received = acked + 1
                 /\ \A j \in 1..Len(toTx) : toTx[j].ch = ACK => j = i
              \/ packets_received = 0 /\ rxPc = "done" /\ i = Len(toTx)
    /\ txPc \in Sending =>
          \/ packets_received = acked
          \/ packets_received = acked + 1
          \/ txPc = "nameC" /\ packets_received = 0 /\ rxPc = "done" /\ toTx = <<>>

IInv == Types /\ Sender /\ Receiver /\ Downstream /\ Pairs /\ Upstream

------------------------------------------------------------------------------
(* What a step adds to the line.                                           *)
LEMMA AnswerFacts ==
    ASSUME toTx \in Seq(Items), NEW bytes \in Seq(Int),
           \A j \in 1..Len(bytes) : bytes[j] \notin {SOH, STX}, R!Answer(bytes)
    PROVE  toRx' = toRx /\ \E r : Babble(r, bytes) /\ toTx' = toTx \o r
<1>1. toRx' = toRx
  BY DEF R!Answer
<1>2. PICK a \in R!Arrivals(R!Controls(bytes)) :
          toTx' = IF txRunning THEN toTx \o a[1] ELSE toTx
  BY DEF R!Answer
<1>3. Babble(a[1], bytes)
  BY <1>2, SameLine, ControlArrivals
<1>4. Babble(<<>>, bytes)
  BY DEF Babble
<1>5. toTx \o <<>> = toTx
  OBVIOUS
<1> QED BY <1>1, <1>2, <1>3, <1>4, <1>5

(* Answers without an ACK, and with one.                                   *)
NoNewAck ==
    /\ toTx' \in Seq(Items)
    /\ \A i \in 1..Len(toTx') :
          toTx'[i].ch = ACK => i \in 1..Len(toTx) /\ toTx[i].ch = ACK

OneNewAck ==
    /\ toTx' \in Seq(Items)
    /\ \A i \in 1..Len(toTx') :
          toTx'[i].ch = ACK => i = Len(toTx) + 1 \/ (i \in 1..Len(toTx) /\ toTx[i].ch = ACK)

(* An answer without an ACK adds none to what the transmitter will hear,   *)
(* for noise is not an ACK.                                                *)
LEMMA OtherAnswer ==
    ASSUME Honest, toTx \in Seq(Items), NEW bytes \in Seq(Int),
           \A j \in 1..Len(bytes) : bytes[j] \notin {SOH, STX, ACK}, R!Answer(bytes)
    PROVE  toRx' = toRx /\ NoNewAck
<1>1. PICK r : Babble(r, bytes) /\ toTx' = toTx \o r
  BY AnswerFacts
<1>2. /\ toTx' \in Seq(Items) /\ Len(toTx') = Len(toTx) + Len(r)
      /\ Len(toTx) \in Nat /\ Len(r) \in Nat
      /\ \A i \in 1..(Len(toTx) + Len(r)) :
            toTx'[i] = IF i <= Len(toTx) THEN toTx[i] ELSE r[i - Len(toTx)]
  BY <1>1, Concatenated DEF Babble
<1>3. \A i \in 1..Len(r) : r[i].ch # ACK
  BY <1>1 DEF Babble, Honest
<1>4. ASSUME NEW i \in 1..Len(toTx'), toTx'[i].ch = ACK
      PROVE  i \in 1..Len(toTx) /\ toTx[i].ch = ACK
  <2>1. CASE i <= Len(toTx)
    BY <1>2, <1>4, <2>1
  <2>2. CASE ~(i <= Len(toTx))
    <3>1. i - Len(toTx) \in 1..Len(r) /\ toTx'[i] = r[i - Len(toTx)]
      BY <1>2, <2>2
    <3> QED BY <1>3, <1>4, <3>1
  <2> QED BY <2>1, <2>2
<1> QED BY <1>2, <1>4, AnswerFacts DEF NoNewAck

(* An answer with an ACK adds one at most, the first item of the answer.   *)
LEMMA AckAnswer ==
    ASSUME Honest, toTx \in Seq(Items), NEW bytes \in {<<ACK>>, <<ACK, CRC16>>}, R!Answer(bytes)
    PROVE  /\ toRx' = toRx /\ OneNewAck
           /\ bytes = <<ACK>> => Len(toTx') <= Len(toTx) + 1
<1>1. /\ bytes \in Seq(Int) /\ Len(bytes) \in {1, 2} /\ (bytes = <<ACK>> => Len(bytes) = 1)
      /\ \A j \in 1..Len(bytes) : bytes[j] \notin {SOH, STX} /\ (bytes[j] = ACK => j = 1)
  <2>1. CASE bytes = <<ACK>>
    <3>1. bytes \in Seq(Int) /\ Len(bytes) = 1 /\ bytes[1] = ACK
      BY <2>1 DEF ACK
    <3> QED BY <3>1 DEF ACK, SOH, STX
  <2>2. CASE bytes = <<ACK, CRC16>>
    <3>1. bytes \in Seq(Int) /\ Len(bytes) = 2 /\ bytes[1] = ACK /\ bytes[2] = CRC16
      BY <2>2 DEF ACK, CRC16
    <3>2. bytes # <<ACK>>
      <4>1. Len(<<ACK>>) = 1
        OBVIOUS
      <4> QED BY <3>1, <4>1
    <3> QED BY <3>1, <3>2 DEF ACK, CRC16, SOH, STX
  <2> QED BY <2>1, <2>2
<1>2. PICK r : Babble(r, bytes) /\ toTx' = toTx \o r
  BY <1>1, AnswerFacts
<1>3. /\ toTx' \in Seq(Items) /\ Len(toTx') = Len(toTx) + Len(r)
      /\ Len(toTx) \in Nat /\ Len(r) \in Nat /\ Len(r) <= Len(bytes)
      /\ \A i \in 1..(Len(toTx) + Len(r)) :
            toTx'[i] = IF i <= Len(toTx) THEN toTx[i] ELSE r[i - Len(toTx)]
  BY <1>2, Concatenated DEF Babble
<1>4. ASSUME NEW i \in 1..Len(r), r[i].ch = ACK PROVE i = 1
  <2>1. PICK j \in 1..Len(bytes) : j >= i /\ r[i].ch = bytes[j]
    BY <1>2, <1>4 DEF Babble, Honest
  <2> QED BY <1>1, <1>4, <2>1
<1>5. ASSUME NEW i \in 1..Len(toTx'), toTx'[i].ch = ACK
      PROVE  i = Len(toTx) + 1 \/ (i \in 1..Len(toTx) /\ toTx[i].ch = ACK)
  <2>1. CASE i <= Len(toTx)
    BY <1>3, <1>5, <2>1
  <2>2. CASE ~(i <= Len(toTx))
    <3>1. i - Len(toTx) \in 1..Len(r) /\ toTx'[i] = r[i - Len(toTx)]
      BY <1>3, <2>2
    <3>2. i - Len(toTx) = 1
      BY <1>4, <1>5, <3>1
    <3> QED BY <1>3, <3>2
  <2> QED BY <2>1, <2>2
<1>6. bytes = <<ACK>> => Len(toTx') <= Len(toTx) + 1
  BY <1>1, <1>3
<1>7. toRx' = toRx
  BY <1>1, AnswerFacts
<1> QED BY <1>3, <1>5, <1>6, <1>7 DEF OneNewAck

(* What the transmitter says: control bytes, or a packet.                  *)
LEMMA SayControls ==
    ASSUME toRx \in Seq(Items), NEW bytes \in Seq(Int),
           \A j \in 1..Len(bytes) : bytes[j] \notin {SOH, STX}, T!Say(T!Controls(bytes))
    PROVE  \E r : Babble(r, bytes) /\ toRx' = toRx \o r
<1>1. PICK a \in T!Arrivals(T!Controls(bytes)) :
          toRx' = IF rxRunning THEN toRx \o a[1] ELSE toRx
  BY DEF T!Say
<1>2. Babble(a[1], bytes)
  BY <1>1, SameLine, ControlArrivals
<1>3. Babble(<<>>, bytes) /\ toRx \o <<>> = toRx
  BY DEF Babble
<1> QED BY <1>1, <1>2, <1>3

(* A packet that the transmitter sends is delivered, or the receiver is    *)
(* not there.                                                              *)
LEMMA SayPacket ==
    ASSUME toRx \in Seq(Items), NEW item \in Items, IsPacket(item), T!Say(<<item>>)
    PROVE  \E r : Delivery(r, item) /\ toRx' = toRx \o r
<1>1. PICK a \in T!Arrivals(<<item>>) :
          toRx' = IF rxRunning THEN toRx \o a[1] ELSE toRx
  BY DEF T!Say
<1>2. Delivery(a[1], item)
  BY <1>1, SameLine, PacketArrivals
<1>3. Delivery(<<>>, item) /\ toRx \o <<>> = toRx
  BY DEF Delivery, Apart
<1> QED BY <1>1, <1>2, <1>3

------------------------------------------------------------------------------
(* The receiver takes something from the line, or waits in vain.           *)
OutRecords == [ret : Int, length : Int, packet : Items]

Heard(first, second, o) ==
    \/ /\ IsPacket(first)
       /\ o.ret = 0 /\ o.packet = first
       /\ o.length = IF first.sound THEN Len(first.data) ELSE -2
    \/ first.ch = EOT /\ o.ret = 0 /\ o.length = 0 /\ ~IsPacket(o.packet)
    \/ /\ first.ch = CA /\ second.ch = CA
       /\ o.ret = 0 /\ o.length = -1 /\ ~IsPacket(o.packet)
    \/ o.ret # 0 /\ ~IsPacket(o.packet)

(* What is left of the line: the first d items are gone, and the next one  *)
(* may have lost its first byte.                                           *)
Shifted(d) ==
    /\ d \in Nat /\ toRx' \in Seq(Items) /\ Len(toRx') + d = Len(toRx)
    /\ \A i \in 1..Len(toRx') : toRx'[i] = toRx[i + d] \/ (i = 1 /\ toRx'[i].ch = JUNK)

Listened(d) ==
    /\ rxPc # "done" /\ rxPc' \in {"packet", "consume", "handle"}
    /\ toTx' = toTx /\ UNCHANGED <<eof_cnt, packets_received, file_len, rxSize, rxFs>>
    /\ Shifted(d)
    /\ out' \in OutRecords
    /\ \/ ~(Pending')
       \/ Pending /\ out' = out
       \/ out'.ret # 0 /\ ~IsPacket(out'.packet)
       \/ /\ Len(toRx) >= 1 /\ (toRx[1].ch = CA => Len(toRx) >= 2)
          /\ IsPacket(toRx[1]) => d = 1
          /\ Heard(toRx[1], toRx[2], out')

(* The record of Receive_Packet's results.                                 *)
LEMMA OutcomeFacts ==
    ASSUME NEW r \in Int, NEW l \in Int, NEW packet \in Items
    PROVE  LET o == R!Outcome(r, l, packet)
           IN o \in OutRecords /\ o.ret = r /\ o.length = l /\ o.packet = packet
BY DEF R!Outcome, OutRecords

(* What stands for no packet is none.                                      *)
LEMMA NoPacketFacts == R!NoPacket \in Items /\ ~IsPacket(R!NoPacket)
<1>1. R!NoPacket = Control(JUNK)
  BY SameLine DEF R!NoPacket, R!JUNK, JUNK
<1> QED BY <1>1, ControlType DEF IsPacket, JUNK, SOH, STX

(* Receive_Packet says what it has heard: the size of a packet only if it  *)
(* passes the check, 0 only for an EOT, -1 only for two CAs.               *)
LEMMA ReceivePacketFacts ==
    ASSUME toRx \in Seq(Items), Len(toRx) >= 1, toRx[1].ch = CA => Len(toRx) >= 2
    PROVE  R!Receive_Packet \in OutRecords /\ Heard(toRx[1], toRx[2], R!Receive_Packet)
<1> DEFINE first == toRx[1]
           o == R!Receive_Packet
<1>1. first \in Items /\ Len(first.data) \in Nat /\ first.data \in Seq(Int)
  <2>1. first \in Items
    OBVIOUS
  <2>2. first.data \in Seq(Int)
    BY <2>1 DEF Items
  <2> QED BY <2>1, <2>2
<1>2. o = CASE IsPacket(first) ->
                 IF first.sound
                 THEN R!Outcome(0, Len(first.data), first)
                 ELSE R!Outcome(0, -2, first)
          [] first.ch = EOT -> R!Outcome(0, 0, R!NoPacket)
          [] first.ch = CA ->
                 IF toRx[2].ch = CA THEN R!Outcome(0, -1, R!NoPacket)
                                    ELSE R!Outcome(-1, 0, R!NoPacket)
          [] first.ch = ABORT1 -> R!Outcome(-2, 0, R!NoPacket)
          [] OTHER -> R!Outcome(-1, 0, R!NoPacket)
  BY SameLine DEF R!Receive_Packet, R!EOT, R!CA, R!ABORT1, EOT, CA, ABORT1
<1> HIDE DEF o
<1>3. CASE IsPacket(first)
  <2>1. o = R!Outcome(0, IF first.sound THEN Len(first.data) ELSE -2, first)
    <3>1. first.ch # EOT /\ first.ch # CA /\ first.ch # ABORT1
      BY <1>3 DEF IsPacket, SOH, STX, EOT, CA, ABORT1
    <3> QED BY <1>2, <1>3, <3>1
  <2>2. /\ o \in OutRecords /\ o.ret = 0 /\ o.packet = first
        /\ o.length = IF first.sound THEN Len(first.data) ELSE -2
    BY <1>1, <2>1, OutcomeFacts
  <2> QED BY <1>3, <2>2 DEF Heard, o
<1>4. CASE ~IsPacket(first) /\ first.ch = EOT
  <2>1. o = R!Outcome(0, 0, R!NoPacket)
    BY <1>2, <1>4 DEF EOT, CA, ABORT1
  <2>2. o \in OutRecords /\ o.ret = 0 /\ o.length = 0 /\ ~IsPacket(o.packet)
    BY <2>1, OutcomeFacts, NoPacketFacts
  <2> QED BY <1>4, <2>2 DEF Heard, o
<1>5. CASE ~IsPacket(first) /\ first.ch = CA /\ toRx[2].ch = CA
  <2>1. o = R!Outcome(0, -1, R!NoPacket)
    BY <1>2, <1>5 DEF EOT, CA, ABORT1
  <2>2. o \in OutRecords /\ o.ret = 0 /\ o.length = -1 /\ ~IsPacket(o.packet)
    BY <2>1, OutcomeFacts, NoPacketFacts
  <2> QED BY <1>5, <2>2 DEF Heard, o
<1>6. CASE ~IsPacket(first) /\ first.ch # EOT /\ ~(first.ch = CA /\ toRx[2].ch = CA)
  <2>1. o \in {R!Outcome(-1, 0, R!NoPacket), R!Outcome(-2, 0, R!NoPacket)}
    BY <1>2, <1>6 DEF EOT, CA, ABORT1
  <2>2. o \in OutRecords /\ o.ret # 0 /\ ~IsPacket(o.packet)
    BY <2>1, OutcomeFacts, NoPacketFacts
  <2> QED BY <2>2 DEF Heard, o
<1> QED BY <1>3, <1>4, <1>5, <1>6

(* A sequence without its first two elements.                               *)
LEMMA RestFacts ==
    ASSUME NEW S, NEW s \in Seq(S), Len(s) >= 2
    PROVE  LET rest == Tail(Tail(s))
           IN /\ rest \in Seq(S) /\ Len(rest) \in Nat /\ Len(rest) + 2 = Len(s)
              /\ \A i \in 1..Len(rest) : rest[i] = s[i + 2]
<1> DEFINE t == Tail(s)
<1>1. /\ t \in Seq(S) /\ Len(t) \in Nat /\ Len(t) + 1 = Len(s) /\ Len(t) >= 1
      /\ \A i \in 1..Len(t) : t[i] = s[i + 1]
  OBVIOUS
<1> HIDE DEF t
<1>2. /\ Tail(t) \in Seq(S) /\ Len(Tail(t)) \in Nat /\ Len(Tail(t)) + 1 = Len(t)
      /\ \A i \in 1..Len(Tail(t)) : Tail(t)[i] = t[i + 1]
  BY <1>1
<1>3. ASSUME NEW i \in 1..Len(Tail(t)) PROVE Tail(t)[i] = s[i + 2]
  <2>1. i + 1 \in 1..Len(t) /\ (i + 1) + 1 = i + 2
    BY <1>1, <1>2
  <2>2. t[i + 1] = s[(i + 1) + 1]
    BY <1>1, <2>1
  <2> QED BY <1>2, <2>1, <2>2
<1>4. Len(Tail(t)) + 2 = Len(s)
  BY <1>1, <1>2
<1> QED BY <1>2, <1>3, <1>4 DEF t

(* It takes one item off the line, or two that begin with a CA.            *)
LEMMA TakenFacts ==
    ASSUME toRx \in Seq(Items), Len(toRx) >= 1, toRx[1].ch = CA => Len(toRx) >= 2,
           toRx' = R!Taken
    PROVE  Shifted(1) \/ (Shifted(2) /\ toRx[1].ch = CA)
<1>1. toRx' = CASE toRx[1].ch # CA -> Tail(toRx)
              [] toRx[1].ch = CA /\ IsPacket(toRx[2]) -> <<Control(JUNK)>> \o Tail(Tail(toRx))
              [] OTHER -> Tail(Tail(toRx))
  BY SameLine DEF R!Taken, R!CA, CA, R!JUNK, JUNK
<1>2. CASE toRx[1].ch # CA
  <2>1. toRx' = Tail(toRx)
    BY <1>1, <1>2
  <2> QED BY <2>1 DEF Shifted
<1>3. CASE toRx[1].ch = CA /\ IsPacket(toRx[2])
  <2> DEFINE rest == Tail(Tail(toRx))
  <2>1. toRx' = <<Control(JUNK)>> \o rest
    BY <1>1, <1>3
  <2>2. /\ rest \in Seq(Items) /\ Len(rest) + 2 = Len(toRx)
        /\ \A i \in 1..Len(rest) : rest[i] = toRx[i + 2]
    BY <1>3, RestFacts
  <2>3. <<Control(JUNK)>> \in Seq(Items) /\ Len(<<Control(JUNK)>>) = 1 /\ Control(JUNK).ch = JUNK
    BY ControlType
  <2> HIDE DEF rest
  <2>4. /\ toRx' \in Seq(Items) /\ Len(toRx') = 1 + Len(rest)
        /\ \A i \in 1..(1 + Len(rest)) :
              toRx'[i] = IF i <= 1 THEN <<Control(JUNK)>>[i] ELSE rest[i - 1]
    BY <2>1, <2>2, <2>3, Concatenated
  <2>5. Len(rest) \in Nat /\ Len(toRx) \in Nat
    BY <2>2
  <2>6. ASSUME NEW i \in 1..Len(toRx')
        PROVE  toRx'[i] = toRx[i + 1] \/ (i = 1 /\ toRx'[i].ch = JUNK)
    <3>1. CASE i = 1
      <4>1. toRx'[i] = <<Control(JUNK)>>[1]
        BY <2>4, <2>5, <3>1
      <4> QED BY <2>3, <3>1, <4>1
    <3>2. CASE i # 1
      <4>1. i - 1 \in 1..Len(rest) /\ toRx'[i] = rest[i - 1] /\ (i - 1) + 2 = i + 1
        BY <2>4, <2>5, <3>2
      <4>2. rest[i - 1] = toRx[(i - 1) + 2]
        BY <2>2, <4>1
      <4> QED BY <4>1, <4>2
    <3> QED BY <3>1, <3>2
  <2>7. Len(toRx') + 1 = Len(toRx)
    BY <2>2, <2>4, <2>5
  <2> QED BY <2>4, <2>6, <2>7 DEF Shifted
<1>4. CASE toRx[1].ch = CA /\ ~IsPacket(toRx[2])
  <2> DEFINE rest == Tail(Tail(toRx))
  <2>1. toRx' = rest
    BY <1>1, <1>4
  <2>2. /\ rest \in Seq(Items) /\ Len(rest) + 2 = Len(toRx)
        /\ \A i \in 1..Len(rest) : rest[i] = toRx[i + 2]
    BY <1>4, RestFacts
  <2> QED BY <1>4, <2>1, <2>2 DEF Shifted
<1> QED BY <1>2, <1>3, <1>4

(* Every step in which the receiver listens is one of Listened.            *)
LEMMA ListenFacts ==
    ASSUME Types, R!Start \/ R!Take \/ R!Timeout \/ R!uart_consume
    PROVE  \E d : Listened(d)
<1>1. /\ toRx \in Seq(Items) /\ Len(toRx) \in Nat /\ out \in OutRecords
      /\ (toRx # <<>> => Len(toRx) >= 1)
  BY DEF Types, OutRecords
<1>2. Shifted(0) \/ toRx' # toRx
  BY <1>1 DEF Shifted
<1>3. toRx' = <<>> => Shifted(Len(toRx))
  BY <1>1 DEF Shifted
<1>4. CASE R!Start
  <2>1. /\ rxPc = "off" /\ rxPc' = "packet" /\ toRx' = toRx /\ toTx' = toTx /\ out' = out
        /\ UNCHANGED <<eof_cnt, packets_received, file_len, rxSize, rxFs>>
    BY <1>4 DEF R!Start, R!counters
  <2> QED BY <1>1, <1>2, <2>1 DEF Listened, Pending
<1>5. CASE R!Take
  <2>1. /\ rxPc = "packet" /\ rxPc' \in {"consume", "handle"} /\ toTx' = toTx
        /\ UNCHANGED <<eof_cnt, packets_received, file_len, rxSize, rxFs>>
        /\ out' = R!Receive_Packet /\ toRx' = R!Taken
        /\ toRx # <<>> /\ (toRx[1].ch = CA => Len(toRx) > 1)
    BY <1>5 DEF R!Take, R!Complete, R!counters, R!CA, CA
  <2>2. Len(toRx) >= 1 /\ (toRx[1].ch = CA => Len(toRx) >= 2)
    BY <1>1, <2>1
  <2>3. out' \in OutRecords /\ Heard(toRx[1], toRx[2], out')
    BY <1>1, <2>1, <2>2, ReceivePacketFacts
  <2>4. PICK d : Shifted(d) /\ (toRx[1].ch # CA => d = 1)
    BY <1>1, <2>1, <2>2, TakenFacts
  <2>5. IsPacket(toRx[1]) => d = 1
    BY <2>4 DEF IsPacket, SOH, STX, CA
  <2> QED BY <2>1, <2>2, <2>3, <2>4, <2>5 DEF Listened
<1>6. CASE R!Timeout
  <2>1. /\ rxPc = "packet" /\ rxPc' = "handle" /\ toTx' = toTx
        /\ UNCHANGED <<eof_cnt, packets_received, file_len, rxSize, rxFs>>
        /\ out' = R!Outcome(IF toRx = <<>> THEN -1 ELSE -2, 0, R!NoPacket) /\ toRx' = <<>>
    BY <1>6 DEF R!Timeout, R!counters
  <2>2. out' \in OutRecords /\ out'.ret # 0 /\ ~IsPacket(out'.packet)
    BY <2>1, OutcomeFacts, NoPacketFacts
  <2> QED BY <1>3, <2>1, <2>2 DEF Listened
<1>7. CASE R!uart_consume
  <2>1. /\ rxPc = "consume" /\ rxPc' \in {"consume", "handle"} /\ toTx' = toTx
        /\ UNCHANGED <<eof_cnt, packets_received, file_len, rxSize, rxFs, out>>
        /\ toRx' = <<>> \/ toRx' = toRx
    BY <1>7 DEF R!uart_consume, R!counters
  <2> QED BY <1>1, <1>2, <1>3, <2>1 DEF Listened, Pending
<1> QED BY <1>4, <1>5, <1>6, <1>7

(* The facts about a record of out that the invariant asks for.            *)
LEMMA ListenKeeps ==
    ASSUME IInv, NEW d, Listened(d), UNCHANGED <<txOwn, file>>
    PROVE  IInv'
<1> USE DEF IInv
<1>1. /\ rxPc # "done" /\ rxPc' \in {"packet", "consume", "handle"}
      /\ toTx' = toTx /\ UNCHANGED <<eof_cnt, packets_received, file_len, rxSize, rxFs>>
      /\ UNCHANGED <<txPc, err, waited, blkNumber, txSize, packet_data, txFs, ret, file>>
      /\ out' \in OutRecords
  BY DEF Listened, txOwn
<1>2. /\ d \in Nat /\ toRx' \in Seq(Items) /\ Len(toRx') + d = Len(toRx)
      /\ \A i \in 1..Len(toRx') : toRx'[i] = toRx[i + d] \/ (i = 1 /\ toRx'[i].ch = JUNK)
      /\ Len(toRx) \in Nat /\ Len(toRx') \in Nat
  BY DEF Listened, Shifted, Types
<1>3. Types'
  BY <1>1, <1>2 DEF Types, OutRecords, Units
<1>4. Sender'
  BY <1>1 DEF Sender, Units, Delivered, Smaller, Reading, BlockOf
<1>5. Receiver'
  BY <1>1 DEF Receiver, Units, Smaller, Delivered, Past, Kept, Writing, Holds, Types
<1>6. Upstream'
  BY <1>1 DEF Upstream, acked
<1>7. ASSUME 1 \in 1..Len(toRx) PROVE Len(toRx[1].data) \in Nat
  <2>1. toRx[1] \in Items
    BY <1>7 DEF Types
  <2>2. toRx[1].data \in Seq(Int)
    BY <2>1 DEF Items
  <2> QED BY <2>2
<1>8. UNCHANGED <<Units, Delivered, acked, Past>> /\ \A k : BlockOf(k)' = BlockOf(k)
  BY <1>1 DEF Units, Delivered, acked, Past, BlockOf
<1>9. ASSUME NEW i \in 1..Len(toRx')
      PROVE  \/ i + d \in 1..Len(toRx) /\ toRx'[i] = toRx[i + d]
             \/ i = 1 /\ toRx'[i].ch = JUNK
  BY <1>2
<1>10. ASSUME NEW i \in 1..Len(toRx')
      PROVE  /\ Genuine(toRx[i])' /\ (toRx'[i].ch = EOT => Past')
             /\ (IsPacket(toRx'[i]) => i + d \in 1..Len(toRx) /\ toRx'[i] = toRx[i + d])
  <2>1. CASE i + d \in 1..Len(toRx) /\ toRx'[i] = toRx[i + d]
    <3>1. Genuine(toRx[i + d]) /\ (toRx[i + d].ch = EOT => Past)
      BY <2>1 DEF Downstream
    <3> QED BY <1>1, <1>8, <2>1, <3>1 DEF Genuine
  <2>2. CASE i = 1 /\ toRx'[i].ch = JUNK
    BY <2>2 DEF Genuine, IsPacket, SOH, STX, JUNK, EOT
  <2> QED BY <1>9, <2>1, <2>2
<1>11. ASSUME Pending'
       PROVE  \/ Pending /\ out' = out
              \/ out'.ret # 0 /\ ~IsPacket(out'.packet)
              \/ /\ 1 \in 1..Len(toRx) /\ (toRx[1].ch = CA => 2 \in 1..Len(toRx))
                 /\ IsPacket(toRx[1]) => d = 1
                 /\ Heard(toRx[1], toRx[2], out')
  BY <1>2, <1>11 DEF Listened
<1>12. ASSUME Pending'
       PROVE  /\ Genuine(out.packet)'
              /\ (Normal(out') => out'.length = Len(out'.packet.data))
              /\ (Ended(out') => Past')
              /\ (txPc \in Early => ~IsPacket(out'.packet))
  <2>1. CASE Pending /\ out' = out
    <3>1. Genuine(out.packet) /\ (Normal(out) => out.length = Len(out.packet.data))
          /\ (Ended(out) => Past) /\ (txPc \in Early => ~IsPacket(out.packet))
      BY <2>1 DEF Downstream
    <3> QED BY <1>1, <1>8, <2>1, <3>1 DEF Genuine
  <2>2. CASE out'.ret # 0 /\ ~IsPacket(out'.packet)
    BY <2>2 DEF Genuine, Normal, Ended
  <2>3. CASE 1 \in 1..Len(toRx) /\ Heard(toRx[1], toRx[2], out')
    <3>1. Genuine(toRx[1]) /\ (toRx[1].ch = EOT => Past)
          /\ (txPc \in Early => ~IsPacket(toRx[1]))
      BY <2>3 DEF Downstream
    <3>2. Genuine(out.packet)'
      BY <1>1, <1>8, <2>3, <3>1 DEF Genuine, Heard
    <3>3. Normal(out') => out'.length = Len(out'.packet.data)
      BY <2>3 DEF Normal, Heard
    <3>4. Ended(out') => Past'
      BY <1>8, <1>7, <2>3, <3>1 DEF Ended, Normal, Heard
    <3> QED BY <2>3, <3>1, <3>2, <3>3, <3>4 DEF Heard
  <2> QED BY <1>11, <1>12, <2>1, <2>2, <2>3
<1>13. Downstream'
  <2>1. ASSUME txPc' \in Early, NEW i \in 1..Len(toRx') PROVE ~IsPacket(toRx'[i])
    BY <1>1, <1>10, <2>1 DEF Downstream
  <2>2. txPc' \in Early => packets_received' = 0
    BY <1>1 DEF Downstream
  <2> QED BY <1>1, <1>10, <1>12, <2>1, <2>2 DEF Downstream
<1>14. ASSUME txPc \in Sending, NEW m \in Nat, Clean(m + d)
       PROVE  Clean(m)'
  <2> SUFFICES ASSUME NEW i \in 1..Len(toRx'), i > m, toRx'[i].ch = CA
               PROVE  i < Len(toRx') /\ toRx'[i + 1].ch # CA
    BY DEF Clean
  <2>1. i + d \in 1..Len(toRx) /\ toRx'[i] = toRx[i + d]
    BY <1>9 DEF JUNK, CA
  <2>2. i + d < Len(toRx) /\ toRx[i + d + 1].ch # CA
    BY <1>2, <1>14, <2>1 DEF Clean
  <2>3. i + 1 \in 1..Len(toRx') /\ i + 1 # 1
    BY <1>2, <2>2
  <2>4. toRx'[i + 1] = toRx[(i + 1) + d]
    BY <1>9, <2>3
  <2>5. (i + 1) + d = i + d + 1 /\ i < Len(toRx')
    BY <1>2, <2>3
  <2> QED BY <2>2, <2>4, <2>5
<1>15. ASSUME txPc \in Sending, Clean(0) PROVE Clean(d)
  BY <1>2, <1>15 DEF Clean
<1>16. Pairs'
  <2> SUFFICES ASSUME txPc \in Sending
               PROVE  /\ \A m \in 1..Len(toRx') : IsPacket(toRx'[m]) => Clean(m)'
                      /\ Begun' => Clean(0)'
                      /\ packets_received' >= 1 /\ Pending' => ~Aborted(out')
    BY <1>1 DEF Pairs
  <2>1. ASSUME NEW m \in 1..Len(toRx'), IsPacket(toRx'[m]) PROVE Clean(m)'
    <3>1. m + d \in 1..Len(toRx) /\ IsPacket(toRx[m + d])
      BY <1>10, <2>1
    <3>2. Clean(m + d)
      BY <3>1 DEF Pairs
    <3> QED BY <1>14, <3>2
  <2>2. ASSUME Clean(0) PROVE Clean(0)'
    <3>1. Clean(0 + d)
      BY <1>2, <1>15, <2>2
    <3> QED BY <1>14, <3>1
  <2>3. Begun' => Clean(0)'
    <3>1. CASE Begun
      BY <2>2, <3>1 DEF Pairs
    <3>2. CASE Begun' /\ ~Begun
      <4>1. Pending' /\ Normal(out') /\ ~(Pending /\ Normal(out))
        BY <1>1, <3>2 DEF Begun
      <4>2. 1 \in 1..Len(toRx) /\ IsPacket(toRx[1]) /\ d = 1
        BY <1>11, <4>1 DEF Normal, Heard
      <4>3. Clean(1)
        BY <4>2 DEF Pairs
      <4>4. Clean(0 + d)
        BY <4>2, <4>3
      <4> QED BY <1>14, <4>4
    <3> QED BY <3>1, <3>2
  <2>4. ASSUME packets_received' >= 1, Pending' PROVE ~Aborted(out')
    <3>1. Clean(0) /\ packets_received >= 1
      BY <1>1, <2>4 DEF Pairs, Begun
    <3>2. CASE Pending /\ out' = out
      BY <3>1, <3>2 DEF Pairs
    <3>3. CASE out'.ret # 0
      BY <3>3 DEF Aborted
    <3>4. CASE /\ 1 \in 1..Len(toRx) /\ (toRx[1].ch = CA => 2 \in 1..Len(toRx))
               /\ Heard(toRx[1], toRx[2], out')
      <4>1. ~(toRx[1].ch = CA /\ toRx[2].ch = CA)
        BY <3>1, <3>4 DEF Clean
      <4> QED BY <1>7, <3>4, <4>1 DEF Aborted, Heard
    <3> QED BY <1>11, <2>4, <3>2, <3>3, <3>4
  <2> QED BY <2>1, <2>3, <2>4
<1> QED BY <1>3, <1>4, <1>5, <1>6, <1>13, <1>16

------------------------------------------------------------------------------
(* The receiver acts on what it has heard.  What a step of it keeps when   *)
(* it answers without an ACK, after the end of the file, with an ACK for   *)
(* the packet it has taken, or with one for the abort of a session that    *)
(* has not begun.                                                          *)
Answers ==
    \/ NoNewAck /\ packets_received' = packets_received
    \/ txPc \in Ending \cup {"done"} /\ toTx' \in Seq(Items)
    \/ OneNewAck /\ packets_received = acked /\ packets_received' = packets_received + 1
    \/ /\ OneNewAck /\ Len(toTx') <= Len(toTx) + 1
       /\ packets_received = 0 /\ packets_received' = 0 /\ rxPc' = "done"

(* A step of the receiver that acts on what it has heard keeps the         *)
(* invariant if it keeps what the receiver has, loses nothing delivered,   *)
(* and says ACK only for a packet it has just counted.                     *)
LEMMA HandleKeeps ==
    ASSUME IInv, UNCHANGED <<txOwn, file>>, rxPc = "handle", rxPc' \in {"packet", "done"},
           toRx' = toRx, out' = out,
           packets_received' \in Nat, file_len' \in Nat, eof_cnt' \in Nat,
           rxPc' # "done" => rxFs' \in VolumeRecords,
           Receiver', Delivered => Delivered', packets_received' >= 1 => Begun, Answers
    PROVE  IInv'
<1> USE DEF IInv
<1>1. UNCHANGED <<txPc, err, waited, blkNumber, txSize, packet_data, txFs, ret, file>>
  BY DEF txOwn
<1>2. /\ toTx \in Seq(Items) /\ toTx' \in Seq(Items) /\ Len(toTx) \in Nat /\ Len(toTx') \in Nat
      /\ packets_received \in Nat /\ acked \in Nat
  BY DEF Types, Answers, NoNewAck, OneNewAck, acked
<1>3. UNCHANGED <<Units, acked>> /\ (\A k : BlockOf(k)' = BlockOf(k)) /\ (Past => Past')
  BY <1>1 DEF Units, acked, Past, BlockOf
<1>4. Types'
  BY <1>1, <1>2 DEF Types, Units
<1>5. Sender'
  BY <1>1, <1>3 DEF Sender, Reading, Smaller
<1>6. ASSUME NEW x, Genuine(x) PROVE Genuine(x)'
  BY <1>1, <1>3, <1>6 DEF Genuine
<1>7. Downstream'
  <2>1. ASSUME NEW i \in 1..Len(toRx') PROVE Genuine(toRx[i])' /\ (toRx'[i].ch = EOT => Past')
    <3>1. Genuine(toRx[i]) /\ (toRx[i].ch = EOT => Past)
      BY DEF Downstream
    <3> QED BY <1>1, <1>3, <3>1 DEF Genuine
  <2>2. txPc' \in Early => packets_received' = 0
    BY <1>1, <1>2 DEF Downstream, Begun, Normal
  <2>3. ~(Pending')
    BY DEF Pending
  <2>4. ASSUME txPc' \in Early, NEW i \in 1..Len(toRx') PROVE ~IsPacket(toRx'[i])
    BY <1>1, <2>4 DEF Downstream
  <2> QED BY <2>1, <2>2, <2>3, <2>4 DEF Downstream
<1>8. Pairs'
  <2>1. ~(Pending')
    BY DEF Pending
  <2>2. \A m \in Nat : Clean(m) => Clean(m)'
    BY DEF Clean
  <2>3. Begun' => Begun
    BY <2>1 DEF Begun
  <2> QED BY <1>1, <2>1, <2>2, <2>3 DEF Pairs
<1>9. Upstream'
  <2> SUFFICES ASSUME txPc \in Early \cup Sending
               PROVE  Upstream'
    BY <1>1 DEF Upstream
  <2>1. txPc \notin Ending \cup {"done"}
    BY DEF Ending, Early, Sending, Naming, Blocks
  <2>2. ASSUME NEW i \in 1..Len(toTx), toTx[i].ch = ACK
        PROVE  /\ packets_received = acked + 1
               /\ \A j \in 1..Len(toTx) : toTx[j].ch = ACK => j = i
    BY <2>2 DEF Upstream
  <2>3. txPc \in Sending => packets_received \in {acked, acked + 1}
    BY DEF Upstream
  <2>4. CASE NoNewAck /\ packets_received' = packets_received
    <3>1. ASSUME NEW i \in 1..Len(toTx'), toTx'[i].ch = ACK
          PROVE  /\ packets_received = acked + 1
                 /\ \A j \in 1..Len(toTx') : toTx'[j].ch = ACK => j = i
      BY <2>2, <2>4, <3>1 DEF NoNewAck
    <3> QED BY <1>1, <1>3, <2>3, <2>4, <3>1 DEF Upstream
  <2>5. CASE OneNewAck /\ packets_received = acked /\ packets_received' = packets_received + 1
    <3>1. ASSUME NEW i \in 1..Len(toTx), toTx[i].ch = ACK PROVE FALSE
      BY <1>2, <2>2, <2>5, <3>1
    <3>2. ASSUME NEW i \in 1..Len(toTx'), toTx'[i].ch = ACK PROVE i = Len(toTx) + 1
      BY <2>5, <3>1, <3>2 DEF OneNewAck
    <3> QED BY <1>1, <1>3, <2>5, <3>2 DEF Upstream
  <2>6. CASE /\ OneNewAck /\ Len(toTx') <= Len(toTx) + 1
             /\ packets_received = 0 /\ packets_received' = 0 /\ rxPc' = "done"
    <3>1. ASSUME NEW i \in 1..Len(toTx), toTx[i].ch = ACK PROVE FALSE
      BY <1>2, <2>2, <2>6, <3>1
    <3>2. ASSUME NEW i \in 1..Len(toTx'), toTx'[i].ch = ACK PROVE i = Len(toTx')
      <4>1. i = Len(toTx) + 1
        BY <2>6, <3>1, <3>2 DEF OneNewAck
      <4> QED BY <1>2, <2>6, <4>1
    <3>3. txPc \in Sending => packets_received' = acked'
      BY <1>2, <1>3, <2>3, <2>6
    <3> QED BY <1>1, <2>6, <3>2, <3>3 DEF Upstream
  <2> QED BY <2>1, <2>4, <2>5, <2>6 DEF Answers
<1> QED BY <1>4, <1>5, <1>7, <1>8, <1>9

(* The ways it goes on, and stops.                                         *)
LEMMA GoesOn ==
    ASSUME IInv, UNCHANGED <<txOwn, file>>, rxPc = "handle", rxPc' = "packet",
           UNCHANGED <<toRx, out, packets_received, file_len, rxSize, rxFs>>,
           eof_cnt' = eof_cnt \/ (eof_cnt' \in Nat /\ Past), Answers
    PROVE  IInv'
<1>1. Delivered' = Delivered /\ Units' = Units /\ Past' = Past
  BY DEF Delivered, Units, Past, txOwn
<1>2. Receiver'
  BY <1>1 DEF IInv, Receiver, Smaller, Kept, Writing, Holds
<1>3. packets_received' >= 1 => Begun
  BY DEF Begun
<1>4. /\ packets_received' \in Nat /\ file_len' \in Nat /\ eof_cnt' \in Nat
      /\ rxFs' \in VolumeRecords
  BY DEF IInv, Types
<1> QED BY <1>1, <1>2, <1>3, <1>4, HandleKeeps

(* A receiver that returns keeps the invariant if it has written what it   *)
(* has counted and reports a size only behind an EOT.                      *)
LEMMA Stops ==
    ASSUME Honest, IInv, UNCHANGED <<txOwn, file>>, rxPc = "handle", toRx' = toRx,
           NEW result \in Int, NEW volume, R!Exit(result, volume),
           packets_received >= 1 => Writing(volume, file_len),
           result <= 0 \/ (result = rxSize /\ eof_cnt > 0), Answers
    PROVE  IInv'
<1>1. /\ rxPc' = "done" /\ rxSize' = result
      /\ UNCHANGED <<out, eof_cnt, packets_received, file_len>>
  BY DEF R!Exit
<1>2. rxFs' = lfs_cleanup(volume, TRUE)
  <2>1. R!Outcomes("close") = {TRUE}
    BY DEF R!Outcomes, Honest
  <2> QED BY <2>1, SameGlue DEF R!Exit
<1>3. Delivered' = Delivered /\ Units' = Units /\ Past' = Past
  BY <1>1 DEF Delivered, Units, Past, txOwn
<1>4. /\ packets_received \in Nat /\ file_len \in Nat /\ eof_cnt \in Nat /\ Units \in Nat
  BY DEF IInv, Types, Units
<1>5. packets_received >= 1 => Kept(rxFs', file_len)
  BY <1>2, <1>4, CleanupFacts
<1>6. result > 0 => result = Units /\ Delivered
  BY <1>4 DEF IInv, Receiver, Past, Delivered
<1>7. Receiver'
  <2>1. packets_received >= 1 =>
            /\ Units \in 1..MaxSize
            /\ file_len = Smaller((packets_received - 1) * PACKET_1K_SIZE, Units)
    BY DEF IInv, Receiver
  <2>2. eof_cnt > 0 => Past
    BY DEF IInv, Receiver
  <2> QED BY <1>1, <1>3, <1>5, <1>6, <2>1, <2>2 DEF Receiver, Kept, Holds, Smaller
<1>8. packets_received' >= 1 => Begun
  BY <1>1 DEF Begun
<1> QED BY <1>1, <1>3, <1>4, <1>7, <1>8, HandleKeeps

(* Each thing it may do.                                                   *)
LEMMA Quiet ==
    ASSUME Honest, IInv,
           NEW bytes \in {<<NAK>>, <<CRC16>>, <<CA, CA>>}, R!Answer(bytes),
           packets_received' = packets_received
    PROVE  toRx' = toRx /\ Answers
<1>1. bytes \in Seq(Int) /\ \A j \in 1..Len(bytes) : bytes[j] \notin {SOH, STX, ACK}
  <2>1. CASE bytes = <<NAK>>
    <3>1. bytes \in Seq(Int) /\ Len(bytes) = 1 /\ bytes[1] = NAK
      BY <2>1 DEF NAK
    <3> QED BY <3>1 DEF NAK, SOH, STX, ACK
  <2>2. CASE bytes = <<CRC16>>
    <3>1. bytes \in Seq(Int) /\ Len(bytes) = 1 /\ bytes[1] = CRC16
      BY <2>2 DEF CRC16
    <3> QED BY <3>1 DEF CRC16, SOH, STX, ACK
  <2>3. CASE bytes = <<CA, CA>>
    <3>1. bytes \in Seq(Int) /\ Len(bytes) = 2 /\ bytes[1] = CA /\ bytes[2] = CA
      BY <2>3 DEF CA
    <3> QED BY <3>1 DEF CA, SOH, STX, ACK
  <2> QED BY <2>1, <2>2, <2>3
<1>2. toTx \in Seq(Items)
  BY DEF IInv, Types
<1>3. toRx' = toRx /\ NoNewAck
  BY <1>1, <1>2, OtherAnswer
<1> QED BY <1>3 DEF Answers

(* While the file is written, its volume is as every exit expects it.      *)
LEMMA VolumeFacts ==
    ASSUME IInv, rxPc = "handle"
    PROVE  /\ packets_received >= 1 => Writing(rxFs, file_len)
           /\ rxFs \in VolumeRecords /\ packets_received \in Nat /\ file_len \in Nat
BY DEF IInv, Types, Receiver

(* An error that is counted, and answered or given up.                     *)
LEMMA CountErrorKeeps ==
    ASSUME Honest, IInv, UNCHANGED <<txOwn, file>>, rxPc = "handle",
           NEW limit, NEW result \in Int, result <= 0,
           NEW bytes \in {<<NAK>>, <<CRC16>>}, R!CountError(limit, result, bytes)
    PROVE  IInv'
<1>1. CASE R!Answer(<<R!CA, R!CA>>) /\ R!Exit(result, rxFs)
  <2>1. R!Answer(<<CA, CA>>) /\ packets_received' = packets_received
    BY <1>1 DEF R!CA, CA, R!Exit
  <2>2. toRx' = toRx /\ Answers
    BY <2>1, Quiet
  <2> QED BY <1>1, <2>2, VolumeFacts, Stops
<1>2. CASE /\ R!Answer(bytes) /\ R!Go
           /\ UNCHANGED <<eof_cnt, packets_received, file_len, rxSize, rxFs>>
  <2>1. toRx' = toRx /\ Answers
    BY <1>2, Quiet
  <2>2. rxPc' = "packet" /\ out' = out
    BY <1>2 DEF R!Go
  <2> QED BY <1>2, <2>1, <2>2, GoesOn
<1> QED BY <1>1, <1>2 DEF R!CountError

(* Two CAs end the session.                                                *)
LEMMA SenderAbortsKeeps ==
    ASSUME Honest, IInv, UNCHANGED <<txOwn, file>>, rxPc = "handle", R!SenderAborts
    PROVE  IInv'
<1>1. Aborted(out) /\ R!Answer(<<ACK>>) /\ R!Exit(-1, rxFs) /\ packets_received' = packets_received
  BY DEF R!SenderAborts, Aborted, R!ACK, ACK, R!Exit
<1>2. /\ toRx' = toRx /\ OneNewAck /\ Len(toTx') <= Len(toTx) + 1 /\ rxPc' = "done"
  BY <1>1, AckAnswer DEF IInv, Types, R!Exit
<1>3. packets_received = 0 \/ txPc \in Ending \cup {"done"}
  <2>1. txPc \in Early => packets_received = 0
    BY DEF IInv, Downstream
  <2>2. txPc \in Sending => ~(packets_received >= 1)
    BY <1>1 DEF IInv, Pairs, Pending
  <2> QED BY <2>1, <2>2, VolumeFacts DEF IInv, Types
<1>4. Answers
  BY <1>1, <1>2, <1>3 DEF Answers, OneNewAck
<1> QED BY <1>1, <1>2, <1>4, VolumeFacts, Stops

(* An EOT comes only when all of the file has been acknowledged.           *)
LEMMA EndOfTransmissionKeeps ==
    ASSUME Honest, IInv, UNCHANGED <<txOwn, file>>, rxPc = "handle", R!EndOfTransmission
    PROVE  IInv'
<1>1. Ended(out)
  BY SameLine DEF R!EndOfTransmission, R!IsNormal, Ended, Normal
<1>2. Past
  BY <1>1 DEF IInv, Downstream, Pending
<1>3. /\ eof_cnt' = eof_cnt + 1 /\ rxPc' = "packet" /\ out' = out
      /\ UNCHANGED <<packets_received, file_len, rxSize, rxFs>>
      /\ R!Answer(<<NAK>>) \/ R!Answer(<<ACK, CRC16>>)
  BY DEF R!EndOfTransmission, R!Go, R!NAK, NAK, R!ACK, ACK, R!CRC16, CRC16
<1>4. toRx' = toRx /\ Answers
  <2>1. CASE R!Answer(<<NAK>>)
    BY <1>3, <2>1, Quiet
  <2>2. CASE R!Answer(<<ACK, CRC16>>)
    <3>1. toRx' = toRx /\ OneNewAck
      BY <2>2, AckAnswer DEF IInv, Types
    <3> QED BY <1>2, <3>1 DEF Past, Answers, OneNewAck
  <2> QED BY <1>3, <2>1, <2>2
<1>5. eof_cnt' \in Nat
  BY <1>3 DEF IInv, Types
<1> QED BY <1>2, <1>3, <1>4, <1>5, GoesOn

(* The packet behind the EOTs is acknowledged and nothing else.            *)
LEMMA LastPacketKeeps ==
    ASSUME Honest, IInv, UNCHANGED <<txOwn, file>>, rxPc = "handle", R!LastPacket
    PROVE  IInv'
<1>1. Past
  BY DEF R!LastPacket, IInv, Receiver, Types
<1>2. /\ rxPc' = "packet" /\ R!Answer(<<ACK>>)
      /\ UNCHANGED <<out, eof_cnt, packets_received, file_len, rxSize, rxFs>>
  BY DEF R!LastPacket, R!Go, R!counters, R!ACK, ACK
<1>3. toRx' = toRx /\ OneNewAck
  BY <1>2, AckAnswer DEF IInv, Types
<1>4. Answers
  BY <1>1, <1>3 DEF Past, Answers, OneNewAck
<1> QED BY <1>2, <1>3, <1>4, GoesOn

(* A packet that is handled is the next one, as the transmitter made it.   *)
LEMMA Arrived ==
    ASSUME IInv, rxPc = "handle", R!IsNormal(out)
    PROVE  /\ Genuine(out.packet) /\ IsPacket(out.packet) /\ out.packet.sound
           /\ out.length = Len(out.packet.data) /\ Begun /\ txPc \notin Early
           /\ out.packet \in Items
<1>1. Normal(out) /\ Pending
  BY SameLine DEF R!IsNormal, Normal, Pending
<1>2. /\ Genuine(out.packet) /\ out.length = Len(out.packet.data)
      /\ (txPc \in Early => ~IsPacket(out.packet))
  BY <1>1 DEF IInv, Downstream
<1> QED BY <1>1, <1>2 DEF Normal, Begun, IInv, Types

(* This transmitter never sends a first packet without a name.             *)
LEMMA EmptyFilenameNever ==
    ASSUME IInv, rxPc = "handle", R!EmptyFilename
    PROVE  FALSE
<1>1. R!IsNormal(out) /\ out.packet.seq = packets_received % 256 /\ packets_received = 0
      /\ out.packet.data = <<>>
  BY DEF R!EmptyFilename, R!FirstPacket, R!Expected
<1>2. out.packet.seq = 0 /\ ~Delivered
  BY <1>1 DEF Delivered
<1>3. out.packet.data = <<Units>>
  BY <1>1, <1>2, Arrived DEF Genuine
<1>4. <<Units>> # <<>>
  OBVIOUS
<1> QED BY <1>1, <1>3, <1>4

(* The numbers of packets stay below the modulus of their byte.            *)
LEMMA Products ==
    ASSUME NEW a \in Nat, NEW b \in Nat, a <= b, NEW k \in Nat
    PROVE  a * k <= b * k /\ a * k \in Nat /\ b * k \in Nat /\ (a + 1) * k = a * k + k
<1>1. a * k \in Nat /\ (b - a) * k \in Nat /\ (a + 1) * k = a * k + k
  OBVIOUS
<1>2. b * k = a * k + (b - a) * k
  OBVIOUS
<1> QED BY <1>1, <1>2

(* The number of a block is not 0 and is its own byte.                     *)
LEMMA FewBlocks ==
    ASSUME Units \in 1..MaxSize, NEW n \in Nat, n * PACKET_1K_SIZE < Units
    PROVE  n < 254
<1>1. PACKET_1K_SIZE \in Nat /\ MaxSize \in Nat /\ MaxSize <= 254 * PACKET_1K_SIZE
  BY PacketAssumption, ReceiveAssumption, NumbersAssumption
<1>2. n * PACKET_1K_SIZE \in Nat /\ n * PACKET_1K_SIZE < 254 * PACKET_1K_SIZE
  BY <1>1
<1>3. CASE 254 <= n
  <2>1. 254 * PACKET_1K_SIZE <= n * PACKET_1K_SIZE
    BY <1>1, <1>3, Products
  <2> QED BY <1>1, <1>2, <2>1
<1> QED BY <1>3

(* The receiver may be one packet behind what the transmitter knows, or    *)
(* as far.                                                                 *)
LEMMA SendingNumbers ==
    ASSUME IInv, txPc \in Sending, packets_received >= 1
    PROVE  packets_received \in {acked, acked + 1} /\ acked \in 0..254
<1>1. packets_received \in {acked, acked + 1} /\ Units \in 1..MaxSize
  BY DEF IInv, Upstream, Receiver, Types
<1>2. CASE txPc \in Blocks
  <2>1. blkNumber \in Nat /\ blkNumber >= 1 /\ acked = blkNumber
        /\ txSize \in Nat /\ txSize >= 1
        /\ txSize = Units - (blkNumber - 1) * PACKET_1K_SIZE
    BY <1>2 DEF IInv, Sender, Types, acked, Blocks
  <2> DEFINE n == blkNumber - 1
             before == n * PACKET_1K_SIZE
  <2>2. n \in Nat /\ before \in Nat
    BY <2>1, PacketAssumption
  <2>3. before < Units
    <3>1. txSize = Units - before /\ Units \in Nat
      BY <1>1, <2>1
    <3> HIDE DEF before, n
    <3> QED BY <2>1, <2>2, <3>1
  <2>4. n < 254
    BY <1>1, <2>2, <2>3, FewBlocks
  <2> QED BY <1>1, <2>1, <2>4
<1>3. CASE txPc \in Naming
  BY <1>1, <1>3 DEF acked, Naming, Blocks
<1> QED BY <1>2, <1>3 DEF Sending

(* The first packet: mount, open, and the count becomes 1.                 *)
LEMMA FilenameKeeps ==
    ASSUME Honest, IInv, UNCHANGED <<txOwn, file>>, rxPc = "handle", R!Filename
    PROVE  IInv'
<1>1. /\ R!IsNormal(out) /\ out.packet.seq = packets_received % 256 /\ packets_received = 0
  BY DEF R!Filename, R!FirstPacket, R!Expected
<1>2. out.packet.seq = 0 /\ ~Delivered /\ ~Past
  BY <1>1 DEF Delivered, Past
<1>3. out.packet.data = <<Units>> /\ Begun /\ txPc \notin Early
  BY <1>1, <1>2, Arrived DEF Genuine
<1>4. out.packet.data[1] = Units /\ Units \in Nat
  BY <1>3 DEF Units, IInv, Types
<1>5. rxFs \in VolumeRecords
  BY VolumeFacts
<1>6. ASSUME NEW result \in Int, result <= 0, NEW volume, R!Answer(<<R!CA, R!CA>>),
             R!Exit(result, volume)
      PROVE  IInv'
  <2>1. R!Answer(<<CA, CA>>) /\ packets_received' = packets_received
    BY <1>6 DEF R!CA, CA, R!Exit
  <2>2. toRx' = toRx /\ Answers
    BY <2>1, Quiet
  <2> QED BY <1>1, <1>6, <2>2, Stops
<1>7. CASE Units < 1 \/ Units > MaxSize
  <2>1. /\ R!Answer(<<R!CA, R!CA>>)
        /\ R!Exit(IF Units > MaxSize THEN -9 ELSE -4, rxFs)
    BY <1>4, <1>7 DEF R!Filename
  <2> QED BY <1>6, <2>1
<1>8. CASE ~(Units < 1 \/ Units > MaxSize)
  <2>1. PICK okMount \in R!Outcomes("mount"), okOpen \in R!Outcomes("open") :
            LET mount == R!lfs_c2000_mount(rxFs, okMount)
                mounted == [mount.fs EXCEPT !.pLfs = mount.ret]
                open == R!lfs_c2000_fopen(mounted, okOpen)
            IN  CASE ~mount.ret -> R!Answer(<<R!CA, R!CA>>) /\ R!Exit(-11, mounted)
                  [] mount.ret /\ ~open.ret ->
                        R!Answer(<<R!CA, R!CA>>) /\ R!Exit(-12, open.fs)
                  [] OTHER ->
                        /\ rxFs' = [open.fs EXCEPT !.pFile = TRUE]
                        /\ rxSize' = Units /\ file_len' = 0
                        /\ packets_received' = packets_received + 1
                        /\ R!Answer(<<R!ACK, R!CRC16>>) /\ R!Go
                        /\ UNCHANGED eof_cnt
    BY <1>4, <1>8 DEF R!Filename
  <2>2. okMount \in BOOLEAN /\ okOpen \in BOOLEAN
    BY <2>1 DEF R!Outcomes
  <2> DEFINE m == Mounted(rxFs, okMount)
             open == Open(rxFs, okMount, okOpen)
             w == Opened(rxFs, okMount, okOpen)
  <2>3. lfs_c2000_mount(rxFs, okMount).ret = okMount
    BY <1>5, <2>2, MountedFacts
  <2>4. /\ R!lfs_c2000_mount(rxFs, okMount) = lfs_c2000_mount(rxFs, okMount)
        /\ R!lfs_c2000_fopen(m, okOpen) = open
    BY SameGlue DEF Open
  <2>5. open.ret \in BOOLEAN
    BY <2>2 DEF Open, lfs_c2000_fopen, Returned
  <2>6. \/ R!Answer(<<R!CA, R!CA>>) /\ R!Exit(-11, m)
        \/ R!Answer(<<R!CA, R!CA>>) /\ R!Exit(-12, open.fs)
        \/ /\ open.ret = TRUE
           /\ rxFs' = [open.fs EXCEPT !.pFile = TRUE]
           /\ rxSize' = Units /\ file_len' = 0
           /\ packets_received' = packets_received + 1
           /\ R!Answer(<<R!ACK, R!CRC16>>) /\ R!Go
           /\ UNCHANGED eof_cnt
    <3> HIDE DEF open
    <3> QED BY <2>1, <2>2, <2>3, <2>4, <2>5 DEF Mounted
  <2>7. CASE /\ open.ret = TRUE
             /\ rxFs' = [open.fs EXCEPT !.pFile = TRUE]
             /\ rxSize' = Units /\ file_len' = 0
             /\ packets_received' = packets_received + 1
             /\ R!Answer(<<R!ACK, R!CRC16>>) /\ R!Go
             /\ UNCHANGED eof_cnt
    <3>1. rxFs' = w
      BY <2>7 DEF Opened
    <3>2. /\ w \in VolumeRecords /\ w.pFile /\ w.bMount /\ w.bFileIsOpen /\ w.exists
          /\ w.pos = 0
      BY <1>5, <2>2, <2>7, OpenedFacts
    <3> HIDE DEF w, open
    <3>3. Writing(rxFs', 0)
      <4>1. w.cache \in Seq(Int)
        BY <3>2 DEF VolumeRecords
      <4>2. Holds(w.cache, 0)
        BY <4>1 DEF Holds
      <4> QED BY <3>1, <3>2, <4>2 DEF Writing
    <3>4. R!Answer(<<ACK, CRC16>>) /\ rxPc' = "packet" /\ out' = out
      BY <2>7 DEF R!Go, R!ACK, ACK, R!CRC16, CRC16
    <3>5. toRx' = toRx /\ OneNewAck
      BY <3>4, AckAnswer DEF IInv, Types
    <3>6. Answers
      <4>1. txPc \in Sending => packets_received = acked
        BY <1>1 DEF IInv, Upstream, acked, Types, Naming, Blocks, Sending
      <4>2. txPc \in Sending \/ txPc \in Ending \cup {"done"}
        BY <1>3 DEF IInv, Types
      <4> QED BY <2>7, <3>5, <4>1, <4>2 DEF Answers, OneNewAck
    <3>7. Units' = Units /\ eof_cnt = 0 /\ eof_cnt \in Nat
      BY <1>2 DEF Units, IInv, Receiver, Types
    <3>8. Receiver'
      <4>1. packets_received' = 1 /\ Units \in 1..MaxSize /\ PACKET_1K_SIZE \in Nat
        BY <1>1, <1>4, <1>8, <2>7, ReceiveAssumption, PacketAssumption
      <4>2. file_len' = Smaller((packets_received' - 1) * PACKET_1K_SIZE, Units)
        BY <2>7, <4>1 DEF Smaller
      <4>3. Writing(rxFs', file_len')
        BY <2>7, <3>3
      <4> QED BY <2>7, <3>4, <3>7, <4>1, <4>2, <4>3 DEF Receiver, Writing, Holds, Smaller
    <3>9. packets_received' \in Nat /\ file_len' \in Nat /\ eof_cnt' \in Nat
      BY <1>1, <2>7, <3>7
    <3>10. rxFs' \in VolumeRecords /\ rxPc' \in {"packet", "done"}
      BY <3>1, <3>2, <3>4
    <3>11. Delivered => Delivered'
      BY <1>2
    <3> QED BY <1>3, <3>4, <3>5, <3>6, <3>8, <3>9, <3>10, <3>11, HandleKeeps
  <2> HIDE DEF m, open, w
  <2>8. -11 \in Int /\ -11 <= 0 /\ -12 \in Int /\ -12 <= 0
    OBVIOUS
  <2>9. CASE R!Answer(<<R!CA, R!CA>>) /\ R!Exit(-11, m)
    BY <1>6, <2>8, <2>9
  <2>10. CASE R!Answer(<<R!CA, R!CA>>) /\ R!Exit(-12, open.fs)
    BY <1>6, <2>8, <2>10
  <2> QED BY <2>6, <2>7, <2>9, <2>10
<1> QED BY <1>7, <1>8

(* A block is written behind the blocks before it, and what it is filled   *)
(* up with is not.                                                         *)
LEMMA DataFacts ==
    ASSUME IInv, rxPc = "handle", R!IsNormal(out), packets_received >= 1,
           out.packet.seq = packets_received % 256
    PROVE  /\ txPc \in Sending => packets_received = acked
           /\ file_len < Units =>
                 /\ out.packet.data = BlockOf(packets_received)
                 /\ out.length = PACKET_1K_SIZE
                 /\ file_len = (packets_received - 1) * PACKET_1K_SIZE
<1>1. /\ packets_received \in Nat /\ file_len \in Nat /\ Units \in 1..MaxSize
      /\ file_len = Smaller((packets_received - 1) * PACKET_1K_SIZE, Units)
  BY VolumeFacts DEF IInv, Receiver
<1>2. Genuine(out.packet) /\ IsPacket(out.packet) /\ out.packet.sound
      /\ out.length = Len(out.packet.data)
  BY Arrived
<1>3. ASSUME txPc \in Sending PROVE packets_received = acked
  <2>1. packets_received \in {acked, acked + 1} /\ acked \in 0..254
    BY <1>3, SendingNumbers
  <2>2. out.packet.seq = packets_received /\ packets_received # 0
    BY <1>1, <2>1
  <2>3. out.packet.seq <= acked
    BY <1>2, <1>3, <2>2 DEF Genuine
  <2> QED BY <2>1, <2>2, <2>3
<1>4. ASSUME file_len < Units
      PROVE  /\ out.packet.data = BlockOf(packets_received)
             /\ out.length = PACKET_1K_SIZE
             /\ file_len = (packets_received - 1) * PACKET_1K_SIZE
  <2> DEFINE n == packets_received - 1
  <2>1. file_len = n * PACKET_1K_SIZE
    BY <1>1, <1>4 DEF Smaller
  <2>2. n \in Nat
    BY <1>1
  <2>3. n < 254
    BY <1>1, <1>4, <2>1, <2>2, FewBlocks
  <2>4. out.packet.seq = packets_received /\ packets_received # 0
    BY <1>1, <2>3
  <2>5. out.packet.data = BlockOf(packets_received)
    BY <1>2, <2>4 DEF Genuine
  <2>6. out.length = PACKET_1K_SIZE
    <3>1. Len(BlockOf(packets_received)) = PACKET_1K_SIZE
      BY PacketAssumption DEF BlockOf
    <3> QED BY <1>2, <2>5, <3>1
  <2> QED BY <2>1, <2>5, <2>6
<1> QED BY <1>3, <1>4

(* The first elements of a sequence.                                       *)
LEMMA Beginning ==
    ASSUME NEW S, NEW s \in Seq(S), NEW n \in 0..Len(s)
    PROVE  /\ SubSeq(s, 1, n) \in Seq(S) /\ Len(SubSeq(s, 1, n)) = n
           /\ \A i \in 1..n : SubSeq(s, 1, n)[i] = s[i]
OBVIOUS

(* What is left of a block when the file ends in it.                       *)
LEMMA WantedFacts ==
    ASSUME Units \in Nat, NEW k \in Nat \ {0}, NEW before, before = (k - 1) * PACKET_1K_SIZE,
           before < Units, NEW wanted,
           wanted = IF before + PACKET_1K_SIZE > Units
                    THEN PACKET_1K_SIZE - (before + PACKET_1K_SIZE - Units) ELSE PACKET_1K_SIZE
    PROVE  LET data == SubSeq(BlockOf(k), 1, wanted)
           IN /\ wanted \in Nat /\ before \in Nat
              /\ before + wanted = Smaller(k * PACKET_1K_SIZE, Units)
              /\ data \in Seq(Int) /\ Len(data) = wanted
              /\ \A i \in 1..wanted : data[i] = before + i
<1> DEFINE n == k - 1
           size == PACKET_1K_SIZE
           data == SubSeq(BlockOf(k), 1, wanted)
<1>1. size \in Nat /\ size # 0 /\ n \in Nat /\ n + 1 = k
  BY PacketAssumption
<1>2. before \in Nat /\ k * size = before + size
  <2>1. before = n * size
    OBVIOUS
  <2> HIDE DEF n, size
  <2>2. (n + 1) * size = n * size + size /\ n * size \in Nat
    BY <1>1, Products
  <2> QED BY <1>1, <2>1, <2>2
<1>3. BlockOf(k) = [m \in 1..size |-> IF before + m <= Units THEN before + m ELSE 0]
  BY DEF BlockOf
<1>4. BlockOf(k) \in Seq(Int) /\ Len(BlockOf(k)) = size
  BY <1>1, <1>2, <1>3
<1>5. wanted = IF before + size > Units THEN Units - before ELSE size
  BY <1>1, <1>2
<1> HIDE DEF n, size
<1>6. wanted \in Nat /\ wanted <= size /\ before + wanted <= Units
      /\ before + wanted = Smaller(k * size, Units)
  <2> DEFINE end == k * size
  <2>1. end = before + size
    BY <1>2
  <2> HIDE DEF end
  <2>2. wanted \in Nat /\ wanted <= size /\ before + wanted <= Units
    BY ONLY <1>1, <1>2, <1>5, Units \in Nat, before < Units
  <2>3. before + wanted = IF end <= Units THEN end ELSE Units
    BY ONLY <1>1, <1>2, <1>5, <2>1, Units \in Nat, before < Units
  <2> QED BY <2>2, <2>3 DEF Smaller, end
<1>7. data \in Seq(Int) /\ Len(data) = wanted /\ \A i \in 1..wanted : data[i] = BlockOf(k)[i]
  <2> DEFINE block == BlockOf(k)
  <2>1. block \in Seq(Int) /\ wanted \in 0..Len(block)
    BY <1>1, <1>4, <1>6
  <2> HIDE DEF block
  <2>2. /\ SubSeq(block, 1, wanted) \in Seq(Int) /\ Len(SubSeq(block, 1, wanted)) = wanted
        /\ \A i \in 1..wanted : SubSeq(block, 1, wanted)[i] = block[i]
    BY <2>1, Beginning
  <2> QED BY <2>2 DEF block
<1>8. ASSUME NEW i \in 1..wanted PROVE data[i] = before + i
  <2>1. i \in 1..size /\ before + i <= Units
    BY <1>1, <1>2, <1>6
  <2> QED BY <1>3, <1>7, <2>1
<1> QED BY <1>2, <1>6, <1>7, <1>8 DEF size

(* A packet is counted.                                                    *)
LEMMA Counted ==
    ASSUME Honest, IInv, UNCHANGED <<txOwn, file>>, rxPc = "handle", rxPc' = "packet",
           UNCHANGED <<out, eof_cnt, rxSize>>, packets_received >= 1,
           packets_received' = packets_received + 1,
           file_len' = Smaller(packets_received * PACKET_1K_SIZE, Units),
           file_len = Units => file_len' = Units,
           Writing(rxFs', file_len'), R!Answer(<<R!ACK>>),
           txPc \in Sending => packets_received = acked, txPc \notin Early
    PROVE  IInv'
<1>1. packets_received \in Nat /\ PACKET_1K_SIZE \in Nat /\ Units' = Units /\ Units \in 1..MaxSize
      /\ rxSize = Units /\ (eof_cnt > 0 => Past) /\ MaxSize \in Nat /\ eof_cnt \in Nat
  BY VolumeFacts, PacketAssumption, ReceiveAssumption DEF Units, IInv, Receiver, Types
<1>2. R!Answer(<<ACK>>)
  BY DEF R!ACK, ACK
<1>3. toRx' = toRx /\ OneNewAck
  BY <1>2, AckAnswer DEF IInv, Types
<1>4. Answers
  <2>1. txPc \in Sending \/ txPc \in Ending \cup {"done"}
    BY DEF IInv, Types
  <2> QED BY <1>3, <2>1 DEF Answers, OneNewAck
<1>5. Delivered => Delivered'
  BY <1>1 DEF Delivered
<1>6. file_len' \in Nat /\ rxFs' \in VolumeRecords
  BY <1>1 DEF Smaller, Writing
<1>7. Past => Past'
  BY <1>5 DEF Past, txOwn
<1>8. Receiver'
  <2>1. packets_received' - 1 = packets_received /\ packets_received' \in Nat
    BY <1>1
  <2>2. file_len' = Smaller((packets_received' - 1) * PACKET_1K_SIZE, Units)
    BY <2>1
  <2> QED BY <1>1, <1>7, <2>1, <2>2 DEF Receiver, Writing, Holds, Smaller
<1>9. Begun /\ packets_received' \in Nat /\ eof_cnt' \in Nat
  BY <1>1 DEF Begun
<1> QED BY <1>3, <1>4, <1>5, <1>6, <1>8, <1>9, HandleKeeps

(* A data packet is written behind the others if its number is that of     *)
(* the next one, and only then (ymodem.c:348).                             *)
LEMMA DataKeeps ==
    ASSUME Honest, IInv, UNCHANGED <<txOwn, file>>, rxPc = "handle", R!Data
    PROVE  IInv'
<1>1. /\ R!IsNormal(out) /\ out.packet.seq = packets_received % 256 /\ packets_received >= 1
      /\ packets_received \in Nat /\ file_len \in Nat /\ Writing(rxFs, file_len)
  BY VolumeFacts DEF R!Data, R!Expected
<1>2. /\ txPc \in Sending => packets_received = acked
      /\ file_len < Units =>
            /\ out.packet.data = BlockOf(packets_received)
            /\ out.length = PACKET_1K_SIZE
            /\ file_len = (packets_received - 1) * PACKET_1K_SIZE
  BY <1>1, DataFacts
<1>3. /\ rxSize = Units /\ Units \in 1..MaxSize /\ Units \in Nat /\ MaxSize \in Nat
      /\ file_len = Smaller((packets_received - 1) * PACKET_1K_SIZE, Units)
  BY <1>1, ReceiveAssumption DEF IInv, Receiver
<1>4. txPc \notin Early
  BY <1>1, Arrived
<1>5. CASE file_len < Units
  <2> DEFINE wanted == R!write_len(out.length)
             data == SubSeq(out.packet.data, 1, wanted)
  <2>1. PICK ok \in R!Outcomes("write") :
            LET write == R!lfs_c2000_fwrite(rxFs, data, ok)
            IN  IF write.ret # wanted
                THEN R!Answer(<<R!CA, R!CA>>) /\ R!Exit(-6, write.fs)
                ELSE /\ rxFs' = write.fs
                     /\ file_len' = file_len + wanted
                     /\ packets_received' = packets_received + 1
                     /\ R!Answer(<<R!ACK>>) /\ R!Go
                     /\ UNCHANGED <<eof_cnt, rxSize>>
    BY <1>3, <1>5 DEF R!Data
  <2>2. ok \in BOOLEAN
    BY DEF R!Outcomes
  <2>3. wanted = IF file_len + PACKET_1K_SIZE > Units
                 THEN PACKET_1K_SIZE - (file_len + PACKET_1K_SIZE - Units) ELSE PACKET_1K_SIZE
    BY <1>2, <1>3, <1>5 DEF R!write_len
  <2> HIDE DEF wanted
  <2>4. packets_received \in Nat \ {0}
    BY <1>1
  <2>5. /\ wanted \in Nat /\ data \in Seq(Int) /\ Len(data) = wanted
        /\ file_len + wanted = Smaller(packets_received * PACKET_1K_SIZE, Units)
        /\ \A i \in 1..wanted : data[i] = file_len + i
    BY <1>2, <1>3, <1>5, <2>3, <2>4, WantedFacts
  <2> DEFINE write == lfs_c2000_fwrite(rxFs, data, ok)
  <2>6. R!lfs_c2000_fwrite(rxFs, data, ok) = write
    BY SameGlue
  <2>7. IF ok THEN write.ret = wanted /\ Writing(write.fs, file_len + wanted)
              ELSE write.ret = -1 /\ Writing(write.fs, file_len)
    <3> HIDE DEF write, data
    <3>1. data \in Seq(Int) /\ \A k \in 1..Len(data) : data[k] = file_len + k
      BY <2>5
    <3>2. IF ok THEN write.ret = Len(data) /\ Writing(write.fs, file_len + Len(data))
                ELSE write.ret = -1 /\ Writing(write.fs, file_len)
      BY <1>1, <2>2, <3>1, WriteFacts DEF write
    <3> QED BY <2>5, <3>2
  <2> HIDE DEF write, data
  <2>8. CASE ok
    <3>1. /\ rxFs' = write.fs /\ file_len' = file_len + wanted
          /\ packets_received' = packets_received + 1
          /\ R!Answer(<<R!ACK>>) /\ R!Go
          /\ UNCHANGED <<eof_cnt, rxSize>>
      BY <2>1, <2>6, <2>7, <2>8
    <3>2. Writing(rxFs', file_len')
      BY <2>7, <2>8, <3>1
    <3>3. file_len' = Smaller(packets_received * PACKET_1K_SIZE, Units)
      BY <2>5, <3>1
    <3>4. rxPc' = "packet" /\ out' = out
      BY <3>1 DEF R!Go
    <3>5. file_len # Units
      BY <1>1, <1>3, <1>5
    <3> QED BY <1>1, <1>2, <1>4, <3>1, <3>2, <3>3, <3>4, <3>5, Counted
  <2>9. CASE ~ok
    <3>1. write.ret # wanted
      BY <2>5, <2>7, <2>9
    <3>2. R!Answer(<<R!CA, R!CA>>) /\ R!Exit(-6, write.fs)
      BY <2>1, <2>6, <3>1
    <3>3. R!Answer(<<CA, CA>>) /\ packets_received' = packets_received
      BY <3>2 DEF R!CA, CA, R!Exit
    <3>4. toRx' = toRx /\ Answers
      BY <3>3, Quiet
    <3>5. Writing(write.fs, file_len) /\ -6 \in Int /\ -6 <= 0
      BY <2>7, <2>9
    <3> QED BY <3>2, <3>4, <3>5, Stops
  <2> QED BY <2>8, <2>9
<1>6. CASE ~(file_len < Units)
  <2>1. file_len = Units
    BY <1>1, <1>3, <1>6, PacketAssumption DEF Smaller
  <2>2. R!Returned(rxFs, 0).ret = 0 /\ R!Returned(rxFs, 0).fs = rxFs
    BY DEF R!Returned
  <2>3. /\ rxFs' = rxFs /\ file_len' = file_len + 0
        /\ packets_received' = packets_received + 1
        /\ R!Answer(<<R!ACK>>) /\ R!Go
        /\ UNCHANGED <<eof_cnt, rxSize>>
    BY <1>3, <1>6, <2>2 DEF R!Data
  <2>4. file_len' = Units /\ Writing(rxFs', file_len')
    BY <1>1, <2>1, <2>3
  <2>5. Smaller(packets_received * PACKET_1K_SIZE, Units) = Units
    <3> DEFINE n == packets_received - 1
               size == PACKET_1K_SIZE
    <3>1. n \in Nat /\ n + 1 = packets_received /\ size \in Nat
      BY <1>1, PacketAssumption
    <3>2. Smaller(n * size, Units) = Units
      BY <1>3, <2>1
    <3> HIDE DEF n, size
    <3>3. (n + 1) * size = n * size + size /\ n * size \in Nat
      BY <3>1, Products
    <3>4. n * size >= Units
      BY <1>3, <3>2, <3>3 DEF Smaller
    <3>5. (n + 1) * size >= Units /\ (n + 1) * size \in Nat
      BY <1>3, <3>1, <3>3, <3>4
    <3>6. Smaller((n + 1) * size, Units) = Units
      BY <1>3, <3>5 DEF Smaller
    <3> QED BY <3>1, <3>6 DEF size
  <2>6. rxPc' = "packet" /\ out' = out
    BY <2>3 DEF R!Go
  <2> QED BY <1>1, <1>2, <1>4, <2>3, <2>4, <2>5, <2>6, Counted
<1> QED BY <1>5, <1>6

(* The branches that write nothing.                                        *)
LEMMA OthersKeep ==
    ASSUME Honest, IInv, UNCHANGED <<txOwn, file>>, rxPc = "handle",
           R!BadPacket \/ R!WrongSequence \/ R!UserAborts \/ R!SessionDone \/ R!NoPacketInTime
    PROVE  IInv'
<1>1. /\ \A n \in {-2, -3, -7, -8} : n \in Int /\ n <= 0
      /\ <<R!NAK>> = <<NAK>> /\ <<R!CRC16>> = <<CRC16>> /\ <<R!CA, R!CA>> = <<CA, CA>>
  BY DEF R!NAK, NAK, R!CRC16, CRC16, R!CA, CA
<1>2. CASE R!BadPacket
  <2>1. R!CountError(PacketErrors, -2, <<NAK>>)
    BY <1>1, <1>2 DEF R!BadPacket
  <2> QED BY <1>1, <2>1, CountErrorKeeps
<1>3. CASE R!WrongSequence
  <2>1. R!CountError(PacketErrors, -3, <<NAK>>)
    BY <1>1, <1>3 DEF R!WrongSequence
  <2> QED BY <1>1, <2>1, CountErrorKeeps
<1>4. CASE R!NoPacketInTime
  <2>1. R!CountError(MaxErrors, -8, <<CRC16>>)
    BY <1>1, <1>4 DEF R!NoPacketInTime
  <2> QED BY <1>1, <2>1, CountErrorKeeps
<1>5. CASE R!UserAborts
  <2>1. R!Answer(<<CA, CA>>) /\ R!Exit(-7, rxFs) /\ packets_received' = packets_received
    BY <1>1, <1>5 DEF R!UserAborts, R!Exit
  <2>2. toRx' = toRx /\ Answers
    BY <2>1, Quiet
  <2> QED BY <1>1, <2>1, <2>2, VolumeFacts, Stops
<1>6. CASE R!SessionDone
  <2>1. /\ R!Exit(rxSize, rxFs) /\ eof_cnt > 1 /\ toRx' = toRx /\ toTx' = toTx
        /\ packets_received' = packets_received
    BY <1>6 DEF R!SessionDone, R!Exit
  <2>2. Past /\ eof_cnt > 0
    BY <2>1 DEF IInv, Receiver, Types
  <2>3. rxSize \in Int
    BY <2>2 DEF IInv, Receiver, Past, Delivered
  <2>4. NoNewAck
    BY <2>1 DEF NoNewAck, IInv, Types
  <2>5. Answers
    BY <2>1, <2>4 DEF Answers
  <2> QED BY <2>1, <2>2, <2>3, <2>5, VolumeFacts, Stops
<1> QED BY <1>2, <1>3, <1>4, <1>5, <1>6

(* Every step of the receiver keeps the invariant.                         *)
LEMMA ReceiverKeeps ==
    ASSUME Honest, IInv, rxStep
    PROVE  IInv'
<1>1. R!Next /\ UNCHANGED <<txOwn, file>>
  BY DEF rxStep
<1>2. CASE R!Start \/ R!Take \/ R!Timeout \/ R!uart_consume
  <2>1. PICK d : Listened(d)
    BY <1>2, ListenFacts DEF IInv
  <2> QED BY <1>1, <2>1, ListenKeeps
<1>3. CASE R!Handle
  <2>1. rxPc = "handle"
    BY <1>3 DEF R!Handle
  <2>2. CASE R!BadPacket \/ R!WrongSequence \/ R!UserAborts \/ R!SessionDone \/ R!NoPacketInTime
    BY <1>1, <2>1, <2>2, OthersKeep
  <2>3. CASE R!SenderAborts
    BY <1>1, <2>1, <2>3, SenderAbortsKeeps
  <2>4. CASE R!EndOfTransmission
    BY <1>1, <2>1, <2>4, EndOfTransmissionKeeps
  <2>5. CASE R!LastPacket
    BY <1>1, <2>1, <2>5, LastPacketKeeps
  <2>6. CASE R!EmptyFilename
    BY <2>1, <2>6, EmptyFilenameNever
  <2>7. CASE R!Filename
    BY <1>1, <2>1, <2>7, FilenameKeeps
  <2>8. CASE R!Data
    BY <1>1, <2>1, <2>8, DataKeeps
  <2> QED BY <1>3, <2>2, <2>3, <2>4, <2>5, <2>6, <2>7, <2>8 DEF R!Handle
<1> QED BY <1>1, <1>2, <1>3 DEF R!Next

------------------------------------------------------------------------------
(* The transmitter: what it adds to the line.                              *)
LEMMA LineKeeps ==
    ASSUME IInv, UNCHANGED <<rxOwn, file>>,
           NEW r \in Seq(Items), toRx' = toRx \o r,
           \A i \in 1..Len(r) : Genuine(r[i])' /\ (r[i].ch = EOT => Past'),
           Past => Past', acked' \in Nat,
           txPc' \in Early => txPc \in Early /\ \A i \in 1..Len(r) : ~IsPacket(r[i]),
           txPc' \in Sending =>
               \/ txPc \in Sending /\ acked <= acked' /\ Apart(r)
               \/ txPc \in Early /\ Len(r) = 0
    PROVE  toRx' \in Seq(Items) /\ Downstream' /\ Pairs'
<1> USE DEF IInv
<1>1. /\ toRx \in Seq(Items) /\ toRx' \in Seq(Items) /\ Len(toRx') = Len(toRx) + Len(r)
      /\ Len(toRx) \in Nat /\ Len(r) \in Nat
      /\ \A i \in 1..(Len(toRx) + Len(r)) :
            toRx'[i] = IF i <= Len(toRx) THEN toRx[i] ELSE r[i - Len(toRx)]
  BY Concatenated DEF Types
<1>2. UNCHANGED <<rxPc, out, errors, eof_cnt, packets_received, file_len, rxSize, rxFs, file>>
  BY DEF rxOwn
<1>3. UNCHANGED <<Units, Delivered, Pending>> /\ (\A k : BlockOf(k)' = BlockOf(k)) /\ acked \in Nat
  BY <1>2 DEF Units, Delivered, Pending, BlockOf, acked, Types
<1>4. ASSUME NEW i \in 1..Len(toRx')
      PROVE  \/ i \in 1..Len(toRx) /\ toRx'[i] = toRx[i]
             \/ i - Len(toRx) \in 1..Len(r) /\ toRx'[i] = r[i - Len(toRx)]
  BY <1>1
<1>5. ASSUME NEW x \in Items, Genuine(x), txPc \in Early => ~IsPacket(x)
      PROVE  Genuine(x)'
  <2>1. CASE ~IsPacket(x)
    BY <2>1 DEF Genuine
  <2>2. CASE IsPacket(x)
    <3>1. txPc' \in Sending => txPc \in Sending /\ acked <= acked'
      BY <1>5, <2>2
    <3>2. x.seq \in Int
      BY DEF Items
    <3> QED BY <1>3, <1>5, <3>1, <3>2 DEF Genuine
  <2> QED BY <2>1, <2>2
<1>6. ASSUME NEW i \in 1..Len(toRx')
      PROVE  /\ Genuine(toRx[i])' /\ (toRx'[i].ch = EOT => Past')
             /\ (txPc' \in Early => ~IsPacket(toRx'[i]))
  <2>1. CASE i \in 1..Len(toRx) /\ toRx'[i] = toRx[i]
    <3>1. toRx[i] \in Items
      BY <1>1, <2>1
    <3>2. Genuine(toRx[i]) /\ (toRx[i].ch = EOT => Past) /\ (txPc \in Early => ~IsPacket(toRx[i]))
      BY <2>1 DEF Downstream
    <3>3. ASSUME NEW x, x = toRx[i] PROVE Genuine(x)'
      BY <1>5, <3>1, <3>2, <3>3
    <3> QED BY <2>1, <3>2, <3>3
  <2>2. CASE i - Len(toRx) \in 1..Len(r) /\ toRx'[i] = r[i - Len(toRx)]
    BY <2>2
  <2> QED BY <1>4, <2>1, <2>2
<1>7. Downstream'
  <2>1. ASSUME Pending
        PROVE  /\ Genuine(out.packet)' /\ (Normal(out) => out.length = Len(out.packet.data))
               /\ (Ended(out) => Past') /\ (txPc' \in Early => ~IsPacket(out.packet))
    <3>1. /\ Genuine(out.packet) /\ (Normal(out) => out.length = Len(out.packet.data))
          /\ (Ended(out) => Past) /\ (txPc \in Early => ~IsPacket(out.packet))
          /\ out.packet \in Items
      BY <2>1 DEF Downstream, Types
    <3>2. ASSUME NEW x, x = out.packet PROVE Genuine(x)'
      BY <1>5, <3>1, <3>2
    <3> QED BY <1>2, <3>1, <3>2
  <2>2. txPc' \in Early => packets_received' = 0
    BY <1>2 DEF Downstream
  <2> QED BY <1>2, <1>3, <1>6, <2>1, <2>2 DEF Downstream
<1>8. ASSUME txPc' \in Sending, txPc \in Sending, NEW m \in Nat, m > Len(toRx) \/ Clean(m)
      PROVE  Clean(m)'
  <2> SUFFICES ASSUME NEW i \in 1..Len(toRx'), i > m, toRx'[i].ch = CA
               PROVE  i < Len(toRx') /\ toRx'[i + 1].ch # CA
    BY DEF Clean
  <2>1. CASE i \in 1..Len(toRx) /\ toRx'[i] = toRx[i]
    <3>1. i < Len(toRx) /\ toRx[i + 1].ch # CA
      BY <1>1, <1>8, <2>1 DEF Clean
    <3>2. i < Len(toRx') /\ toRx'[i + 1] = toRx[i + 1]
      BY <1>1, <3>1
    <3> QED BY <3>1, <3>2
  <2>2. CASE i - Len(toRx) \in 1..Len(r) /\ toRx'[i] = r[i - Len(toRx)]
    <3>1. Apart(r)
      BY <1>8 DEF Early, Sending, Naming, Blocks
    <3>2. i - Len(toRx) < Len(r) /\ r[i - Len(toRx) + 1].ch # CA
      BY <2>2, <3>1 DEF Apart
    <3>3. i + 1 \in 1..(Len(toRx) + Len(r)) /\ ~(i + 1 <= Len(toRx)) /\ i < Len(toRx')
      BY <1>1, <2>2, <3>2
    <3>4. toRx'[i + 1] = r[(i + 1) - Len(toRx)]
      BY <1>1, <3>3
    <3>5. (i + 1) - Len(toRx) = i - Len(toRx) + 1
      BY <1>1, <2>2
    <3> QED BY <3>2, <3>3, <3>4, <3>5
  <2> QED BY <1>4, <2>1, <2>2
<1>9. Pairs'
  <2> SUFFICES ASSUME txPc' \in Sending
               PROVE  /\ \A m \in 1..Len(toRx') : IsPacket(toRx'[m]) => Clean(m)'
                      /\ Begun' => Clean(0)'
                      /\ packets_received' >= 1 /\ Pending' => ~Aborted(out')
    BY DEF Pairs
  <2>1. CASE txPc \in Sending
    <3>1. ASSUME NEW m \in 1..Len(toRx'), IsPacket(toRx'[m]) PROVE Clean(m)'
      <4>1. m > Len(toRx) \/ Clean(m)
        BY <1>4, <2>1, <3>1 DEF Pairs
      <4> QED BY <1>8, <2>1, <4>1
    <3>2. Begun' = Begun
      BY <1>2, <1>3 DEF Begun
    <3>3. Begun' => Clean(0)'
      BY <1>8, <2>1, <3>2 DEF Pairs
    <3> QED BY <1>2, <1>3, <2>1, <3>1, <3>3 DEF Pairs
  <2>2. CASE txPc \in Early /\ Len(r) = 0
    <3>1. ASSUME NEW m \in 1..Len(toRx') PROVE ~IsPacket(toRx'[m])
      BY <1>1, <1>4, <2>2 DEF Downstream
    <3>2. ~(Begun') /\ packets_received' = 0
      BY <1>2, <2>2 DEF Downstream, Begun, Normal, Pending
    <3> QED BY <3>1, <3>2
  <2> QED BY <2>1, <2>2
<1> QED BY <1>1, <1>7, <1>9

(* A step of the transmitter keeps the invariant if what it says is        *)
(* genuine and it goes on from an answer it was owed.                      *)
LEMMA TransmitterKeeps ==
    ASSUME IInv, UNCHANGED <<rxOwn, file>>,
           NEW r \in Seq(Items), toRx' = toRx \o r,
           \A i \in 1..Len(r) : Genuine(r[i])' /\ (r[i].ch = EOT => Past'),
           txPc \in Ending => txPc' \in Ending \cup {"done"}, txPc = "done" => txPc' = "done",
           txPc' \in Early => txPc \in Early /\ \A i \in 1..Len(r) : ~IsPacket(r[i]),
           txPc' \in Sending =>
               \/ txPc \in Sending /\ acked <= acked' /\ Apart(r)
               \/ txPc \in Early /\ Len(r) = 0,
           txPc' \in Early \cup Sending \cup Ending \cup {"done"},
           blkNumber' \in Nat, txSize' \in Nat, packet_data' \in Seq(Int),
           toTx' \in Seq(Items), Sender', Upstream'
    PROVE  IInv'
<1>1. UNCHANGED <<rxPc, out, errors, eof_cnt, packets_received, file_len, rxSize, rxFs, file>>
  BY DEF rxOwn
<1>2. UNCHANGED <<Units, Delivered>> /\ (Past => Past') /\ acked' \in Nat
  BY <1>1 DEF Units, Delivered, Past, acked
<1>3. toRx' \in Seq(Items) /\ Downstream' /\ Pairs'
  BY <1>2, LineKeeps
<1>4. Receiver'
  BY <1>1, <1>2 DEF IInv, Receiver, Smaller, Writing, Kept, Holds
<1>5. Types'
  BY <1>1, <1>2, <1>3 DEF IInv, Types, Units
<1> QED BY <1>3, <1>4, <1>5 DEF IInv

(* Control bytes on the line are not packets, and EOT comes from the       *)
(* transmitter only.                                                       *)
LEMMA BabbleFacts ==
    ASSUME Honest, NEW bytes \in Seq(Int), \A j \in 1..Len(bytes) : bytes[j] \notin {SOH, STX},
           NEW r, Babble(r, bytes)
    PROVE  /\ r \in Seq(Items)
           /\ \A i \in 1..Len(r) :
                 /\ ~IsPacket(r[i]) /\ Genuine(r[i])'
                 /\ (r[i].ch = EOT => \E j \in 1..Len(bytes) : bytes[j] = EOT)
<1>1. ASSUME NEW i \in 1..Len(r) PROVE r[i].ch # SOH /\ r[i].ch # STX
  BY ControlType DEF Babble
<1>2. \A i \in 1..Len(r) : ~IsPacket(r[i]) /\ Genuine(r[i])'
  BY <1>1 DEF IsPacket, Genuine
<1>3. \A i \in 1..Len(r) : r[i].ch = EOT => \E j \in 1..Len(bytes) : bytes[j] = EOT
  BY DEF Babble, Honest
<1> QED BY <1>2, <1>3 DEF Babble

(* It takes an answer.                                                     *)
TakesOne == toTx # <<>> /\ toTx' = Tail(toTx)

(* What is left when the first answer has been taken.                      *)
LEMMA TakesOneFacts ==
    ASSUME toTx \in Seq(Items), TakesOne
    PROVE  /\ toTx' \in Seq(Items) /\ Len(toTx') \in Nat /\ Len(toTx') + 1 = Len(toTx)
           /\ 1 \in 1..Len(toTx)
           /\ \A i \in 1..Len(toTx') : i + 1 \in 1..Len(toTx) /\ toTx'[i] = toTx[i + 1]
BY DEF TakesOne

(* Taking an answer that is not acted on leaves the ACKs in order.         *)
LEMMA UpstreamKeeps ==
    ASSUME IInv, UNCHANGED <<rxOwn, file>>, toTx' = toTx \/ TakesOne,
           txPc' \in Early \cup Sending => txPc \in Early \cup Sending /\ acked' = acked,
           txPc' \in Sending =>
               \/ packets_received \in {acked, acked + 1}
               \/ txPc' = "nameC" /\ packets_received = 0 /\ rxPc = "done" /\ toTx' = <<>>
    PROVE  toTx' \in Seq(Items) /\ Upstream'
<1>1. packets_received' = packets_received /\ rxPc' = rxPc /\ toTx \in Seq(Items)
      /\ Len(toTx) \in Nat
  BY DEF rxOwn, IInv, Types
<1>2. CASE toTx' = toTx
  BY <1>1, <1>2 DEF IInv, Upstream
<1>3. CASE TakesOne
  <2>1. /\ toTx' \in Seq(Items) /\ Len(toTx') \in Nat /\ Len(toTx') + 1 = Len(toTx)
        /\ \A i \in 1..Len(toTx') : i + 1 \in 1..Len(toTx) /\ toTx'[i] = toTx[i + 1]
    BY <1>1, <1>3, TakesOneFacts
  <2>2. ASSUME txPc' \in Early \cup Sending, NEW i \in 1..Len(toTx'), toTx'[i].ch = ACK
        PROVE  \/ /\ packets_received' = acked' + 1
                  /\ \A j \in 1..Len(toTx') : toTx'[j].ch = ACK => j = i
               \/ packets_received' = 0 /\ rxPc' = "done" /\ i = Len(toTx')
    <3>1. i + 1 \in 1..Len(toTx) /\ toTx[i + 1].ch = ACK
      BY <2>1, <2>2
    <3>2. CASE /\ packets_received = acked + 1
               /\ \A j \in 1..Len(toTx) : toTx[j].ch = ACK => j = i + 1
      <4>1. ASSUME NEW j \in 1..Len(toTx'), toTx'[j].ch = ACK PROVE j = i
        <5>1. j + 1 \in 1..Len(toTx) /\ toTx[j + 1].ch = ACK
          BY <2>1, <4>1
        <5>2. j + 1 = i + 1
          BY <3>2, <5>1
        <5> QED BY <5>2
      <4> QED BY <1>1, <2>2, <3>2, <4>1
    <3>3. CASE packets_received = 0 /\ rxPc = "done" /\ i + 1 = Len(toTx)
      BY <1>1, <2>1, <3>3
    <3> QED BY <2>2, <3>1, <3>2, <3>3 DEF IInv, Upstream
  <2> QED BY <1>1, <2>1, <2>2 DEF Upstream
<1> QED BY <1>2, <1>3

(* It gives up, or has done.                                               *)
LEMMA EndKeeps ==
    ASSUME Honest, IInv, UNCHANGED <<rxOwn, file, blkNumber, txSize, packet_data>>,
           toTx' = toTx \/ TakesOne, txPc' = "done", ret' = 0 => Delivered,
           NEW bytes \in Seq(Int), \A j \in 1..Len(bytes) : bytes[j] \notin {SOH, STX, EOT},
           NEW r, Babble(r, bytes), toRx' = toRx \o r
    PROVE  IInv'
<1>1. toTx' \in Seq(Items) /\ Upstream'
  BY UpstreamKeeps DEF Early, Sending, Naming, Blocks
<1>2. Sender'
  <2>1. Delivered' = Delivered
    BY DEF Delivered, Units, rxOwn
  <2> QED BY <2>1 DEF Sender, Early, Naming, Blocks, Ending
<1>3. r \in Seq(Items) /\ \A i \in 1..Len(r) : Genuine(r[i])' /\ r[i].ch # EOT
  BY BabbleFacts
<1>4. blkNumber' \in Nat /\ txSize' \in Nat /\ packet_data' \in Seq(Int)
  BY DEF IInv, Types
<1>5. txPc' \notin Early /\ txPc' \notin Sending
  BY DEF Early, Sending, Naming, Blocks
<1> QED BY <1>1, <1>2, <1>3, <1>4, <1>5, TransmitterKeeps

(* Before the first packet: polls and their answers.                       *)
LEMMA EarlyKeeps ==
    ASSUME Honest, IInv,
           UNCHANGED <<rxOwn, file, blkNumber, txSize, packet_data, txFs, ret>>,
           toTx' = toTx \/ TakesOne, txPc \in Early, txPc' \in Early,
           NEW r, Babble(r, <<CRC16>>), toRx' = toRx \o r
    PROVE  IInv'
<1>1. acked' = acked
  BY DEF acked, Early, Blocks
<1>2. txPc' \notin Sending \cup Ending \cup {"done"} /\ txPc \notin Ending \cup {"done"}
  BY DEF Early, Sending, Naming, Blocks, Ending
<1>3. toTx' \in Seq(Items) /\ Upstream'
  BY <1>1, <1>2, UpstreamKeeps
<1>4. Sender'
  <2>1. txFs' \in VolumeRecords /\ txFs'.stored = file'
    BY DEF IInv, Sender
  <2> QED BY <2>1 DEF Sender, Early, Naming, Blocks, Ending
<1>5. r \in Seq(Items) /\ \A i \in 1..Len(r) : ~IsPacket(r[i]) /\ Genuine(r[i])' /\ r[i].ch # EOT
  <2>1. <<CRC16>> \in Seq(Int) /\ \A j \in 1..Len(<<CRC16>>) : <<CRC16>>[j] \notin {SOH, STX, EOT}
    BY DEF CRC16, SOH, STX, EOT
  <2> QED BY <2>1, BabbleFacts
<1>6. blkNumber' \in Nat /\ txSize' \in Nat /\ packet_data' \in Seq(Int)
  BY DEF IInv, Types
<1> QED BY <1>2, <1>3, <1>4, <1>5, <1>6, TransmitterKeeps

(* Behind the last block: EOTs and the last packet.                        *)
LEMMA EndingKeeps ==
    ASSUME Honest, IInv, UNCHANGED <<rxOwn, file, packet_data>>,
           blkNumber' \in Nat, txSize' \in Nat,
           toTx' = toTx \/ TakesOne, txPc' \in Ending, Delivered,
           txPc \in Blocks \cup Ending,
           NEW r \in Seq(Items), toRx' = toRx \o r,
           \A i \in 1..Len(r) : Genuine(r[i])'
    PROVE  IInv'
<1>1. txPc' \notin Early /\ txPc' \notin Sending /\ txPc' # "done" /\ txPc # "done"
  BY DEF Early, Sending, Naming, Blocks, Ending
<1>2. toTx' \in Seq(Items) /\ Upstream'
  BY <1>1, UpstreamKeeps
<1>3. Delivered' = Delivered
  BY DEF Delivered, Units, rxOwn
<1>4. Sender'
  BY <1>3 DEF Sender, Early, Naming, Blocks, Ending
<1>5. Past' /\ packet_data' \in Seq(Int)
  BY <1>3 DEF Past, IInv, Types
<1> QED BY <1>1, <1>2, <1>4, <1>5, TransmitterKeeps

(* Nothing is added.                                                       *)
LEMMA NothingAdded ==
    ASSUME IInv, toRx' = toRx
    PROVE  \E r \in Seq(Items) :
              /\ toRx' = toRx \o r /\ Len(r) = 0 /\ Apart(r)
              /\ \A i \in 1..Len(r) : Genuine(r[i])' /\ r[i].ch # EOT
              /\ \A bytes \in Seq(Int) : Babble(r, bytes)
<1>1. toRx \in Seq(Items) /\ <<>> \in Seq(Items) /\ Len(<<>>) = 0
  BY DEF IInv, Types
<1>2. toRx \o <<>> = toRx
  BY <1>1
<1>3. PICK r \in Seq(Items) : r = <<>> /\ Len(r) = 0 /\ toRx \o r = toRx
  BY <1>1, <1>2
<1>4. \A i \in 1..Len(r) : Genuine(r[i])' /\ r[i].ch # EOT
  BY <1>3
<1>5. Apart(r) /\ \A bytes \in Seq(Int) : Babble(r, bytes)
  BY <1>3 DEF Apart, Babble
<1> QED BY <1>3, <1>4, <1>5

(* Between the first packet and the last answer to a block.                *)
LEMMA SendingKeeps ==
    ASSUME Honest, IInv, UNCHANGED <<rxOwn, file>>,
           blkNumber' \in Nat, txSize' \in Nat, packet_data' \in Seq(Int),
           toTx' \in Seq(Items), Upstream', Sender', txPc \in Sending, txPc' \in Sending,
           acked <= acked',
           NEW r \in Seq(Items), toRx' = toRx \o r, Apart(r),
           \A i \in 1..Len(r) : Genuine(r[i])' /\ r[i].ch # EOT
    PROVE  IInv'
<1>1. /\ txPc \notin Ending /\ txPc # "done" /\ txPc' \notin Early
  BY DEF Early, Sending, Naming, Blocks, Ending
<1> QED BY <1>1, TransmitterKeeps

(* A transmitter that gives up reports a failure, whatever it says then.   *)
LEMMA FailKeeps ==
    ASSUME Honest, IInv, UNCHANGED <<rxOwn, file>>, toTx' = toTx \/ TakesOne,
           NEW bytes \in {<<CA, CA>>, <<CA, CA, CA, CA>>}, T!Say(T!Controls(bytes)),
           NEW code, code # 0, NEW volume, T!Return(code, volume)
    PROVE  IInv'
<1>1. bytes \in Seq(Int) /\ \A j \in 1..Len(bytes) : bytes[j] \notin {SOH, STX, EOT}
  <2>1. CASE bytes = <<CA, CA>>
    <3>1. bytes \in Seq(Int) /\ Len(bytes) = 2 /\ bytes[1] = CA /\ bytes[2] = CA
      BY <2>1 DEF CA
    <3> QED BY <3>1 DEF CA, SOH, STX, EOT
  <2>2. CASE bytes = <<CA, CA, CA, CA>>
    <3>1. /\ bytes \in Seq(Int) /\ Len(bytes) = 4
          /\ bytes[1] = CA /\ bytes[2] = CA /\ bytes[3] = CA /\ bytes[4] = CA
      BY <2>2 DEF CA
    <3> QED BY <3>1 DEF CA, SOH, STX, EOT
  <2> QED BY <2>1, <2>2
<1>2. PICK r : Babble(r, bytes) /\ toRx' = toRx \o r
  BY <1>1, SayControls DEF IInv, Types
<1>3. txPc' = "done" /\ ret' # 0 /\ UNCHANGED <<blkNumber, txSize, packet_data>>
  BY DEF T!Return
<1> QED BY <1>1, <1>2, <1>3, EndKeeps

(* Up to the first packet.                                                 *)
LEMMA StartKeeps ==
    ASSUME Honest, IInv, UNCHANGED <<rxOwn, file>>,
           T!Start \/ T!Poll \/ T!PollTimeout \/ T!PollAnswer
    PROVE  IInv'
<1>1. /\ T!Controls(<<T!CA, T!CA>>) = T!Controls(<<CA, CA>>)
      /\ <<T!CRC16>> = <<CRC16>> /\ <<CRC16>> \in Seq(Int)
      /\ \A j \in 1..Len(<<CRC16>>) : <<CRC16>>[j] \notin {SOH, STX}
  BY DEF T!CA, CA, T!CRC16, CRC16, SOH, STX
<1>2. CASE T!Start
  <2>1. /\ txPc \in Early /\ txPc' \in Early /\ toRx' = toRx /\ toTx' = toTx
        /\ UNCHANGED <<blkNumber, txSize, packet_data, txFs, ret>>
    BY <1>2 DEF T!Start, Early
  <2> QED BY <1>1, <2>1, NothingAdded, EarlyKeeps
<1>3. CASE T!Poll
  <2>1. /\ txPc \in Early /\ txPc' \in Early /\ toTx' = toTx
        /\ UNCHANGED <<blkNumber, txSize, packet_data, txFs, ret>>
        /\ T!Say(T!Controls(<<CRC16>>))
    BY <1>1, <1>3 DEF T!Poll, Early
  <2>2. PICK r : Babble(r, <<CRC16>>) /\ toRx' = toRx \o r
    BY <1>1, <2>1, SayControls DEF IInv, Types
  <2> QED BY <2>1, <2>2, EarlyKeeps
<1>4. CASE T!PollTimeout
  <2>1. CASE toTx' = toTx /\ T!Say(T!Controls(<<T!CA, T!CA>>)) /\ T!Return(-1, txFs)
    BY <1>1, <2>1, FailKeeps
  <2>2. CASE /\ txPc = "pollWait" /\ txPc' = "poll" /\ toRx' = toRx /\ toTx' = toTx
             /\ UNCHANGED <<blkNumber, txSize, packet_data, txFs, ret>>
    <3>1. txPc \in Early /\ txPc' \in Early
      BY <2>2 DEF Early
    <3> QED BY <1>1, <2>2, <3>1, NothingAdded, EarlyKeeps
  <2> QED BY <1>4, <2>1, <2>2 DEF T!PollTimeout
<1>5. CASE T!PollAnswer
  <2>1. CASE TakesOne /\ T!Say(T!Controls(<<T!CA, T!CA>>)) /\ T!Return(-1, txFs)
    BY <1>1, <2>1, FailKeeps
  <2>2. CASE /\ txPc = "pollWait" /\ txPc' = "open" /\ toRx' = toRx /\ TakesOne
             /\ UNCHANGED <<blkNumber, txSize, packet_data, txFs, ret>>
    <3>1. txPc \in Early /\ txPc' \in Early
      BY <2>2 DEF Early
    <3> QED BY <1>1, <2>2, <3>1, NothingAdded, EarlyKeeps
  <2> QED BY <1>5, <2>1, <2>2 DEF T!PollAnswer, TakesOne
<1> QED BY <1>2, <1>3, <1>4, <1>5

(* littlefs neither fails to read nor to close.                            *)
LEMMA CleanupOutcome ==
    ASSUME Honest
    PROVE  T!Outcomes("close") = {TRUE} /\ T!Outcomes("read") = {TRUE}
BY DEF T!Outcomes, Honest

(* The file is opened, or the session is refused.                          *)
LEMMA OpenFileKeeps ==
    ASSUME Honest, IInv, UNCHANGED <<rxOwn, file>>, T!OpenFile
    PROVE  IInv'
<1>1. txPc = "open" /\ txPc \in Early /\ txFs \in VolumeRecords /\ txFs.stored = file
      /\ packets_received = 0 /\ file \in Seq(Int) /\ Units \in Nat /\ toTx' = toTx
      /\ <<T!CA, T!CA>> = <<CA, CA>>
  BY DEF T!OpenFile, Early, IInv, Sender, Downstream, Types, Units, T!CA, CA
<1>2. PICK okMount \in T!Outcomes("mount"), okOpen \in T!Outcomes("open"),
           okStat \in T!Outcomes("stat"), okClose \in T!Outcomes("close") :
          LET mount == T!lfs_c2000_mount(txFs, okMount)
              mounted == [mount.fs EXCEPT !.pLfs = mount.ret]
              open == T!lfs_c2000_fopen(mounted, okOpen)
              opened == [open.fs EXCEPT !.pFile = open.ret]
          IN  CASE ~mount.ret -> T!Say(T!Controls(<<T!CA, T!CA>>)) /\ T!Return(-11, mounted)
                [] mount.ret /\ ~open.ret ->
                      /\ T!Say(T!Controls(<<T!CA, T!CA>>))
                      /\ T!Return(-12, T!after_open_failed(opened))
                [] mount.ret /\ open.ret /\ ~okStat ->
                      /\ T!Say(T!Controls(<<T!CA, T!CA>>))
                      /\ T!Return(-13, T!lfs_cleanup(opened, okClose))
                [] OTHER ->
                      /\ txFs' = opened
                      /\ txSize' = Len(opened.stored)
                      /\ packet_data' = <<txSize'>>
                      /\ txPc' = "name"
                      /\ UNCHANGED <<toRx, faults, blkNumber, ret>>
  BY DEF T!OpenFile
<1>3. okMount \in BOOLEAN /\ okOpen \in BOOLEAN /\ okStat \in BOOLEAN
  BY <1>2 DEF T!Outcomes
<1> DEFINE m == Mounted(txFs, okMount)
           open == Open(txFs, okMount, okOpen)
           w == Opened(txFs, okMount, okOpen)
<1>4. lfs_c2000_mount(txFs, okMount).ret = okMount
  BY <1>1, <1>3, MountedFacts
<1>5. /\ T!lfs_c2000_mount(txFs, okMount) = lfs_c2000_mount(txFs, okMount)
      /\ T!lfs_c2000_fopen(m, okOpen) = open
  BY SameGlue DEF Open
<1>6. open.ret \in BOOLEAN
  BY <1>3 DEF Open, lfs_c2000_fopen, Returned
<1>7. w = [open.fs EXCEPT !.pFile = open.ret]
  BY DEF Opened
<1>8. \/ \E code \in {-11, -12, -13} : \E volume :
            T!Say(T!Controls(<<CA, CA>>)) /\ T!Return(code, volume)
      \/ /\ open.ret = TRUE /\ txFs' = w /\ txSize' = Len(w.stored) /\ packet_data' = <<txSize'>>
         /\ txPc' = "name" /\ toRx' = toRx /\ UNCHANGED <<blkNumber, ret>>
  <2> HIDE DEF open, w
  <2> QED BY <1>1, <1>2, <1>3, <1>4, <1>5, <1>6, <1>7 DEF Mounted
<1>9. CASE \E code \in {-11, -12, -13} : \E volume :
               T!Say(T!Controls(<<CA, CA>>)) /\ T!Return(code, volume)
  BY <1>1, <1>9, FailKeeps
<1>10. CASE /\ open.ret = TRUE /\ txFs' = w /\ txSize' = Len(w.stored) /\ packet_data' = <<txSize'>>
            /\ txPc' = "name" /\ toRx' = toRx /\ UNCHANGED <<blkNumber, ret>>
  <2>1. w \in VolumeRecords /\ w.pos = 0 /\ w.cache = file /\ w.stored = file
    BY <1>1, <1>3, <1>10, OpenedFacts
  <2> HIDE DEF w, open
  <2>2. Units' = Units /\ txSize' = Units /\ packet_data' = <<Units>> /\ Reading(txFs', 0)
    BY <1>10, <2>1 DEF Units, Reading
  <2>3. Sender'
    <3>1. Reading(txFs, 0)'
      BY <2>2 DEF Reading
    <3> QED BY <1>10, <2>2, <3>1 DEF Sender, Early, Naming, Blocks, Ending
  <2>4. acked = 0 /\ acked' = 0 /\ txPc' \in Sending
    BY <1>1, <1>10 DEF acked, Blocks, Sending, Naming
  <2>5. toTx' \in Seq(Items) /\ Upstream'
    BY <1>1, <2>4, UpstreamKeeps
  <2>6. blkNumber' \in Nat /\ txSize' \in Nat /\ packet_data' \in Seq(Int)
    BY <1>1, <1>10, <2>2 DEF IInv, Types
  <2>7. PICK r \in Seq(Items) :
            toRx' = toRx \o r /\ Len(r) = 0 /\ \A i \in 1..Len(r) : Genuine(r[i])' /\ r[i].ch # EOT
    BY <1>10, NothingAdded
  <2>8. txPc \notin Ending /\ txPc # "done" /\ txPc' \notin Early
    BY <1>1, <1>10 DEF Ending, Early
  <2> QED BY <1>1, <2>3, <2>4, <2>5, <2>6, <2>7, <2>8, TransmitterKeeps
<1> QED BY <1>8, <1>9, <1>10

(* The next block is read.                                                 *)
LEMMA BlockFacts ==
    ASSUME Units \in Nat, NEW k \in Nat \ {0}
    PROVE  BlockOf(k) \in Seq(Int) /\ Len(BlockOf(k)) = PACKET_1K_SIZE
<1> DEFINE before == (k - 1) * PACKET_1K_SIZE
<1>1. before \in Int /\ PACKET_1K_SIZE \in Nat
  BY PacketAssumption
<1>2. BlockOf(k) = [m \in 1..PACKET_1K_SIZE |-> IF before + m <= Units THEN before + m ELSE 0]
  BY DEF BlockOf
<1> HIDE DEF before
<1> QED BY <1>1, <1>2

(* What is read at the place of the k-th block, filled up, is that block.  *)
LEMMA PrepareFacts ==
    ASSUME file \in Seq(Int), \A i \in 1..Units : file[i] = i,
           NEW k \in Nat \ {0}, NEW before \in Nat, before = (k - 1) * PACKET_1K_SIZE,
           NEW count \in Nat, before + count <= Units,
           count = PACKET_1K_SIZE \/ (count <= PACKET_1K_SIZE /\ before + count = Units)
    PROVE  T!Block(SubSeq(file, before + 1, before + count)) = BlockOf(k)
<1> DEFINE data == SubSeq(file, before + 1, before + count)
<1>1. Units \in Nat /\ PACKET_1K_SIZE \in Nat
  BY PacketAssumption DEF Units
<1>2. Len(data) = count /\ \A i \in 1..count : data[i] = before + i
  <2>1. Len(data) = count /\ \A i \in 1..count : data[i] = file[before + i]
    BY <1>1 DEF Units
  <2>2. \A i \in 1..count : before + i \in 1..Units
    BY <1>1
  <2> QED BY <2>1, <2>2
<1> HIDE DEF data
<1>3. T!Block(data) = [i \in 1..PACKET_1K_SIZE |-> IF i <= count THEN data[i] ELSE 0]
  BY <1>2 DEF T!Block
<1>4. BlockOf(k) = [i \in 1..PACKET_1K_SIZE |-> IF before + i <= Units THEN before + i ELSE 0]
  BY DEF BlockOf
<1>5. ASSUME NEW i \in 1..PACKET_1K_SIZE
      PROVE  (IF i <= count THEN data[i] ELSE 0) = (IF before + i <= Units THEN before + i ELSE 0)
  <2>1. i <= count <=> before + i <= Units
    BY <1>1
  <2>2. CASE i <= count
    <3>1. data[i] = before + i
      BY <1>2, <2>2
    <3> QED BY <2>1, <2>2, <3>1
  <2>3. CASE ~(i <= count)
    BY <2>1, <2>3
  <2> QED BY <2>2, <2>3
<1> QED BY <1>3, <1>4, <1>5 DEF data

(* Ymodem_PreparePacket reads the next block of the file.                  *)
LEMMA PrepareKeeps ==
    ASSUME Honest, IInv, UNCHANGED <<rxOwn, file>>, T!Ymodem_PreparePacket
    PROVE  IInv'
<1> DEFINE count == IF txSize < PACKET_1K_SIZE THEN txSize ELSE PACKET_1K_SIZE
           n == blkNumber - 1
           before == n * PACKET_1K_SIZE
           read == T!lfs_file_read(txFs, count)
<1>1. /\ txPc = "prepare" /\ txPc' = "block" /\ txFs' = read.fs /\ packet_data' = T!Block(read.ret)
      /\ UNCHANGED <<toRx, toTx, blkNumber, txSize, ret>>
  <2>1. PICK ok \in T!Outcomes("read") :
            IF ok THEN txFs' = read.fs /\ packet_data' = T!Block(read.ret)
                  ELSE UNCHANGED txFs /\ packet_data' = T!Block(packet_data)
    BY DEF T!Ymodem_PreparePacket
  <2>2. ok = TRUE
    BY CleanupOutcome
  <2> QED BY <2>1, <2>2 DEF T!Ymodem_PreparePacket
<1>2. /\ blkNumber \in Nat /\ blkNumber >= 1 /\ txSize \in Nat /\ txSize >= 1
      /\ txSize = Units - before /\ Reading(txFs, before)
      /\ file \in Seq(Int) /\ (\A i \in 1..Units : file[i] = i) /\ Units \in Nat
  BY <1>1 DEF IInv, Sender, Types, Blocks, Units
<1>3. n \in Nat /\ n + 1 = blkNumber /\ PACKET_1K_SIZE \in Nat /\ blkNumber \in Nat \ {0}
  BY <1>2, PacketAssumption
<1>4. before \in Nat /\ (n + 1) * PACKET_1K_SIZE = before + PACKET_1K_SIZE
  BY <1>3, Products
<1>5. before = (blkNumber - 1) * PACKET_1K_SIZE
  OBVIOUS
<1>6. count \in Nat /\ before + count <= Units
      /\ (count = PACKET_1K_SIZE \/ (count <= PACKET_1K_SIZE /\ before + count = Units))
      /\ before + count = Smaller(before + PACKET_1K_SIZE, Units)
  <2> HIDE DEF before
  <2> QED BY <1>2, <1>3, <1>4 DEF Smaller
<1> HIDE DEF count, before
<1>7. Reading(read.fs, before + count) /\ read.ret = SubSeq(file, before + 1, before + count)
  <2>1. read = lfs_file_read(txFs, count)
    BY SameGlue
  <2> HIDE DEF read
  <2> QED BY <1>2, <1>4, <1>6, <2>1, ReadFacts DEF Units
<1>8. packet_data' = BlockOf(blkNumber)
  <2>1. T!Block(SubSeq(file, before + 1, before + count)) = BlockOf(blkNumber)
    BY <1>2, <1>3, <1>4, <1>5, <1>6, PrepareFacts
  <2> QED BY <1>1, <1>7, <2>1
<1>9. Reading(txFs', Smaller(blkNumber * PACKET_1K_SIZE, Units))
  <2>1. blkNumber * PACKET_1K_SIZE = before + PACKET_1K_SIZE
    BY <1>3, <1>4
  <2> QED BY <1>1, <1>6, <1>7, <2>1
<1>10. Units' = Units /\ BlockOf(blkNumber)' = BlockOf(blkNumber) /\ acked' = acked
       /\ acked \in Nat
  BY <1>1, <1>2 DEF Units, BlockOf, acked, Blocks
<1>11. Sender'
  <2>1. Reading(txFs, Smaller(blkNumber * PACKET_1K_SIZE, Units))'
    BY <1>1, <1>9, <1>10 DEF Reading, Smaller
  <2>2. txSize' = Units' - (blkNumber' - 1) * PACKET_1K_SIZE
    BY <1>1, <1>2, <1>10 DEF before
  <2>3. packet_data' = BlockOf(blkNumber)'
    BY <1>8, <1>10
  <2> QED BY <1>1, <1>2, <2>1, <2>2, <2>3 DEF Sender, Early, Naming, Blocks, Ending
<1>12. txPc \in Sending /\ txPc' \in Sending /\ txPc # "nameC"
  BY <1>1 DEF Sending, Blocks
<1>13. toTx' \in Seq(Items) /\ Upstream'
  <2>1. packets_received \in {acked, acked + 1}
    BY <1>12 DEF IInv, Upstream
  <2> QED BY <1>1, <1>10, <1>12, <2>1, UpstreamKeeps
<1>14. packet_data' \in Seq(Int)
  BY <1>2, <1>3, <1>8, BlockFacts
<1>15. PICK r \in Seq(Items) :
           toRx' = toRx \o r /\ Apart(r) /\ \A i \in 1..Len(r) : Genuine(r[i])' /\ r[i].ch # EOT
  BY <1>1, NothingAdded
<1>16. blkNumber' \in Nat /\ txSize' \in Nat /\ acked <= acked'
  BY <1>1, <1>2, <1>10
<1> QED BY <1>11, <1>12, <1>13, <1>14, <1>15, <1>16, SendingKeeps

(* A packet carries its number as a byte, and its data.                    *)
LEMMA PacketFacts ==
    ASSUME NEW h \in {SOH, STX}, NEW k \in Nat, NEW d \in Seq(Int)
    PROVE  LET item == Packet(h, k, d)
           IN /\ item \in Items /\ IsPacket(item) /\ item.seq = k % 256 /\ item.data = d
BY DEF Packet, Items, IsPacket, SOH, STX

(* A packet with number 0.                                                 *)
LEMMA FirstFacts ==
    ASSUME NEW d \in Seq(Int)
    PROVE  LET item == Packet(SOH, 0, d)
           IN item \in Items /\ IsPacket(item) /\ item.seq = 0 /\ item.data = d
<1>1. 0 % 256 = 0 /\ 0 \in Nat
  OBVIOUS
<1> QED BY <1>1, PacketFacts

(* Whatever arrives of a genuine packet is genuine.                        *)
LEMMA DeliveryFacts ==
    ASSUME Honest, NEW item \in Items, IsPacket(item), Genuine(item)', NEW r, Delivery(r, item)
    PROVE  \A i \in 1..Len(r) : Genuine(r[i])' /\ r[i].ch # EOT
<1> TAKE i \in 1..Len(r)
<1>1. item.ch \in {SOH, STX} /\ item.ch # EOT
  BY DEF IsPacket, SOH, STX, EOT
<1>2. CASE r[i] = item
  BY <1>1, <1>2
<1>3. CASE r[i].ch = item.ch /\ ~r[i].sound
  BY <1>1, <1>3 DEF Genuine
<1>4. CASE r[i].ch \in Noise \cup {JUNK}
  <2>1. r[i].ch \notin {SOH, STX} /\ r[i].ch # EOT
    BY <1>4, ControlType DEF Honest, JUNK, EOT, SOH, STX
  <2> QED BY <2>1 DEF Genuine, IsPacket
<1> QED BY <1>2, <1>3, <1>4 DEF Delivery

(* The transmitter stays in a state of sending: what it knows is kept.     *)
LEMMA SendKeeps ==
    ASSUME Honest, IInv,
           UNCHANGED <<rxOwn, file, toTx, blkNumber, txSize, packet_data, txFs, ret>>,
           T!Send_Packet
    PROVE  IInv'
<1>1. /\ Units' = Units /\ (\A k : BlockOf(k)' = BlockOf(k)) /\ Delivered' = Delivered
      /\ blkNumber \in Nat /\ blkNumber' \in Nat /\ txSize' \in Nat /\ packet_data' \in Seq(Int)
      /\ packet_data \in Seq(Int) /\ toRx \in Seq(Items)
  BY DEF Units, BlockOf, Delivered, rxOwn, IInv, Types
<1>2. /\ txPc \in {"name", "block", "eot", "last"}
      /\ T!Say(T!Message[txPc]) /\ txPc' = T!AwaitedBy[txPc]
  BY DEF T!Send_Packet, T!AwaitedBy
<1>3. CASE txPc = "name"
  <2>0. PICK item : item = Packet(SOH, 0, packet_data)
    OBVIOUS
  <2>1. T!Say(<<item>>) /\ txPc' = "nameAck"
    <3>1. T!Message["name"] = <<item>>
      BY <2>0, SameLine DEF T!Message, T!SOH, SOH
    <3>2. T!AwaitedBy["name"] = "nameAck"
      BY DEF T!AwaitedBy
    <3> QED BY <1>2, <1>3, <3>1, <3>2
  <2>2. item \in Items /\ IsPacket(item) /\ item.seq = 0 /\ item.data = <<Units>>
    <3>1. packet_data = <<Units>>
      BY <1>3 DEF IInv, Sender, Naming
    <3>2. item \in Items /\ IsPacket(item) /\ item.seq = 0 /\ item.data = packet_data
      BY <1>1, <2>0, FirstFacts
    <3> QED BY <3>1, <3>2
  <2>3. Genuine(item)'
    BY <1>1, <2>2 DEF Genuine
  <2>4. PICK r : Delivery(r, item) /\ toRx' = toRx \o r
    BY <1>1, <2>1, <2>2, SayPacket
  <2>5. r \in Seq(Items) /\ Apart(r) /\ \A i \in 1..Len(r) : Genuine(r[i])' /\ r[i].ch # EOT
    BY <2>2, <2>3, <2>4, DeliveryFacts DEF Delivery
  <2>6. txPc \in Sending /\ txPc' \in Sending /\ acked = 0 /\ acked' = 0
    BY <1>3, <2>1 DEF Sending, Naming, Blocks, acked
  <2>7. Sender'
    <3>1. packet_data = <<Units>> /\ txSize = Units /\ Reading(txFs, 0)
      BY <1>3 DEF IInv, Sender, Naming
    <3> QED BY <1>1, <2>1, <3>1 DEF Sender, Early, Naming, Blocks, Ending, Reading
  <2>8. toTx' \in Seq(Items) /\ Upstream'
    <3>1. packets_received \in {acked, acked + 1}
      BY <1>3, <2>6 DEF IInv, Upstream
    <3> QED BY <2>6, <3>1, UpstreamKeeps
  <2>9. acked <= acked'
    BY <2>6
  <2> QED BY <1>1, <2>4, <2>5, <2>6, <2>7, <2>8, <2>9, SendingKeeps
<1>4. CASE txPc = "block"
  <2>0. PICK item : item = Packet(STX, blkNumber, packet_data)
    OBVIOUS
  <2>1. T!Say(<<item>>) /\ txPc' = "blockAck"
    <3>1. T!Message["block"] = <<item>>
      BY <2>0, SameLine DEF T!Message, T!STX, STX
    <3>2. T!AwaitedBy["block"] = "blockAck"
      BY DEF T!AwaitedBy
    <3> QED BY <1>2, <1>4, <3>1, <3>2
  <2>2. txPc \in Sending /\ txPc' \in Sending /\ acked = blkNumber /\ acked' = blkNumber
    BY <1>4, <2>1 DEF Sending, Naming, Blocks, acked
  <2>3. /\ packet_data = BlockOf(blkNumber) /\ blkNumber >= 1 /\ txSize >= 1
        /\ txSize = Units - (blkNumber - 1) * PACKET_1K_SIZE
        /\ Reading(txFs, Smaller(blkNumber * PACKET_1K_SIZE, Units))
    BY <1>4 DEF IInv, Sender, Blocks
  <2>4. packets_received \in {acked, acked + 1}
    BY <1>4, <2>2 DEF IInv, Upstream
  <2>5. blkNumber \in 1..254
    <3>1. packets_received >= 1
      BY <1>1, <2>2, <2>3, <2>4
    <3> QED BY <2>2, <2>3, <3>1, SendingNumbers
  <2>6. item \in Items /\ IsPacket(item) /\ item.seq = blkNumber /\ item.data = BlockOf(blkNumber)
    <3>1. item \in Items /\ IsPacket(item) /\ item.seq = blkNumber % 256 /\ item.data = packet_data
      BY <1>1, <2>0, PacketFacts
    <3>2. blkNumber % 256 = blkNumber
      BY <2>5
    <3> QED BY <2>3, <3>1, <3>2
  <2>7. Genuine(item)'
    BY <1>1, <2>2, <2>5, <2>6 DEF Genuine
  <2>8. PICK r : Delivery(r, item) /\ toRx' = toRx \o r
    BY <1>1, <2>1, <2>6, SayPacket
  <2>9. r \in Seq(Items) /\ Apart(r) /\ \A i \in 1..Len(r) : Genuine(r[i])' /\ r[i].ch # EOT
    BY <2>6, <2>7, <2>8, DeliveryFacts DEF Delivery
  <2>10. Sender'
    BY <1>1, <2>1, <2>3 DEF Sender, Early, Naming, Blocks, Ending, Reading, Smaller
  <2>11. toTx' \in Seq(Items) /\ Upstream'
    BY <2>2, <2>4, UpstreamKeeps
  <2>12. acked <= acked'
    BY <2>2, <2>5
  <2> QED BY <1>1, <2>2, <2>8, <2>9, <2>10, <2>11, <2>12, SendingKeeps
<1>5. CASE txPc = "eot"
  <2>1. T!Say(T!Controls(<<EOT>>)) /\ txPc' = "eotAck"
    <3>1. T!Message["eot"] = T!Controls(<<EOT>>)
      BY DEF T!Message, T!EOT, EOT
    <3>2. T!AwaitedBy["eot"] = "eotAck"
      BY DEF T!AwaitedBy
    <3> QED BY <1>2, <1>5, <3>1, <3>2
  <2>2. <<EOT>> \in Seq(Int) /\ \A j \in 1..Len(<<EOT>>) : <<EOT>>[j] \notin {SOH, STX}
    BY DEF EOT, SOH, STX
  <2>3. PICK r : Babble(r, <<EOT>>) /\ toRx' = toRx \o r
    BY <1>1, <2>1, <2>2, SayControls
  <2>4. r \in Seq(Items) /\ \A i \in 1..Len(r) : Genuine(r[i])'
    BY <2>2, <2>3, BabbleFacts
  <2>5. Delivered /\ txPc \in Ending /\ txPc' \in Ending
    BY <1>5, <2>1 DEF IInv, Sender, Ending
  <2> QED BY <1>1, <2>3, <2>4, <2>5, EndingKeeps
<1>6. CASE txPc = "last"
  <2>0. PICK item : item = Packet(SOH, 0, <<>>)
    OBVIOUS
  <2>1. T!Say(<<item>>) /\ txPc' = "lastAck"
    <3>1. T!Message["last"] = <<item>>
      BY <2>0, SameLine DEF T!Message, T!SOH, SOH
    <3>2. T!AwaitedBy["last"] = "lastAck"
      BY DEF T!AwaitedBy
    <3> QED BY <1>2, <1>6, <3>1, <3>2
  <2>2. item \in Items /\ IsPacket(item) /\ item.seq = 0
    BY <2>0, EmptyFacts, FirstFacts
  <2>3. Delivered /\ txPc \in Ending /\ txPc' \in Ending
    BY <1>6, <2>1 DEF IInv, Sender, Ending
  <2>4. Genuine(item)'
    BY <1>1, <2>2, <2>3 DEF Genuine
  <2>5. PICK r : Delivery(r, item) /\ toRx' = toRx \o r
    BY <1>1, <2>1, <2>2, SayPacket
  <2>6. r \in Seq(Items) /\ \A i \in 1..Len(r) : Genuine(r[i])'
    BY <2>2, <2>4, <2>5, DeliveryFacts DEF Delivery
  <2> QED BY <1>1, <2>3, <2>5, <2>6, EndingKeeps
<1> QED BY <1>2, <1>3, <1>4, <1>5, <1>6

(* An answer, or silence.                                                  *)
LEMMA GivesUp ==
    ASSUME Honest, IInv, UNCHANGED <<rxOwn, file>>, toTx' = toTx \/ TakesOne,
           NEW code, code # 0, NEW response, T!Fail(code, response)
    PROVE  IInv'
<1>1. T!LastWords(response) \in {<<CA, CA>>, <<CA, CA, CA, CA>>}
  BY DEF T!LastWords, T!CA, CA
<1>2. PICK volume : T!Return(code, volume)
  BY DEF T!Fail
<1>3. T!Say(T!Controls(T!LastWords(response)))
  BY DEF T!Fail
<1> QED BY <1>1, <1>2, <1>3, FailKeeps

(* The answer it waits for.                                                *)
LEMMA AckTaken ==
    ASSUME IInv, UNCHANGED rxOwn, TakesOne, toTx[1].ch = ACK, txPc \in Sending
    PROVE  /\ packets_received = acked + 1 \/ (packets_received = 0 /\ rxPc = "done" /\ toTx' = <<>>)
           /\ toTx' \in Seq(Items) /\ \A i \in 1..Len(toTx') : toTx'[i].ch # ACK
<1>1. /\ toTx' \in Seq(Items) /\ Len(toTx') \in Nat /\ Len(toTx') + 1 = Len(toTx)
      /\ 1 \in 1..Len(toTx)
      /\ \A i \in 1..Len(toTx') : i + 1 \in 1..Len(toTx) /\ toTx'[i] = toTx[i + 1]
  BY TakesOneFacts DEF IInv, Types
<1>2. CASE /\ packets_received = acked + 1
           /\ \A j \in 1..Len(toTx) : toTx[j].ch = ACK => j = 1
  <2>1. ASSUME NEW i \in 1..Len(toTx'), toTx'[i].ch = ACK PROVE FALSE
    <3>1. i + 1 \in 1..Len(toTx) /\ toTx[i + 1].ch = ACK
      BY <1>1, <2>1
    <3>2. i + 1 = 1
      BY <1>2, <3>1
    <3> QED BY <3>2
  <2> QED BY <1>1, <1>2, <2>1
<1>3. CASE packets_received = 0 /\ rxPc = "done" /\ 1 = Len(toTx)
  <2>1. Len(toTx') = 0
    <3>1. Len(toTx') \in Nat /\ Len(toTx') + 1 = Len(toTx)
      BY <1>1
    <3>2. \A l \in Nat : l + 1 = 1 => l = 0
      OBVIOUS
    <3>3. Len(toTx') + 1 = 1
      BY <1>3, <3>1
    <3> QED BY <3>1, <3>2, <3>3
  <2>2. toTx' = <<>>
    BY <1>1, <2>1
  <2> QED BY <1>1, <1>3, <2>1, <2>2
<1> QED BY <1>1, <1>2, <1>3 DEF IInv, Upstream

(* The ACK for the first packet: the receiver has counted it.              *)
LEMMA GoesOnFromName ==
    ASSUME Honest, IInv, UNCHANGED <<rxOwn, file, toRx, packet_data, blkNumber, txSize, txFs, ret>>,
           TakesOne, toTx[1].ch = ACK, txPc = "nameAck", txPc' = "nameC"
    PROVE  IInv'
<1>1. /\ txPc \in Sending /\ txPc' \in Sending /\ acked = 0 /\ acked' = 1
      /\ packets_received' = packets_received /\ rxPc' = rxPc /\ Units' = Units
  BY DEF Sending, Naming, Blocks, acked, rxOwn, Units
<1>2. /\ packets_received = 1 \/ (packets_received = 0 /\ rxPc = "done" /\ toTx' = <<>>)
      /\ toTx' \in Seq(Items) /\ \A i \in 1..Len(toTx') : toTx'[i].ch # ACK
  BY <1>1, AckTaken
<1>3. Upstream'
  BY <1>1, <1>2 DEF Upstream
<1>4. Sender'
  <2>1. packet_data = <<Units>> /\ txSize = Units /\ Reading(txFs, 0)
    BY DEF IInv, Sender, Naming
  <2> QED BY <1>1, <2>1 DEF Sender, Early, Naming, Blocks, Ending, Reading
<1>5. PICK r \in Seq(Items) :
          toRx' = toRx \o r /\ Apart(r) /\ \A i \in 1..Len(r) : Genuine(r[i])' /\ r[i].ch # EOT
  BY NothingAdded
<1>6. blkNumber' \in Nat /\ txSize' \in Nat /\ packet_data' \in Seq(Int) /\ acked <= acked'
  BY <1>1 DEF IInv, Types
<1> QED BY <1>1, <1>2, <1>3, <1>4, <1>5, <1>6, SendingKeeps

(* The C behind it: the blocks begin, or the end of an empty file.         *)
LEMMA GoesOnToBlocks ==
    ASSUME Honest, IInv, UNCHANGED <<rxOwn, file, toRx, packet_data, txSize, txFs, ret>>,
           TakesOne, txPc = "nameC", blkNumber' = 1,
           txPc' = IF txSize = 0 THEN "eot" ELSE "prepare"
    PROVE  IInv'
<1>1. /\ txPc \in Sending /\ acked = 1 /\ Units' = Units
      /\ txSize = Units /\ Reading(txFs, 0) /\ Units \in Nat
  BY DEF Sending, Naming, Blocks, acked, Units, IInv, Types, Sender
<1>2. packets_received \in {acked, acked + 1}
  BY <1>1 DEF IInv, Upstream, TakesOne
<1>3. Units >= 1
  BY <1>1, <1>2 DEF IInv, Receiver, Types
<1>4. txPc' = "prepare" /\ txPc' \in Sending /\ acked' = 1
  BY <1>1, <1>3 DEF Sending, Blocks, acked
<1>5. toTx' \in Seq(Items) /\ Upstream'
  BY <1>1, <1>2, <1>4, UpstreamKeeps
<1>6. Sender'
  <2>1. (1 - 1) * PACKET_1K_SIZE = 0
    BY PacketAssumption
  <2>2. txSize' = Units' - (blkNumber' - 1) * PACKET_1K_SIZE
    BY <1>1, <2>1
  <2>3. Reading(txFs, (blkNumber - 1) * PACKET_1K_SIZE)'
    BY <1>1, <2>1 DEF Reading
  <2>4. blkNumber' >= 1 /\ txSize' >= 1
    BY <1>1, <1>3
  <2> QED BY <1>4, <2>2, <2>3, <2>4 DEF Sender, Early, Naming, Blocks, Ending
<1>7. PICK r \in Seq(Items) :
          toRx' = toRx \o r /\ Apart(r) /\ \A i \in 1..Len(r) : Genuine(r[i])' /\ r[i].ch # EOT
  BY NothingAdded
<1>8. blkNumber' \in Nat /\ txSize' \in Nat /\ packet_data' \in Seq(Int) /\ acked <= acked'
  BY <1>1, <1>4 DEF IInv, Types
<1> QED BY <1>1, <1>4, <1>5, <1>6, <1>7, <1>8, SendingKeeps

(* The last block is known to have arrived, or there is another one.       *)
LEMMA GoesOnFromBlock ==
    ASSUME Honest, IInv, UNCHANGED <<rxOwn, file, toRx, packet_data, txFs, ret>>,
           TakesOne, toTx[1].ch = ACK, txPc = "blockAck",
           blkNumber' = blkNumber + 1, txSize' = T!Left,
           txPc' = IF T!Left = 0 THEN "eot" ELSE "prepare"
    PROVE  IInv'
<1> DEFINE size == PACKET_1K_SIZE
           n == blkNumber - 1
           before == n * size
           end == blkNumber * size
<1>1. /\ txPc \in Sending /\ acked = blkNumber /\ Units' = Units /\ packets_received' = packets_received
      /\ rxPc' = rxPc
      /\ blkNumber \in Nat /\ blkNumber >= 1 /\ txSize \in Nat /\ txSize >= 1
      /\ txSize = Units - before /\ Reading(txFs, Smaller(end, Units)) /\ Units \in Nat
  BY DEF Sending, Blocks, acked, Units, IInv, Types, Sender, rxOwn
<1>2. n \in Nat /\ n + 1 = blkNumber /\ size \in Nat /\ size # 0
  BY <1>1, PacketAssumption
<1>3. before \in Nat /\ end = before + size
  BY <1>2, Products
<1>4. /\ packets_received = blkNumber + 1
      /\ toTx' \in Seq(Items) /\ \A i \in 1..Len(toTx') : toTx'[i].ch # ACK
  <2>1. \/ packets_received = acked + 1
        \/ packets_received = 0 /\ rxPc = "done" /\ toTx' = <<>>
    BY <1>1, AckTaken
  <2>2. packets_received \in {acked, acked + 1}
    BY <1>1 DEF IInv, Upstream
  <2>3. packets_received # 0
    BY <1>1, <2>2
  <2> QED BY <1>1, <2>1, <2>3, AckTaken
<1>5. file_len = Smaller(end, Units)
  <2>1. packets_received - 1 = blkNumber /\ packets_received >= 1
    BY <1>1, <1>4
  <2> QED BY <2>1 DEF IInv, Receiver
<1> HIDE DEF n, before, end
<1>6. T!Left = IF txSize > size THEN txSize - size ELSE 0
  BY DEF T!Left
<1> HIDE DEF size
<1>7. CASE txSize > size
  <2>1. /\ T!Left = txSize - size /\ T!Left \in Nat /\ T!Left >= 1 /\ Smaller(end, Units) = end
        /\ T!Left = Units - end /\ end \in Nat
    BY <1>1, <1>2, <1>3, <1>6, <1>7 DEF Smaller
  <2>2. txPc' = "prepare" /\ txSize' = Units - end
    BY <2>1
  <2>3. txPc' \in Sending /\ acked' = blkNumber + 1
    BY <2>2 DEF Sending, Blocks, acked
  <2>4. Upstream'
    BY <1>1, <1>4, <2>2, <2>3 DEF Upstream
  <2>5. Sender'
    <3>1. (blkNumber' - 1) * PACKET_1K_SIZE = end
      <4>1. blkNumber' - 1 = blkNumber
        BY <1>1
      <4> QED BY <4>1 DEF end, size
    <3>2. txSize' = Units' - (blkNumber' - 1) * PACKET_1K_SIZE /\ txSize' >= 1 /\ blkNumber' >= 1
      BY <1>1, <2>1, <2>2, <3>1
    <3>3. Reading(txFs, (blkNumber - 1) * PACKET_1K_SIZE)'
      BY <1>1, <2>1, <3>1 DEF Reading
    <3> QED BY <2>2, <3>2, <3>3 DEF Sender, Early, Naming, Blocks, Ending
  <2>6. PICK r \in Seq(Items) :
            toRx' = toRx \o r /\ Apart(r) /\ \A i \in 1..Len(r) : Genuine(r[i])' /\ r[i].ch # EOT
    BY NothingAdded
  <2>7. blkNumber' \in Nat /\ txSize' \in Nat /\ packet_data' \in Seq(Int) /\ acked <= acked'
    BY <1>1, <2>1, <2>3 DEF IInv, Types
  <2> QED BY <1>1, <1>4, <2>3, <2>4, <2>5, <2>6, <2>7, SendingKeeps
<1>8. CASE ~(txSize > size)
  <2>1. T!Left = 0 /\ Smaller(end, Units) = Units
    BY <1>1, <1>2, <1>3, <1>6, <1>8 DEF Smaller
  <2>2. Delivered /\ txPc' \in Ending /\ txPc \in Blocks \cup Ending
    <3>1. packets_received >= 1
      BY <1>1, <1>4
    <3> QED BY <1>5, <2>1, <3>1 DEF Delivered, Ending, Blocks
  <2>3. PICK r \in Seq(Items) : toRx' = toRx \o r /\ \A i \in 1..Len(r) : Genuine(r[i])'
    BY NothingAdded
  <2>4. blkNumber' \in Nat /\ txSize' \in Nat
    BY <1>1, <2>1
  <2> QED BY <2>2, <2>3, <2>4, EndingKeeps
<1> QED BY <1>7, <1>8

(* The answer is what it waits for.                                        *)
LEMMA GoOnKeeps ==
    ASSUME Honest, IInv, UNCHANGED <<rxOwn, file>>, TakesOne,
           txPc \in {"nameAck", "nameC", "blockAck", "eotAck", "eotC", "lastAck"},
           toTx[1].ch = T!Awaited[txPc], T!GoOn
    PROVE  IInv'
<1>1. toRx' = toRx /\ packet_data' = packet_data
      /\ blkNumber \in Nat /\ txSize \in Nat /\ toTx[1].ch = T!Awaited[txPc]
  BY DEF T!GoOn, IInv, Types
<1>2. CASE txPc = "nameAck"
  <2>1. toTx[1].ch = ACK
    BY <1>1, <1>2 DEF T!Awaited, T!ACK, ACK
  <2>2. txPc' = "nameC" /\ UNCHANGED <<blkNumber, txSize, txFs, ret>>
    BY <1>2 DEF T!GoOn
  <2> QED BY <1>1, <1>2, <2>1, <2>2, GoesOnFromName
<1>3. CASE txPc = "nameC"
  <2>1. /\ blkNumber' = 1 /\ UNCHANGED <<txSize, txFs, ret>>
        /\ txPc' = IF txSize = 0 THEN "eot" ELSE "prepare"
    BY <1>3 DEF T!GoOn
  <2> QED BY <1>1, <1>3, <2>1, GoesOnToBlocks
<1>4. CASE txPc = "blockAck"
  <2>1. toTx[1].ch = ACK
    BY <1>1, <1>4 DEF T!Awaited, T!ACK, ACK
  <2>2. /\ blkNumber' = blkNumber + 1 /\ txSize' = T!Left /\ UNCHANGED <<txFs, ret>>
        /\ txPc' = IF T!Left = 0 THEN "eot" ELSE "prepare"
    BY <1>4 DEF T!GoOn
  <2> QED BY <1>1, <1>4, <2>1, <2>2, GoesOnFromBlock
<1>5. CASE txPc \in {"eotAck", "eotC"}
  <2>1. txPc' \in {"eotC", "last"} /\ UNCHANGED <<blkNumber, txSize, txFs, ret>>
    BY <1>5 DEF T!GoOn
  <2>2. Delivered /\ txPc \in Blocks \cup Ending /\ txPc' \in Ending
    BY <1>5, <2>1 DEF IInv, Sender, Ending
  <2>3. PICK r \in Seq(Items) : toRx' = toRx \o r /\ \A i \in 1..Len(r) : Genuine(r[i])'
    BY <1>1, NothingAdded
  <2> QED BY <1>1, <2>1, <2>2, <2>3, EndingKeeps
<1>6. CASE txPc = "lastAck"
  <2>1. txPc' = "done" /\ UNCHANGED <<blkNumber, txSize>>
    BY <1>6 DEF T!GoOn
  <2>2. Delivered
    BY <1>6 DEF IInv, Sender, Ending
  <2>3. PICK r \in Seq(Items) : toRx' = toRx \o r /\ \A bytes \in Seq(Int) : Babble(r, bytes)
    BY <1>1, NothingAdded
  <2>4. PICK bytes \in Seq(Int) : Len(bytes) = 0
    BY EmptyFacts
  <2>5. Babble(r, bytes)
    BY <2>3
  <2>6. \A j \in 1..Len(bytes) : bytes[j] \notin {SOH, STX, EOT}
    BY <2>4
  <2> QED BY <1>1, <2>1, <2>2, <2>3, <2>5, <2>6, EndKeeps
<1> QED BY <1>2, <1>3, <1>4, <1>5, <1>6

(* A message that was not acknowledged is sent again.                      *)
LEMMA SendAgainKeeps ==
    ASSUME Honest, IInv, UNCHANGED <<rxOwn, file>>, TakesOne,
           txPc \in T!Resendable, T!SendAgain
    PROVE  IInv'
<1>1. /\ toRx' = toRx /\ UNCHANGED <<blkNumber, txSize, packet_data, txFs, ret>>
      /\ txPc' = CHOOSE m \in DOMAIN T!AwaitedBy : T!AwaitedBy[m] = txPc
  BY DEF T!SendAgain
<1>2. /\ DOMAIN T!AwaitedBy = {"name", "block", "eot", "last"}
      /\ T!AwaitedBy["name"] = "nameAck" /\ T!AwaitedBy["block"] = "blockAck"
      /\ T!AwaitedBy["eot"] = "eotAck" /\ T!AwaitedBy["last"] = "lastAck"
  BY DEF T!AwaitedBy
<1>3. txPc' \in DOMAIN T!AwaitedBy /\ T!AwaitedBy[txPc'] = txPc
  <2>1. \E m \in DOMAIN T!AwaitedBy : T!AwaitedBy[m] = txPc
    BY DEF T!Resendable
  <2> QED BY <1>1, <2>1
<1>4. \/ txPc = "nameAck" /\ txPc' = "name"
      \/ txPc = "blockAck" /\ txPc' = "block"
      \/ txPc = "eotAck" /\ txPc' = "eot"
      \/ txPc = "lastAck" /\ txPc' = "last"
  BY <1>2, <1>3
<1>5. Units' = Units /\ Delivered' = Delivered /\ (\A k : BlockOf(k)' = BlockOf(k))
      /\ blkNumber' \in Nat /\ txSize' \in Nat /\ packet_data' \in Seq(Int)
  BY <1>1 DEF Units, Delivered, BlockOf, rxOwn, IInv, Types
<1>6. PICK r \in Seq(Items) :
          toRx' = toRx \o r /\ Apart(r) /\ \A i \in 1..Len(r) : Genuine(r[i])' /\ r[i].ch # EOT
  BY <1>1, NothingAdded
<1>7. CASE txPc \in Sending
  <2>1. txPc' \in Sending /\ acked' = acked /\ acked <= acked' /\ txPc # "nameC"
    <3>1. CASE txPc = "nameAck" /\ txPc' = "name"
      BY <3>1 DEF Sending, Naming, Blocks, acked
    <3>2. CASE txPc = "blockAck" /\ txPc' = "block"
      <4>1. acked = blkNumber /\ acked' = blkNumber'
        BY <3>2 DEF Blocks, acked
      <4>2. acked' = acked /\ acked <= acked'
        BY <1>1, <1>5, <4>1
      <4> QED BY <3>2, <4>2 DEF Sending, Blocks
    <3> QED BY <1>4, <1>7, <3>1, <3>2 DEF Sending, Naming, Blocks
  <2>2. packets_received \in {acked, acked + 1}
    BY <1>7, <2>1 DEF IInv, Upstream
  <2>3. toTx' \in Seq(Items) /\ Upstream'
    BY <1>7, <2>1, <2>2, UpstreamKeeps
  <2>4. Sender'
    <3>1. CASE txPc = "nameAck" /\ txPc' = "name"
      <4>1. packet_data = <<Units>> /\ txSize = Units /\ Reading(txFs, 0)
        BY <3>1 DEF IInv, Sender, Naming
      <4> QED BY <1>1, <1>5, <3>1, <4>1 DEF Sender, Early, Naming, Blocks, Ending, Reading
    <3>2. CASE txPc = "blockAck" /\ txPc' = "block"
      <4>1. /\ packet_data = BlockOf(blkNumber) /\ blkNumber >= 1 /\ txSize >= 1
            /\ txSize = Units - (blkNumber - 1) * PACKET_1K_SIZE
            /\ Reading(txFs, Smaller(blkNumber * PACKET_1K_SIZE, Units))
        BY <3>2 DEF IInv, Sender, Blocks
      <4> QED BY <1>1, <1>5, <3>2, <4>1 DEF Sender, Early, Naming, Blocks, Ending, Reading, Smaller
    <3> QED BY <1>4, <1>7, <3>1, <3>2 DEF Sending, Naming, Blocks
  <2> QED BY <1>5, <1>6, <1>7, <2>1, <2>3, <2>4, SendingKeeps
<1>8. CASE txPc \notin Sending
  <2>1. Delivered /\ txPc \in Blocks \cup Ending /\ txPc' \in Ending
    BY <1>4, <1>8 DEF IInv, Sender, Ending, Sending, Naming, Blocks
  <2> QED BY <1>1, <1>5, <1>6, <2>1, EndingKeeps
<1> QED BY <1>7, <1>8

(* Nothing that the invariant speaks of changes.                           *)
LEMMA StutterKeeps ==
    ASSUME IInv,
           UNCHANGED <<toRx, toTx, rxOwn, txPc, blkNumber, txSize, packet_data, txFs, ret, file>>
    PROVE  IInv'
<1>1. UNCHANGED <<rxPc, out, errors, eof_cnt, packets_received, file_len, rxSize, rxFs>>
  BY DEF rxOwn
<1>2. UNCHANGED <<Units, Delivered, Past, Pending, acked>> /\ \A k : BlockOf(k)' = BlockOf(k)
  BY <1>1 DEF Units, Delivered, Past, Pending, acked, BlockOf
<1>3. Types'
  BY <1>1, <1>2 DEF IInv, Types
<1>4. Sender'
  BY <1>1, <1>2 DEF IInv, Sender, Reading, Smaller
<1>5. Receiver'
  BY <1>1, <1>2 DEF IInv, Receiver, Writing, Kept, Holds, Smaller
<1>6. Downstream'
  BY <1>1, <1>2 DEF IInv, Downstream, Genuine
<1>7. Pairs'
  BY <1>1, <1>2 DEF IInv, Pairs, Begun, Clean
<1>8. Upstream'
  BY <1>1, <1>2 DEF IInv, Upstream
<1> QED BY <1>3, <1>4, <1>5, <1>6, <1>7, <1>8 DEF IInv

(* Every step of the transmitter keeps the invariant.                      *)
LEMMA TransmitterStepKeeps ==
    ASSUME Honest, IInv, txStep
    PROVE  IInv'
<1>1. T!Next /\ UNCHANGED <<rxOwn, file>>
  BY DEF txStep
<1>2. DOMAIN T!Awaited = {"nameAck", "nameC", "blockAck", "eotAck", "eotC", "lastAck"}
  BY DEF T!Awaited
<1>3. ASSUME txPc \in DOMAIN T!Awaited PROVE T!FailCode[txPc] # 0 /\ T!AbortCode[txPc] # 0
  BY <1>2, <1>3 DEF T!FailCode, T!AbortCode
<1>4. CASE T!Start \/ T!Poll \/ T!PollTimeout \/ T!PollAnswer
  BY <1>1, <1>4, StartKeeps
<1>5. CASE T!OpenFile
  BY <1>1, <1>5, OpenFileKeeps
<1>6. CASE T!Ymodem_PreparePacket
  BY <1>1, <1>6, PrepareKeeps
<1>7. CASE T!Send_Packet
  <2>1. UNCHANGED <<toTx, blkNumber, txSize, packet_data, txFs, ret>>
    BY <1>7 DEF T!Send_Packet
  <2> QED BY <1>1, <1>7, <2>1, SendKeeps
<1>8. CASE T!Answered
  <2>1. txPc \in DOMAIN T!Awaited /\ TakesOne /\ T!Act(T!Response(toTx[1].ch))
    BY <1>8 DEF T!Answered, TakesOne
  <2>2. T!Response(toTx[1].ch) = 1 => toTx[1].ch = T!Awaited[txPc]
    BY DEF T!Response
  <2> DEFINE response == T!Response(toTx[1].ch)
  <2> HIDE DEF response
  <2>3. \/ response = 1 /\ T!GoOn
        \/ T!Fail(T!AbortCode[txPc], 2)
        \/ txPc \in T!Resendable /\ T!SendAgain
        \/ T!Fail(T!FailCode[txPc], response)
    BY <2>1 DEF T!Act, response
  <2>4. CASE response = 1 /\ T!GoOn
    BY <1>1, <1>2, <2>1, <2>2, <2>4, GoOnKeeps DEF response
  <2>5. CASE T!Fail(T!AbortCode[txPc], 2)
    BY <1>1, <1>3, <2>1, <2>5, GivesUp
  <2>6. CASE txPc \in T!Resendable /\ T!SendAgain
    BY <1>1, <2>1, <2>6, SendAgainKeeps
  <2>7. CASE T!Fail(T!FailCode[txPc], response)
    BY <1>1, <1>3, <2>1, <2>7, GivesUp
  <2> QED BY <2>3, <2>4, <2>5, <2>6, <2>7
<1>9. CASE T!Unanswered
  <2>1. txPc \in DOMAIN T!Awaited /\ toTx' = toTx
    BY <1>9 DEF T!Unanswered
  <2>2. CASE UNCHANGED <<toRx, faults, txPc, blkNumber, txSize, packet_data, txFs, ret>>
    BY <1>1, <2>1, <2>2, StutterKeeps
  <2>3. CASE T!Act(0)
    <3>1. T!Fail(T!FailCode[txPc], 0)
      BY <2>3 DEF T!Act
    <3> QED BY <1>1, <1>3, <2>1, <3>1, GivesUp
  <2> QED BY <1>9, <2>2, <2>3 DEF T!Unanswered
<1> QED BY <1>1, <1>4, <1>5, <1>6, <1>7, <1>8, <1>9 DEF T!Next

------------------------------------------------------------------------------
(* The theorems.                                                           *)
LEMMA InitHolds ==
    ASSUME Init
    PROVE  IInv
<1>1. PICK n \in Sizes, m \in OldSizes :
          /\ file = [k \in 1..n |-> k]
          /\ txFs = NewVolume([k \in 1..n |-> k])
          /\ rxFs = NewVolume([k \in 1..m |-> -k])
  BY DEF Init
<1>2. n \in Nat /\ m \in Nat
  BY SizesAssumption
<1>3. /\ toRx = <<>> /\ toTx = <<>> /\ rxPc = "off" /\ txPc = "off"
      /\ out = R!Outcome(0, 0, R!NoPacket)
      /\ eof_cnt = 0 /\ packets_received = 0 /\ file_len = 0 /\ rxSize = 0
      /\ blkNumber = 0 /\ txSize = 0 /\ packet_data = <<>>
  BY DEF Init, R!Init, T!Init
<1>4. out \in OutRecords /\ out.ret = 0 /\ out.length = 0
  BY <1>3, OutcomeFacts, NoPacketFacts
<1>5. file \in Seq(Int) /\ Len(file) = n /\ \A k \in 1..n : file[k] = k
  BY <1>1, <1>2
<1>6. ASSUME NEW contents \in Seq(Int)
      PROVE  NewVolume(contents) \in VolumeRecords /\ NewVolume(contents).stored = contents
  BY EmptyFacts DEF NewVolume, VolumeRecords
<1>7. txFs \in VolumeRecords /\ txFs.stored = file
  BY <1>1, <1>5, <1>6
<1>8. rxFs \in VolumeRecords
  <2>1. [k \in 1..m |-> -k] \in Seq(Int)
    BY <1>2
  <2> QED BY <1>1, <1>6, <2>1
<1>9. Types
  BY <1>3, <1>4, <1>5, <1>8, EmptyFacts DEF Types, OutRecords, Early, Units
<1>10. Sender
  BY <1>3, <1>7 DEF Sender, Early, Naming, Blocks, Ending
<1>11. Receiver
  BY <1>3 DEF Receiver
<1>12. Downstream
  BY <1>3 DEF Downstream, Pending
<1>13. Pairs
  BY <1>3 DEF Pairs, Sending, Naming, Blocks
<1>14. Upstream
  BY <1>3 DEF Upstream, Sending, Naming, Blocks
<1> QED BY <1>9, <1>10, <1>11, <1>12, <1>13, <1>14 DEF IInv

(* Every step of either board keeps the invariant.                         *)
LEMMA StepKeeps ==
    ASSUME Honest, IInv, [Next]_vars
    PROVE  IInv'
<1>1. CASE rxStep
  BY <1>1, ReceiverKeeps
<1>2. CASE txStep
  BY <1>2, TransmitterStepKeeps
<1>3. CASE UNCHANGED vars
  BY <1>3, StutterKeeps DEF vars, txOwn
<1> QED BY <1>1, <1>2, <1>3 DEF Next

(* The receiver's volume has all of the file.                              *)
LEMMA DeliveredIsStored ==
    ASSUME IInv, Delivered
    PROVE  Stored
<1>1. /\ packets_received >= 1 /\ file_len = Units /\ file \in Seq(Int)
      /\ \A k \in 1..Units : file[k] = k
  BY DEF Delivered, IInv, Types
<1>2. Writing(rxFs, Units) \/ Kept(rxFs, Units)
  BY <1>1 DEF IInv, Receiver
<1>3. ASSUME NEW c \in Seq(Int), Units <= Len(c), \A k \in 1..Units : c[k] = k
      PROVE  IsPrefix(file, c)
  BY <1>1, <1>3 DEF IsPrefix, Units
<1>4. CASE Writing(rxFs, Units)
  <2>1. rxFs.bFileIsOpen /\ rxFs.pos = Units /\ Holds(rxFs.cache, Units)
    BY <1>4 DEF Writing
  <2> DEFINE c == SubSeq(rxFs.cache, 1, Units)
  <2>2. c \in Seq(Int) /\ Len(c) = Units /\ \A k \in 1..Units : c[k] = rxFs.cache[k]
    <3>1. rxFs.cache \in Seq(Int) /\ Units \in 0..Len(rxFs.cache)
      BY <1>1, <2>1 DEF Holds, Units
    <3> QED BY <3>1, Beginning
  <2> HIDE DEF c
  <2>3. Units <= Len(c) /\ \A k \in 1..Units : c[k] = k
    <3>1. Units \in Nat /\ \A k \in 1..Units : rxFs.cache[k] = k
      BY <1>1, <2>1 DEF Holds, Units
    <3> HIDE DEF Units
    <3> QED BY <2>2, <3>1
  <2>4. IsPrefix(file, c)
    BY <1>3, <2>2, <2>3
  <2> QED BY <2>1, <2>4 DEF Stored, c
<1>5. CASE Kept(rxFs, Units)
  BY <1>3, <1>5 DEF Stored, Kept, Holds
<1> QED BY <1>2, <1>4, <1>5

(* The inductive invariant (see above) holds in every session of the two   *)
(* boards, for every size of packets and files, any number of damaged      *)
(* messages and any limits.                                                *)
THEOREM Invariant == Honest => (Spec => []IInv)
<1> SUFFICES ASSUME Honest PROVE Spec => []IInv
  OBVIOUS
<1>1. Init => IInv
  BY InitHolds
<1>2. IInv /\ [Next]_vars => IInv'
  BY StepKeeps
<1> QED BY <1>1, <1>2, PTL DEF Spec

(* ymodem.c:801, "file transmitted successfully", means it: the receiver's *)
(* volume has all of the file, whatever the line did to the messages.      *)
THEOREM SentMeansReceivedHolds == Honest => (Spec => []SentMeansReceived)
<1> SUFFICES ASSUME Honest PROVE Spec => []SentMeansReceived
  OBVIOUS
<1>1. IInv => SentMeansReceived
  BY DeliveredIsStored DEF IInv, Sender, SentMeansReceived
<1> QED BY <1>1, Invariant, PTL

(* cmd_ymodem.c:31, "... bytes received": when the receiver reports        *)
(* success it has stored all of the file, and counted its bytes right.     *)
THEOREM ReceivedMeansStoredHolds == Honest => (Spec => []ReceivedMeansStored)
<1> SUFFICES ASSUME Honest PROVE Spec => []ReceivedMeansStored
  OBVIOUS
<1>1. IInv => ReceivedMeansStored
  BY DeliveredIsStored DEF IInv, Receiver, ReceivedMeansStored, ReportsReceived, Units
<1> QED BY <1>1, Invariant, PTL

------------------------------------------------------------------------------
(* The check of a packet. What crc16 computes is a fold, and a fold is a   *)
(* function that is chosen; it exists for every number of bytes by         *)
(* induction, and is then known byte by byte.                              *)

(* A set of natural numbers that is not empty has a least element.         *)
LEMMA LeastOf ==
    ASSUME NEW U, U \subseteq Nat, U # {}
    PROVE  \E n \in U : \A k \in U : n <= k
<1> DEFINE Below == OpToRel(<, Nat)
<1>1. IsWellFoundedOn(Below, Nat)
  BY NatLessThanWellFounded
<1>2. \A a, b \in Nat : <<a, b>> \in Below <=> a < b
  BY DEF OpToRel
<1> HIDE DEF Below
<1>3. PICK n \in U : \A k \in U : ~(<<k, n>> \in Below)
  BY <1>1, WFMin
<1>4. ASSUME NEW k \in U PROVE n <= k
  <2>1. ~(<<k, n>> \in Below) /\ k \in Nat /\ n \in Nat
    BY <1>3
  <2> QED BY <1>2, <2>1
<1> QED
  BY <1>4

(* A set that holds 0, and the successor of every number in it, holds      *)
(* every natural number.                                                   *)
LEMMA SetInduction ==
    ASSUME NEW S, 0 \in S, \A n \in Nat : n \in S => n + 1 \in S
    PROVE  Nat \subseteq S
<1> SUFFICES ASSUME ~(Nat \subseteq S) PROVE FALSE
  OBVIOUS
<1> DEFINE U == Nat \ S
<1>1. U \subseteq Nat /\ U # {}
  OBVIOUS
<1>2. PICK n \in U : \A k \in U : n <= k
  BY <1>1, LeastOf
<1>3. n # 0 /\ n - 1 \in Nat /\ n - 1 \notin U
  BY <1>2
<1>4. n - 1 + 1 = n
  BY <1>2
<1> QED
  BY <1>2, <1>3, <1>4

(* The Max with which the folds of the community modules take the elements *)
(* of a set one by one.                                                    *)
LEMMA MaxFacts ==
    ASSUME NEW n \in Nat, NEW S, S \subseteq 1..n, S # {}
    PROVE  Max(S) \in S /\ \A k \in S : k <= Max(S)
<1> DEFINE U == {b \in Nat : \A k \in S : k <= b}
<1>1. n \in U
  OBVIOUS
<1>2. PICK b \in U : \A c \in U : b <= c
  <2>1. U \subseteq Nat /\ U # {}
    BY <1>1
  <2> QED BY <2>1, LeastOf
<1>3. b \in S
  <2>1. SUFFICES ASSUME b \notin S PROVE FALSE
    OBVIOUS
  <2>2. b > 0
    <3>1. PICK k \in S : k \in 1..n
      OBVIOUS
    <3>2. b \in Nat /\ k <= b
      BY <1>2, <3>1
    <3> QED BY <3>1, <3>2
  <2>3. b - 1 \in U
    BY <1>2, <2>1, <2>2
  <2> QED BY <1>2, <2>3
<1>4. \A k \in S : b >= k
  BY <1>2
<1>5. Max(S) \in S /\ \A k \in S : Max(S) >= k
  BY <1>3, <1>4 DEF Max
<1> QED BY <1>5

(* A fold takes the last element of a sequence last.                       *)
LEMMA LastIsTaken == \A n \in Nat \ {0} : \A S \in SUBSET (1..n) : n \in S => Max(S) = n
<1> TAKE n \in Nat \ {0}
<1> TAKE S \in SUBSET (1..n)
<1> HAVE n \in S
<1>1. Max(S) \in S /\ \A k \in S : k <= Max(S)
  BY MaxFacts
<1>2. Max(S) \in 1..n /\ n <= Max(S)
  BY <1>1
<1> HIDE DEF Max
<1> QED BY ONLY <1>2, n \in Nat

(* The function FoldLeft chooses, for the bytes of a buffer.               *)
Crcs(buf, n, f) ==
    f = [s \in SUBSET (1..n) |-> IF s = {} THEN {} ELSE crc16_byte(f[s \ {Max(s)}], buf[Max(s)])]

(* There is such a function for every number of bytes.                     *)
LEMMA CrcsExist == \A buf : \A n \in Nat : \E f : Crcs(buf, n, f)
<1> TAKE buf
<1> DEFINE Good == {n \in Nat : \E f : Crcs(buf, n, f)}
<1>1. 0 \in Good
  <2> DEFINE f == [s \in SUBSET (1..0) |-> {}]
  <2>1. \A s \in SUBSET (1..0) : s = {}
    OBVIOUS
  <2>2. f = [s \in SUBSET (1..0) |-> IF s = {} THEN {} ELSE crc16_byte(f[s \ {Max(s)}], buf[Max(s)])]
    BY <2>1
  <2>3. Crcs(buf, 0, f)
    BY <2>2 DEF Crcs
  <2> QED BY <2>3
<1>2. ASSUME NEW n \in Nat, n \in Good PROVE n + 1 \in Good
  <2>1. PICK f : Crcs(buf, n, f)
    BY <1>2
  <2>2. f = [s \in SUBSET (1..n) |-> IF s = {} THEN {} ELSE crc16_byte(f[s \ {Max(s)}], buf[Max(s)])]
    BY <2>1 DEF Crcs
  <2> DEFINE last == n + 1
             g == [s \in SUBSET (1..last) |->
                      IF last \in s THEN crc16_byte(f[s \ {last}], buf[last]) ELSE f[s]]
  <2>3. ASSUME NEW s \in SUBSET (1..last)
        PROVE  g[s] = IF s = {} THEN {} ELSE crc16_byte(g[s \ {Max(s)}], buf[Max(s)])
    <3>1. CASE last \in s
      <4>1. Max(s) = last /\ s # {}
        BY <3>1, LastIsTaken
      <4>2. s \ {last} \in SUBSET (1..last) /\ last \notin s \ {last}
        OBVIOUS
      <4>3. g[s \ {last}] = f[s \ {last}]
        BY <4>2
      <4> QED BY <3>1, <4>1, <4>3
    <3>2. CASE last \notin s
      <4>1. s \in SUBSET (1..n)
        BY <3>2
      <4>2. g[s] = f[s] /\ f[s] = IF s = {} THEN {} ELSE crc16_byte(f[s \ {Max(s)}], buf[Max(s)])
        BY <2>2, <3>2, <4>1
      <4>3. s \ {Max(s)} \in SUBSET (1..last) /\ last \notin s \ {Max(s)}
        BY <3>2
      <4>4. g[s \ {Max(s)}] = f[s \ {Max(s)}]
        BY <4>3
      <4> QED BY <4>2, <4>4
    <3> QED BY <3>1, <3>2
  <2>4. g = [s \in SUBSET (1..last) |-> g[s]]
    OBVIOUS
  <2> HIDE DEF g
  <2>5. [s \in SUBSET (1..last) |-> g[s]]
          = [s \in SUBSET (1..last) |-> IF s = {} THEN {} ELSE crc16_byte(g[s \ {Max(s)}], buf[Max(s)])]
    BY <2>3
  <2>6. Crcs(buf, last, g)
    BY <2>4, <2>5 DEF Crcs
  <2> QED BY <2>6
<1> HIDE DEF Good
<1>3. Nat \subseteq Good
  BY <1>1, <1>2, SetInduction
<1> QED BY <1>3 DEF Good

(* crc16 byte by byte: the register after the first i of them.             *)
Registers(buf, n, g) ==
    /\ g[0] = {}
    /\ \A i \in 0..(n - 1) : g[i + 1] = crc16_byte(g[i], buf[i + 1])

(* crc16 is what the registers end with.                                   *)
LEMMA CrcUnfolds ==
    ASSUME NEW buf, NEW n \in Nat, DOMAIN buf = 1..n
    PROVE  \E g : Registers(buf, n, g) /\ crc16(buf) = g[n]
<1> DEFINE f == CHOOSE h : Crcs(buf, n, h)
<1>1. crc16(buf) = f[1..n]
  BY DEF crc16, FoldLeft, MapThenFoldSet, Crcs
<1>2. Crcs(buf, n, f)
  BY CrcsExist
<1> HIDE DEF f
<1>3. f = [s \in SUBSET (1..n) |-> IF s = {} THEN {} ELSE crc16_byte(f[s \ {Max(s)}], buf[Max(s)])]
  BY <1>2 DEF Crcs
<1> DEFINE g == [i \in 0..n |-> f[1..i]]
<1>4. g[0] = {}
  <2>1. 1..0 = {} /\ 0 \in 0..n /\ {} \in SUBSET (1..n)
    OBVIOUS
  <2> QED BY <2>1, <1>3
<1>5. ASSUME NEW i \in 0..(n - 1) PROVE g[i + 1] = crc16_byte(g[i], buf[i + 1])
  <2> DEFINE k == i + 1
  <2>1. i \in 0..n /\ k \in 0..n /\ k \in Nat \ {0} /\ 1..k \in SUBSET (1..n) /\ k \in 1..k
        /\ (1..k) \ {k} = 1..i
    OBVIOUS
  <2>2. Max(1..k) = k
    BY <2>1, LastIsTaken
  <2> HIDE DEF k
  <2>3. f[1..k] = crc16_byte(f[(1..k) \ {Max(1..k)}], buf[Max(1..k)])
    BY <1>3, <2>1
  <2>4. g[k] = crc16_byte(g[i], buf[k])
    BY <2>1, <2>2, <2>3
  <2> QED BY <2>4 DEF k
<1>6. crc16(buf) = g[n]
  BY <1>1
<1> HIDE DEF g
<1> QED BY <1>4, <1>5, <1>6 DEF Registers

(* A byte, as the set of its bits that are 1.                              *)
Byte == SUBSET (0..7)

(* One bit: the register moves up, and the bit that falls out at its end   *)
(* says whether the polynomial is added. That bit comes in again as bit 0. *)
LEMMA BitFacts ==
    ASSUME NEW c \in SUBSET (0..15)
    PROVE  /\ crc16_bit(c) \in SUBSET (0..15)
           /\ 0 \in crc16_bit(c) <=> 15 \in c
           /\ \A b \in 0..14 : (b + 1 \in crc16_bit(c)) <=> ((b \in c) /= (15 \in c /\ b + 1 \in Polynomial))
<1>1. /\ Left(c, 1, 16) \in SUBSET (0..15) /\ 0 \notin Left(c, 1, 16)
      /\ \A b \in 0..14 : b + 1 \in Left(c, 1, 16) <=> b \in c
  BY DEF Left
<1>2. CASE 15 \in c
  <2>1. \A b \in 0..15 : b \in crc16_bit(c) <=> ((b \in Left(c, 1, 16)) /= (b \in Polynomial))
    BY <1>2, <1>1 DEF crc16_bit, SymDiff
  <2>2. crc16_bit(c) \in SUBSET (0..15)
    BY <1>2, <1>1 DEF crc16_bit, SymDiff, Polynomial
  <2>3. 0 \in crc16_bit(c)
    BY <2>1, <1>1 DEF Polynomial
  <2> QED BY <1>1, <1>2, <2>1, <2>2, <2>3
<1>3. CASE 15 \notin c
  BY <1>1, <1>3 DEF crc16_bit
<1> QED BY <1>2, <1>3

(* So nothing is lost: two registers that differ still differ.             *)
LEMMA BitInjective ==
    ASSUME NEW c \in SUBSET (0..15), NEW d \in SUBSET (0..15), crc16_bit(c) = crc16_bit(d)
    PROVE  c = d
<1>1. 15 \in c <=> 15 \in d
  BY BitFacts
<1>2. ASSUME NEW b \in 0..14 PROVE b \in c <=> b \in d
  BY <1>1, BitFacts
<1>3. ASSUME NEW b \in 0..15 PROVE b \in c <=> b \in d
  <2>1. b = 15 \/ b \in 0..14
    OBVIOUS
  <2> QED BY <1>1, <1>2, <2>1
<1> QED BY <1>3

(* A byte is added to the upper half of the register.                      *)
LEMMA AddedType ==
    ASSUME NEW c \in SUBSET (0..15), NEW byte \in SUBSET (0..7)
    PROVE  SymDiff(c, Left(byte, 8, 16)) \in SUBSET (0..15)
<1>1. Left(byte, 8, 16) \in SUBSET (0..15)
  BY DEF Left
<1> QED BY <1>1 DEF SymDiff

(* The function FoldLeft chooses, for the rounds of the inner loop.        *)
Rounds(n, base, f) ==
    f = [s \in SUBSET (1..n) |-> IF s = {} THEN base ELSE crc16_bit(f[s \ {Max(s)}])]

(* There is such a function for every number of rounds.                    *)
LEMMA RoundsExist == \A base : \A n \in Nat : \E f : Rounds(n, base, f)
<1> TAKE base
<1> DEFINE Good == {n \in Nat : \E f : Rounds(n, base, f)}
<1>1. 0 \in Good
  <2> DEFINE f == [s \in SUBSET (1..0) |-> base]
  <2>1. \A s \in SUBSET (1..0) : s = {}
    OBVIOUS
  <2>2. f = [s \in SUBSET (1..0) |-> IF s = {} THEN base ELSE crc16_bit(f[s \ {Max(s)}])]
    BY <2>1
  <2>3. Rounds(0, base, f)
    BY <2>2 DEF Rounds
  <2> QED BY <2>3
<1>2. ASSUME NEW n \in Nat, n \in Good PROVE n + 1 \in Good
  <2>1. PICK f : Rounds(n, base, f)
    BY <1>2
  <2>2. f = [s \in SUBSET (1..n) |-> IF s = {} THEN base ELSE crc16_bit(f[s \ {Max(s)}])]
    BY <2>1 DEF Rounds
  <2> DEFINE last == n + 1
             g == [s \in SUBSET (1..last) |-> IF last \in s THEN crc16_bit(f[s \ {last}]) ELSE f[s]]
  <2>3. ASSUME NEW s \in SUBSET (1..last)
        PROVE  g[s] = IF s = {} THEN base ELSE crc16_bit(g[s \ {Max(s)}])
    <3>1. CASE last \in s
      <4>1. Max(s) = last /\ s # {}
        BY <3>1, LastIsTaken
      <4>2. s \ {last} \in SUBSET (1..last) /\ last \notin s \ {last}
        OBVIOUS
      <4>3. g[s \ {last}] = f[s \ {last}]
        BY <4>2
      <4> QED BY <3>1, <4>1, <4>3
    <3>2. CASE last \notin s
      <4>1. s \in SUBSET (1..n)
        BY <3>2
      <4>2. g[s] = f[s] /\ f[s] = IF s = {} THEN base ELSE crc16_bit(f[s \ {Max(s)}])
        BY <2>2, <3>2, <4>1
      <4>3. s \ {Max(s)} \in SUBSET (1..last) /\ last \notin s \ {Max(s)}
        BY <3>2
      <4>4. g[s \ {Max(s)}] = f[s \ {Max(s)}]
        BY <4>3
      <4> QED BY <4>2, <4>4
    <3> QED BY <3>1, <3>2
  <2>4. g = [s \in SUBSET (1..last) |-> g[s]]
    OBVIOUS
  <2> HIDE DEF g
  <2>5. [s \in SUBSET (1..last) |-> g[s]]
          = [s \in SUBSET (1..last) |-> IF s = {} THEN base ELSE crc16_bit(g[s \ {Max(s)}])]
    BY <2>3
  <2>6. Rounds(last, base, g)
    BY <2>4, <2>5 DEF Rounds
  <2> QED BY <2>6
<1> HIDE DEF Good
<1>3. Nat \subseteq Good
  BY <1>1, <1>2, SetInduction
<1> QED BY <1>3 DEF Good

(* crc16_byte is eight rounds on the register with the byte added.         *)
LEMMA ByteUnfolds ==
    ASSUME NEW crc, NEW byte
    PROVE  \E g : /\ g[0] = SymDiff(crc, Left(byte, 8, 16))
                  /\ \A i \in 0..7 : g[i + 1] = crc16_bit(g[i])
                  /\ crc16_byte(crc, byte) = g[8]
<1> DEFINE base == SymDiff(crc, Left(byte, 8, 16))
           f == CHOOSE h : Rounds(8, base, h)
<1>0. DOMAIN [i \in 1..8 |-> i] = 1..8
  OBVIOUS
<1>1. crc16_byte(crc, byte) = f[1..8]
  BY <1>0 DEF crc16_byte, FoldLeft, MapThenFoldSet, Rounds
<1>2. Rounds(8, base, f)
  BY RoundsExist
<1> HIDE DEF f, base
<1>3. f = [s \in SUBSET (1..8) |-> IF s = {} THEN base ELSE crc16_bit(f[s \ {Max(s)}])]
  BY <1>2 DEF Rounds
<1> DEFINE g == [i \in 0..8 |-> f[1..i]]
<1>4. g[0] = base
  <2>1. 1..0 = {} /\ 0 \in 0..8 /\ {} \in SUBSET (1..8)
    OBVIOUS
  <2> QED BY <2>1, <1>3
<1>5. ASSUME NEW i \in 0..7 PROVE g[i + 1] = crc16_bit(g[i])
  <2> DEFINE k == i + 1
  <2>1. i \in 0..8 /\ k \in 0..8 /\ k \in Nat \ {0} /\ 1..k \in SUBSET (1..8) /\ k \in 1..k
        /\ (1..k) \ {k} = 1..i
    OBVIOUS
  <2>2. Max(1..k) = k
    BY <2>1, LastIsTaken
  <2> HIDE DEF k
  <2>3. f[1..k] = crc16_bit(f[(1..k) \ {Max(1..k)}])
    BY <1>3, <2>1
  <2>4. g[k] = crc16_bit(g[i])
    BY <2>1, <2>2, <2>3
  <2> QED BY <2>4 DEF k
<1>6. crc16_byte(crc, byte) = g[8]
  BY <1>1
<1> HIDE DEF g
<1> QED BY <1>4, <1>5, <1>6 DEF base

(* The register is one after a byte.                                       *)
LEMMA ByteType ==
    ASSUME NEW c \in SUBSET (0..15), NEW byte \in SUBSET (0..7)
    PROVE  crc16_byte(c, byte) \in SUBSET (0..15)
<1>1. PICK g : /\ g[0] = SymDiff(c, Left(byte, 8, 16))
               /\ \A i \in 0..7 : g[i + 1] = crc16_bit(g[i])
               /\ crc16_byte(c, byte) = g[8]
  BY ByteUnfolds
<1>2. g[0] \in SUBSET (0..15)
  BY <1>1, AddedType
<1> DEFINE Good == {n \in Nat : n <= 8 => g[n] \in SUBSET (0..15)}
<1>3. 0 \in Good
  BY <1>2
<1>4. ASSUME NEW n \in Nat, n \in Good PROVE n + 1 \in Good
  <2> SUFFICES ASSUME n + 1 <= 8 PROVE g[n + 1] \in SUBSET (0..15)
    OBVIOUS
  <2>1. n \in 0..7 /\ g[n] \in SUBSET (0..15)
    BY <1>4
  <2>2. crc16_bit(g[n]) \in SUBSET (0..15)
    BY <2>1, BitFacts
  <2> QED BY <1>1, <2>1, <2>2
<1> HIDE DEF Good
<1>5. Nat \subseteq Good
  BY <1>3, <1>4, SetInduction
<1> QED BY <1>1, <1>5 DEF Good

(* Two registers that differ when the byte is added differ after it.       *)
LEMMA ByteInjective ==
    ASSUME NEW c \in SUBSET (0..15), NEW x \in SUBSET (0..7),
           NEW d \in SUBSET (0..15), NEW y \in SUBSET (0..7),
           SymDiff(c, Left(x, 8, 16)) # SymDiff(d, Left(y, 8, 16))
    PROVE  crc16_byte(c, x) # crc16_byte(d, y)
<1>1. PICK g : /\ g[0] = SymDiff(c, Left(x, 8, 16))
               /\ \A i \in 0..7 : g[i + 1] = crc16_bit(g[i])
               /\ crc16_byte(c, x) = g[8]
  BY ByteUnfolds
<1>2. PICK h : /\ h[0] = SymDiff(d, Left(y, 8, 16))
               /\ \A i \in 0..7 : h[i + 1] = crc16_bit(h[i])
               /\ crc16_byte(d, y) = h[8]
  BY ByteUnfolds
<1>3. g[0] \in SUBSET (0..15) /\ h[0] \in SUBSET (0..15)
  BY <1>1, <1>2, AddedType
<1> DEFINE Good == {n \in Nat : n <= 8 => /\ g[n] \in SUBSET (0..15) /\ h[n] \in SUBSET (0..15)
                                       /\ g[n] # h[n]}
<1>4. 0 \in Good
  BY <1>1, <1>2, <1>3
<1>5. ASSUME NEW n \in Nat, n \in Good PROVE n + 1 \in Good
  <2> SUFFICES ASSUME n + 1 <= 8
               PROVE  g[n + 1] \in SUBSET (0..15) /\ h[n + 1] \in SUBSET (0..15) /\ g[n + 1] # h[n + 1]
    OBVIOUS
  <2>1. n \in 0..7 /\ g[n] \in SUBSET (0..15) /\ h[n] \in SUBSET (0..15) /\ g[n] # h[n]
    BY <1>5
  <2>2. /\ crc16_bit(g[n]) \in SUBSET (0..15) /\ crc16_bit(h[n]) \in SUBSET (0..15)
        /\ crc16_bit(g[n]) # crc16_bit(h[n])
    BY <2>1, BitFacts, BitInjective
  <2> QED BY <1>1, <1>2, <2>1, <2>2
<1> HIDE DEF Good
<1>6. Nat \subseteq Good
  BY <1>4, <1>5, SetInduction
<1>7. 8 \in Good
  BY <1>6
<1> QED BY <1>1, <1>2, <1>7 DEF Good

(* A byte that meets the same byte in the upper half of the register       *)
(* clears it and lets the lower half go up.                                *)
LEMMA ByteShifts ==
    ASSUME NEW c \in SUBSET (0..15), NEW byte \in SUBSET (0..7),
           NEW low \in SUBSET (0..7), SymDiff(c, Left(byte, 8, 16)) = low
    PROVE  crc16_byte(c, byte) = Left(low, 8, 16)
<1>1. PICK g : /\ g[0] = low
               /\ \A i \in 0..7 : g[i + 1] = crc16_bit(g[i])
               /\ crc16_byte(c, byte) = g[8]
  BY ByteUnfolds
<1> DEFINE Good == {n \in Nat : n <= 8 => g[n] = Left(low, n, 16)}
<1>2. 0 \in Good
  <2>1. Left(low, 0, 16) = low
    <3>1. \A b \in low : b + 0 = b /\ b \in 0..15
      OBVIOUS
    <3>2. {b + 0 : b \in low} = low
      BY <3>1
    <3>3. low \cap (0..15) = low
      BY <3>1
    <3> QED BY <3>2, <3>3 DEF Left
  <2> QED BY <2>1, <1>1
<1>3. ASSUME NEW n \in Nat, n \in Good PROVE n + 1 \in Good
  <2> SUFFICES ASSUME n + 1 <= 8 PROVE g[n + 1] = Left(low, n + 1, 16)
    OBVIOUS
  <2>1. n \in 0..7 /\ g[n] = Left(low, n, 16)
    BY <1>3
  <2>2. 15 \notin Left(low, n, 16)
    BY <2>1 DEF Left
  <2>3. crc16_bit(Left(low, n, 16)) = Left(Left(low, n, 16), 1, 16)
    BY <2>2 DEF crc16_bit
  <2>4. Left(Left(low, n, 16), 1, 16) = Left(low, n + 1, 16)
    <3>1. \A b \in low : b + n \in 0..14 /\ b + n + 1 = b + (n + 1) /\ b + n \in 0..15 /\ b + n + 1 \in 0..15
      BY <2>1
    <3>2. Left(low, n, 16) = {b + n : b \in low} /\ Left(low, n + 1, 16) = {b + (n + 1) : b \in low}
      BY <2>1, <3>1 DEF Left
    <3>3. Left({b + n : b \in low}, 1, 16) = {b + n + 1 : b \in low}
      <4>1. Left({b + n : b \in low}, 1, 16) = {x + 1 : x \in {b + n : b \in low}} \cap (0..15)
        BY DEF Left
      <4>2. {x + 1 : x \in {b + n : b \in low}} = {b + n + 1 : b \in low}
        OBVIOUS
      <4>3. {b + n + 1 : b \in low} \subseteq 0..15
        BY <3>1
      <4> QED BY <4>1, <4>2, <4>3
    <3>4. {b + n + 1 : b \in low} = {b + (n + 1) : b \in low}
      BY <3>1
    <3> QED BY <3>2, <3>3, <3>4
  <2> QED BY <1>1, <2>1, <2>3, <2>4
<1> HIDE DEF Good
<1>4. Nat \subseteq Good
  BY <1>2, <1>3, SetInduction
<1>5. 8 \in Good
  BY <1>4
<1> QED BY <1>1, <1>5 DEF Good

(* The register is one after every byte.                                   *)
LEMMA RegistersType ==
    ASSUME NEW buf \in Seq(Byte), NEW g, Registers(buf, Len(buf), g)
    PROVE  \A i \in 0..Len(buf) : g[i] \in SUBSET (0..15)
<1> DEFINE Good == {i \in Nat : i <= Len(buf) => g[i] \in SUBSET (0..15)}
<1>1. 0 \in Good
  BY DEF Registers
<1>2. ASSUME NEW i \in Nat, i \in Good PROVE i + 1 \in Good
  <2> SUFFICES ASSUME i + 1 <= Len(buf) PROVE g[i + 1] \in SUBSET (0..15)
    OBVIOUS
  <2>1. i \in 0..(Len(buf) - 1) /\ i + 1 \in 1..Len(buf) /\ g[i] \in SUBSET (0..15)
    BY <1>2
  <2>2. buf[i + 1] \in Byte
    BY <2>1
  <2>3. g[i + 1] = crc16_byte(g[i], buf[i + 1])
    BY <2>1 DEF Registers
  <2> QED BY <2>1, <2>2, <2>3, ByteType DEF Byte
<1> HIDE DEF Good
<1>3. Nat \subseteq Good
  BY <1>1, <1>2, SetInduction
<1> QED BY <1>3 DEF Good

(* Two sequences of bytes that are the same up to a place give the same    *)
(* registers up to it.                                                     *)
LEMMA SameRegisters ==
    ASSUME NEW buf \in Seq(Byte), NEW other \in Seq(Byte), NEW k \in Nat,
           k <= Len(buf), k <= Len(other), \A i \in 1..k : buf[i] = other[i],
           NEW g, Registers(buf, Len(buf), g), NEW h, Registers(other, Len(other), h)
    PROVE  g[k] = h[k]
<1> DEFINE Good == {i \in Nat : i <= k => g[i] = h[i]}
<1>1. 0 \in Good
  BY DEF Registers
<1>2. ASSUME NEW i \in Nat, i \in Good PROVE i + 1 \in Good
  <2> SUFFICES ASSUME i + 1 <= k PROVE g[i + 1] = h[i + 1]
    OBVIOUS
  <2>1. i \in 0..(Len(buf) - 1) /\ i \in 0..(Len(other) - 1) /\ i + 1 \in 1..k /\ g[i] = h[i]
    BY <1>2
  <2>2. buf[i + 1] = other[i + 1]
    BY <2>1
  <2>3. g[i + 1] = crc16_byte(g[i], buf[i + 1]) /\ h[i + 1] = crc16_byte(h[i], other[i + 1])
    BY <2>1 DEF Registers
  <2> QED BY <2>1, <2>2, <2>3
<1> HIDE DEF Good
<1>3. Nat \subseteq Good
  BY <1>1, <1>2, SetInduction
<1> QED BY <1>3 DEF Good

(* A byte that differs changes the register for good.                      *)
LEMMA Spoiled ==
    ASSUME NEW buf \in Seq(Byte), NEW other \in Seq(Byte), Len(buf) = Len(other),
           NEW k \in 1..Len(buf), buf[k] # other[k],
           \A i \in 1..Len(buf) : i # k => buf[i] = other[i]
    PROVE  crc16(buf) # crc16(other)
<1>0. Len(buf) \in Nat /\ DOMAIN buf = 1..Len(buf) /\ DOMAIN other = 1..Len(buf)
  OBVIOUS
<1>1. PICK g : Registers(buf, Len(buf), g) /\ crc16(buf) = g[Len(buf)]
  BY <1>0, CrcUnfolds
<1>2. PICK h : Registers(other, Len(other), h) /\ crc16(other) = h[Len(buf)]
  BY <1>0, CrcUnfolds
<1>3. \A i \in 0..Len(buf) : g[i] \in SUBSET (0..15) /\ h[i] \in SUBSET (0..15)
  BY <1>1, <1>2, RegistersType
<1>4. /\ \A i \in 0..(Len(buf) - 1) : g[i + 1] = crc16_byte(g[i], buf[i + 1])
      /\ \A i \in 0..(Len(buf) - 1) : h[i + 1] = crc16_byte(h[i], other[i + 1])
  BY <1>1, <1>2 DEF Registers
<1>5. \A i \in 1..Len(buf) : buf[i] \in SUBSET (0..7) /\ other[i] \in SUBSET (0..7)
  BY DEF Byte
<1>6. g[k - 1] = h[k - 1]
  <2>1. /\ k - 1 \in Nat /\ k - 1 <= Len(buf) /\ k - 1 <= Len(other)
        /\ \A i \in 1..(k - 1) : buf[i] = other[i]
    BY <1>0
  <2> QED BY <1>1, <1>2, <2>1, SameRegisters
<1>7. g[k] # h[k]
  <2> DEFINE i == k - 1
  <2>1. i \in 0..(Len(buf) - 1) /\ i + 1 = k /\ i \in 0..Len(buf)
    BY <1>0
  <2>2. g[k] = crc16_byte(g[i], buf[k]) /\ h[k] = crc16_byte(h[i], other[k]) /\ g[i] = h[i]
        /\ g[i] \in SUBSET (0..15)
    BY <1>3, <1>4, <1>6, <2>1
  <2> HIDE DEF i
  <2>3. buf[k] \in SUBSET (0..7) /\ other[k] \in SUBSET (0..7)
    BY <1>5
  <2>4. PICK b \in 0..7 : ~(b \in buf[k] <=> b \in other[k])
    BY <2>3
  <2>5. b + 8 \in 0..15 /\ ~(b + 8 \in Left(buf[k], 8, 16) <=> b + 8 \in Left(other[k], 8, 16))
    <3>1. ASSUME NEW bits \in SUBSET (0..7)
          PROVE  b + 8 \in Left(bits, 8, 16) <=> b \in bits
      BY <2>4 DEF Left
    <3> QED BY <2>3, <2>4, <3>1
  <2>6. SymDiff(g[i], Left(buf[k], 8, 16)) # SymDiff(g[i], Left(other[k], 8, 16))
    BY <2>5 DEF SymDiff
  <2> QED BY <2>2, <2>3, <2>6, ByteInjective
<1> DEFINE Good == {i \in Nat : k + i <= Len(buf) => g[k + i] # h[k + i]}
<1>8. 0 \in Good
  BY <1>7
<1>9. ASSUME NEW i \in Nat, i \in Good PROVE i + 1 \in Good
  <2> SUFFICES ASSUME k + (i + 1) <= Len(buf) PROVE g[k + (i + 1)] # h[k + (i + 1)]
    OBVIOUS
  <2> DEFINE j == k + i
  <2>1. j \in 0..(Len(buf) - 1) /\ j \in 0..Len(buf) /\ j + 1 \in 1..Len(buf) /\ j + 1 # k
        /\ j + 1 = k + (i + 1)
    BY <1>0
  <2>2. g[j] # h[j]
    BY <1>9, <2>1
  <2> HIDE DEF j
  <2>3. /\ g[j + 1] = crc16_byte(g[j], buf[j + 1]) /\ h[j + 1] = crc16_byte(h[j], buf[j + 1])
        /\ g[j] \in SUBSET (0..15) /\ h[j] \in SUBSET (0..15) /\ buf[j + 1] \in SUBSET (0..7)
    BY <1>3, <1>4, <1>5, <2>1
  <2>4. SymDiff(g[j], Left(buf[j + 1], 8, 16)) # SymDiff(h[j], Left(buf[j + 1], 8, 16))
    BY <2>2 DEF SymDiff
  <2>5. g[j + 1] # h[j + 1]
    BY <2>3, <2>4, ByteInjective
  <2> QED BY <2>1, <2>5
<1> HIDE DEF Good
<1>10. Nat \subseteq Good
  BY <1>8, <1>9, SetInduction
<1>11. Len(buf) - k \in Good /\ k + (Len(buf) - k) = Len(buf)
  BY <1>0, <1>10
<1> QED BY <1>1, <1>2, <1>11 DEF Good

(* The trailer is two bytes.                                               *)
LEMMA TrailerType ==
    ASSUME NEW data \in Seq(Byte)
    PROVE  /\ crc16(data) \in SUBSET (0..15)
           /\ Right(crc16(data), 8) \in Byte /\ crc16(data) \cap (0..7) \in Byte
<1>0. Len(data) \in Nat /\ DOMAIN data = 1..Len(data)
  OBVIOUS
<1>1. PICK g : Registers(data, Len(data), g) /\ crc16(data) = g[Len(data)]
  BY <1>0, CrcUnfolds
<1>2. crc16(data) \in SUBSET (0..15)
  BY <1>0, <1>1, RegistersType
<1>3. \A b \in 0..15 : b - 8 \in Nat => b - 8 \in 0..7
  OBVIOUS
<1> QED BY <1>2, <1>3 DEF Right, Byte

(* The two bytes of the trailer clear the register.                        *)
LEMMA TrailerClears ==
    ASSUME NEW data \in Seq(Byte)
    PROVE  crc16(data \o Trailer(data)) = {}
<1> DEFINE n == Len(data)
           c == crc16(data)
           high == Right(c, 8)
           low == c \cap (0..7)
           all == data \o Trailer(data)
<1>1. c \in SUBSET (0..15) /\ high \in Byte /\ low \in Byte
  BY TrailerType
<1>2. Trailer(data) = <<high, low>>
  BY DEF Trailer
<1>3. /\ n \in Nat /\ all \in Seq(Byte) /\ Len(all) = n + 2
      /\ (\A i \in 1..n : all[i] = data[i]) /\ all[n + 1] = high /\ all[n + 2] = low
  <2> HIDE DEF high, low
  <2> QED BY <1>1, <1>2
<1>4. DOMAIN data = 1..n /\ DOMAIN all = 1..(n + 2)
  BY <1>3
<1> HIDE DEF all
<1>5. PICK g : Registers(data, Len(data), g) /\ c = g[n]
  BY <1>3, <1>4, CrcUnfolds
<1>6. PICK h : Registers(all, Len(all), h) /\ crc16(all) = h[n + 2]
  BY <1>3, <1>4, CrcUnfolds
<1>7. h[n] = c
  <2>1. n <= Len(all) /\ n <= Len(data)
    BY <1>3
  <2>2. \A i \in 1..n : data[i] = all[i]
    BY <1>3
  <2> HIDE DEF n, c
  <2>3. g[n] = h[n]
    BY <1>3, <1>5, <1>6, <2>1, <2>2, SameRegisters
  <2> QED BY <1>5, <2>3
<1> HIDE DEF n, c, high, low
<1>8. h[n + 1] = crc16_byte(c, high) /\ h[n + 2] = crc16_byte(h[n + 1], low)
  <2>1. n \in 0..(Len(all) - 1) /\ n + 1 \in 0..(Len(all) - 1) /\ (n + 1) + 1 = n + 2
    BY <1>3
  <2> QED BY <1>3, <1>6, <1>7, <2>1 DEF Registers
<1>9. SymDiff(c, Left(high, 8, 16)) = low
  <2>1. \A b \in 0..15 : b \in Left(high, 8, 16) <=> b \in c /\ b >= 8
    <3>1. \A b \in 0..15 : b \in Left(high, 8, 16) <=> b - 8 \in high
      BY <1>1 DEF Left, Byte
    <3>2. \A b \in 0..15 : b - 8 \in high <=> b \in c /\ b >= 8
      BY <1>1 DEF Right, high
    <3> QED BY <3>1, <3>2
  <2>2. Left(high, 8, 16) \subseteq 0..15
    BY DEF Left
  <2>3. \A b \in 0..15 : b \in low <=> b \in c /\ ~(b >= 8)
    BY DEF low
  <2>4. low \subseteq 0..15
    BY DEF low
  <2> QED BY <1>1, <2>1, <2>2, <2>3, <2>4 DEF SymDiff
<1>10. h[n + 1] = Left(low, 8, 16)
  BY <1>1, <1>8, <1>9, ByteShifts DEF Byte
<1>11. h[n + 2] = {}
  <2> DEFINE up == Left(low, 8, 16)
  <2>1. up \in SUBSET (0..15) /\ SymDiff(up, up) = {} /\ {} \in SUBSET (0..7) /\ low \in SUBSET (0..7)
    BY <1>1 DEF Left, SymDiff, Byte
  <2>2. Left({}, 8, 16) = {}
    BY DEF Left
  <2>3. crc16_byte(up, low) = Left({}, 8, 16)
    BY <2>1, ByteShifts
  <2> QED BY <1>8, <1>10, <2>2, <2>3
<1> QED BY <1>6, <1>11 DEF all

(* What is where in a packet.                                              *)
LEMMA SealedFacts ==
    ASSUME NEW seqno \in Byte, NEW data \in Seq(Byte)
    PROVE  LET packet == Sealed(seqno, data)
               body == data \o Trailer(data)
           IN  /\ packet \in Seq(Byte) /\ body \in Seq(Byte) /\ Len(packet) = Len(body) + 2
               /\ packet[1] = seqno /\ packet[2] = Complement(seqno)
               /\ \A i \in 1..Len(body) : packet[i + 2] = body[i]
<1> DEFINE head == <<seqno, Complement(seqno)>>
           body == data \o Trailer(data)
<1>1. Complement(seqno) \in Byte
  BY DEF Complement, Byte
<1>2. head \in Seq(Byte) /\ Len(head) = 2 /\ head[1] = seqno /\ head[2] = Complement(seqno)
  BY <1>1
<1>3. body \in Seq(Byte)
  <2>1. Trailer(data) \in Seq(Byte)
    BY TrailerType DEF Trailer
  <2> QED BY <2>1
<1>4. Sealed(seqno, data) = head \o body
  <2>1. Sealed(seqno, data) = (head \o data) \o Trailer(data)
    BY DEF Sealed
  <2>2. Trailer(data) \in Seq(Byte)
    BY TrailerType DEF Trailer
  <2> HIDE DEF head
  <2> QED BY <2>1, <2>2, <1>2
<1> HIDE DEF head, body
<1>5. /\ head \o body \in Seq(Byte) /\ Len(head \o body) = Len(body) + 2
      /\ (head \o body)[1] = head[1] /\ (head \o body)[2] = head[2]
      /\ \A i \in 1..Len(body) : (head \o body)[i + 2] = body[i]
  <2>1. /\ head \o body \in Seq(Byte) /\ Len(head \o body) = 2 + Len(body)
        /\ \A i \in 1..(2 + Len(body)) : (head \o body)[i] = IF i <= 2 THEN head[i] ELSE body[i - 2]
    <3>1. /\ head \o body \in Seq(Byte) /\ Len(head \o body) = Len(head) + Len(body)
          /\ \A i \in 1..(Len(head) + Len(body)) :
                (head \o body)[i] = IF i <= Len(head) THEN head[i] ELSE body[i - Len(head)]
      BY <1>2, <1>3, Concatenated
    <3>2. Len(head) = 2
      BY <1>2
    <3> QED BY ONLY <3>1, <3>2
  <2>2. Len(body) \in Nat /\ 1 \in 1..(2 + Len(body)) /\ 2 \in 1..(2 + Len(body))
    BY <1>3
  <2>3. ASSUME NEW i \in 1..Len(body) PROVE (head \o body)[i + 2] = body[i]
    <3>1. i + 2 \in 1..(2 + Len(body)) /\ ~(i + 2 <= 2) /\ i + 2 - 2 = i
      BY <2>2
    <3> QED BY <2>1, <3>1
  <2> QED BY <2>1, <2>2, <2>3
<1> QED BY <1>2, <1>3, <1>4, <1>5 DEF body

(* What crc16 is taken of in a packet.                                     *)
LEMMA BodyFacts ==
    ASSUME NEW S, NEW packet \in Seq(S), Len(packet) >= 2
    PROVE  LET body == SubSeq(packet, 3, Len(packet))
           IN  /\ body \in Seq(S) /\ Len(body) = Len(packet) - 2
               /\ \A i \in 1..Len(body) : body[i] = packet[i + 2]
<1> DEFINE n == Len(packet)
           body == SubSeq(packet, 3, n)
<1>1. n \in Nat /\ n >= 2
  OBVIOUS
<1>2. body = [i \in 1..(n - 2) |-> packet[i + 2]]
  BY <1>1
<1>3. \A i \in 1..(n - 2) : packet[i + 2] \in S
  BY <1>1
<1> HIDE DEF body, n
<1>4. body \in Seq(S) /\ Len(body) = n - 2
  BY <1>1, <1>2, <1>3
<1> QED BY <1>2, <1>4 DEF body, n

(* Sequences with the same bytes are the same.                             *)
LEMMA SameBytes ==
    ASSUME NEW s \in Seq(Byte), NEW t \in Seq(Byte), Len(s) = Len(t),
           \A i \in 1..Len(s) : s[i] = t[i]
    PROVE  s = t
OBVIOUS

(* The complement of the complement is the byte.                           *)
LEMMA ComplementTwice ==
    ASSUME NEW b \in Byte
    PROVE  Complement(Complement(b)) = b
BY DEF Complement, Byte

(* Every packet that Ymodem_PrepareIntialPacket, Ymodem_PreparePacket and  *)
(* Ymodem_Transmit seal passes the tests of Receive_Packet, whatever its   *)
(* number, its data and its size.                                          *)
THEOREM SealedPasses ==
    ASSUME NEW seqno \in Byte, NEW data \in Seq(Byte)
    PROVE  Passes(Sealed(seqno, data))
<1> DEFINE packet == Sealed(seqno, data)
           sum == data \o Trailer(data)
           body == SubSeq(packet, 3, Len(packet))
<1>1. /\ packet \in Seq(Byte) /\ sum \in Seq(Byte) /\ Len(packet) = Len(sum) + 2
      /\ packet[1] = seqno /\ packet[2] = Complement(seqno)
      /\ \A i \in 1..Len(sum) : packet[i + 2] = sum[i]
  BY SealedFacts
<1>2. Len(packet) >= 2 /\ Len(packet) - 2 = Len(sum)
  BY <1>1
<1> HIDE DEF packet, sum
<1>3. body \in Seq(Byte) /\ Len(body) = Len(sum) /\ \A i \in 1..Len(body) : body[i] = sum[i]
  BY <1>1, <1>2, BodyFacts
<1>4. body = sum
  BY <1>1, <1>3, SameBytes
<1>5. crc16(body) = {}
  BY <1>4, TrailerClears DEF sum
<1>6. packet[1] = Complement(packet[2])
  BY <1>1, ComplementTwice
<1> QED BY <1>5, <1>6 DEF Passes, packet

(* A packet that passes the tests of Receive_Packet no longer does when    *)
(* any bits of one of its bytes are flipped (ymodem.c:272-279, :510-512,   *)
(* :561-563): of its number, of the complement, of the data or of the      *)
(* trailer.                                                                *)
THEOREM DamagedFails ==
    ASSUME NEW packet \in Seq(Byte), Passes(packet), Len(packet) >= 2,
           NEW k \in 1..Len(packet), NEW bits \in Byte \ {{}}
    PROVE  ~Passes([packet EXCEPT ![k] = SymDiff(@, bits)])
<1> DEFINE bad == [packet EXCEPT ![k] = SymDiff(@, bits)]
<1>0. Len(packet) \in Nat
  OBVIOUS
<1>1. SymDiff(packet[k], bits) \in Byte /\ SymDiff(packet[k], bits) # packet[k]
  <2>1. packet[k] \in Byte
    OBVIOUS
  <2> QED BY <2>1 DEF SymDiff, Byte
<1>2. /\ bad \in Seq(Byte) /\ Len(bad) = Len(packet) /\ bad[k] # packet[k]
      /\ \A i \in 1..Len(packet) : i # k => bad[i] = packet[i]
  BY <1>1
<1>3. packet[1] \in Byte /\ packet[2] \in Byte /\ bad[1] \in Byte /\ bad[2] \in Byte
      /\ 1 \in 1..Len(packet) /\ 2 \in 1..Len(packet)
  BY <1>0, <1>2
<1> HIDE DEF bad
<1>4. packet[1] = Complement(packet[2])
  BY DEF Passes
<1>5. CASE k = 1
  <2>1. bad[2] = packet[2] /\ bad[1] # packet[1]
    BY <1>2, <1>3, <1>5
  <2> QED BY <1>4, <2>1 DEF Passes, bad
<1>6. CASE k = 2
  <2>1. bad[1] = packet[1] /\ bad[2] # packet[2]
    BY <1>2, <1>3, <1>6
  <2>2. bad[1] # Complement(bad[2])
    BY <1>3, <1>4, <2>1, ComplementTwice
  <2> QED BY <2>2 DEF Passes, bad
<1>7. CASE k # 1 /\ k # 2
  <2> DEFINE body == SubSeq(packet, 3, Len(packet))
             badBody == SubSeq(bad, 3, Len(bad))
             j == k - 2
  <2>1. /\ body \in Seq(Byte) /\ Len(body) = Len(packet) - 2
        /\ \A i \in 1..Len(body) : body[i] = packet[i + 2]
    BY BodyFacts
  <2>2. /\ badBody \in Seq(Byte) /\ Len(badBody) = Len(packet) - 2
        /\ \A i \in 1..Len(badBody) : badBody[i] = bad[i + 2]
    BY <1>2, BodyFacts
  <2>3. j \in 1..Len(body) /\ j + 2 = k
    BY <1>0, <1>7, <2>1
  <2> HIDE DEF body, badBody, j
  <2>4. body[j] # badBody[j]
    <3>1. body[j] = packet[j + 2] /\ badBody[j] = bad[j + 2]
      BY <2>1, <2>2, <2>3
    <3> QED BY <1>2, <2>3, <3>1
  <2>5. ASSUME NEW i \in 1..Len(body), i # j PROVE body[i] = badBody[i]
    <3>1. body[i] = packet[i + 2] /\ badBody[i] = bad[i + 2]
      BY <2>1, <2>2
    <3>2. i + 2 \in 1..Len(packet) /\ i + 2 # k
      BY <1>0, <2>1, <2>3, <2>5
    <3> QED BY <1>2, <3>1, <3>2
  <2>6. crc16(body) # crc16(badBody)
    BY <2>1, <2>2, <2>3, <2>4, <2>5, Spoiled
  <2>7. crc16(body) = {}
    BY DEF Passes, body
  <2> QED BY <2>6, <2>7 DEF Passes, bad, badBody
<1> QED BY <1>5, <1>6, <1>7

(* The byte of a number is one.                                            *)
LEMMA BitsType == \A n \in Int : Bits(n) \in Byte
BY DEF Bits, Byte

(* What DamageIsNoticed says of a packet holds of every number and every   *)
(* sequence of units.                                                      *)
LEMMA PacketIsSealed ==
    ASSUME NEW seqno \in Int, NEW data \in Seq(Int)
    PROVE  LET bytes == Sealed(Bits(seqno), [k \in DOMAIN data |-> Bits(data[k])])
           IN  /\ Passes(bytes)
               /\ \A k \in DOMAIN bytes, bits \in {{b} : b \in 0..7} \cup {0..7} :
                     ~Passes([bytes EXCEPT ![k] = SymDiff(@, bits)])
<1> DEFINE units == [k \in DOMAIN data |-> Bits(data[k])]
           bytes == Sealed(Bits(seqno), units)
<1>1. Len(data) \in Nat /\ DOMAIN data = 1..Len(data) /\ \A k \in 1..Len(data) : data[k] \in Int
  OBVIOUS
<1>2. units \in Seq(Byte)
  <2>1. units = [k \in 1..Len(data) |-> Bits(data[k])]
    BY <1>1
  <2>2. \A k \in 1..Len(data) : Bits(data[k]) \in Byte
    BY <1>1, BitsType
  <2> HIDE DEF units
  <2> QED BY <1>1, <2>1, <2>2
<1>3. Bits(seqno) \in Byte
  BY BitsType
<1> HIDE DEF units
<1>4. Passes(bytes)
  BY <1>2, <1>3, SealedPasses
<1>5. bytes \in Seq(Byte) /\ Len(bytes) >= 2
  <2>1. /\ bytes \in Seq(Byte) /\ units \o Trailer(units) \in Seq(Byte)
        /\ Len(bytes) = Len(units \o Trailer(units)) + 2
    BY <1>2, <1>3, SealedFacts
  <2>2. Len(units \o Trailer(units)) \in Nat
    BY <2>1
  <2> QED BY <2>1, <2>2
<1> HIDE DEF bytes
<1>6. DOMAIN bytes = 1..Len(bytes)
  BY <1>5
<1>7. \A bits \in {{b} : b \in 0..7} \cup {0..7} : bits \in Byte \ {{}}
  <2> TAKE bits \in {{b} : b \in 0..7} \cup {0..7}
  <2>1. CASE bits = 0..7
    <3>1. 0 \in bits /\ bits \in Byte
      BY <2>1 DEF Byte
    <3> QED BY <3>1
  <2>2. ASSUME NEW b \in 0..7, bits = {b} PROVE bits \in Byte \ {{}}
    BY <2>2 DEF Byte
  <2> QED BY <2>1, <2>2
<1>8. ASSUME NEW k \in DOMAIN bytes, NEW bits \in {{b} : b \in 0..7} \cup {0..7}
      PROVE  ~Passes([bytes EXCEPT ![k] = SymDiff(@, bits)])
  BY <1>4, <1>5, <1>6, <1>7, DamagedFails
<1> QED BY <1>4, <1>8 DEF bytes, units

------------------------------------------------------------------------------
(* What the two ends say of the line without any assumption about it or    *)
(* about littlefs: the items on the way to the receiver carry sequences of *)
(* units, because the transmitter has nothing else to send.                *)
Wired ==
    /\ toRx \in Seq(Items)
    /\ blkNumber \in Nat /\ txSize \in Nat /\ packet_data \in Seq(Int)
    /\ txPc # "done" => txFs \in VolumeRecords

(* What is read of a file, from wherever, is a sequence of units.          *)
LEMMA ReadType ==
    ASSUME NEW v \in VolumeRecords, NEW count \in Nat
    PROVE  lfs_file_read(v, count).fs \in VolumeRecords /\ lfs_file_read(v, count).ret \in Seq(Int)
<1> DEFINE o == OnFile(v)
           end == IF v.pos + count > Len(v.cache) THEN Len(v.cache) ELSE v.pos + count
           w == [o EXCEPT !.pos = end]
           data == SubSeq(v.cache, v.pos + 1, end)
<1>1. v.cache \in Seq(Int) /\ v.pos \in Nat /\ Len(v.cache) \in Nat
  <2>1. v.cache \in Seq(Int) /\ v.pos \in Nat
    BY DEF VolumeRecords
  <2> QED BY <2>1
<1>2. end \in Nat /\ end <= Len(v.cache)
  BY <1>1
<1>3. o \in VolumeRecords
  BY DEF OnFile, VolumeRecords
<1>4. lfs_file_read(v, count).fs = w /\ lfs_file_read(v, count).ret = data
  BY DEF lfs_file_read, Returned
<1> HIDE DEF o, end
<1>5. w \in VolumeRecords
  BY <1>2, <1>3 DEF VolumeRecords
<1>6. data \in Seq(Int)
  <2> DEFINE n == end - v.pos
  <2>1. \A i \in 1..n : v.cache[v.pos + i] \in Int
    <3> TAKE i \in 1..n
    <3>1. v.pos + i \in 1..Len(v.cache)
      BY <1>1, <1>2
    <3> QED BY <1>1, <3>1
  <2> QED BY <1>1, <1>2, <2>1
<1> QED BY <1>4, <1>5, <1>6

(* So is a block filled up with zeros.                                     *)
LEMMA BlockType ==
    ASSUME NEW data \in Seq(Int)
    PROVE  T!Block(data) \in Seq(Int)
<1>1. PACKET_1K_SIZE \in Nat
  BY PacketAssumption
<1>2. \A n \in 1..PACKET_1K_SIZE : (IF n <= Len(data) THEN data[n] ELSE 0) \in Int
  OBVIOUS
<1> QED BY <1>1, <1>2 DEF T!Block

(* Control bytes add items to the line.                                    *)
LEMMA AddsControls ==
    ASSUME toRx \in Seq(Items),
           NEW bytes \in {<<CRC16>>, <<EOT>>, <<CA, CA>>, <<CA, CA, CA, CA>>},
           T!Say(T!Controls(bytes))
    PROVE  toRx' \in Seq(Items)
<1>1. bytes \in Seq(Int) /\ \A j \in 1..Len(bytes) : bytes[j] \notin {SOH, STX}
  <2>1. ASSUME NEW c \in {CRC16, EOT}, bytes = <<c>>
        PROVE  bytes \in Seq(Int) /\ \A j \in 1..Len(bytes) : bytes[j] \notin {SOH, STX}
    <3>1. bytes \in Seq(Int) /\ Len(bytes) = 1 /\ bytes[1] = c
      BY <2>1 DEF CRC16, EOT
    <3> QED BY <3>1 DEF CRC16, EOT, SOH, STX
  <2>2. CASE bytes = <<CA, CA>>
    <3>1. bytes \in Seq(Int) /\ Len(bytes) = 2 /\ bytes[1] = CA /\ bytes[2] = CA
      BY <2>2 DEF CA
    <3> QED BY <3>1 DEF CA, SOH, STX
  <2>3. CASE bytes = <<CA, CA, CA, CA>>
    <3>1. /\ bytes \in Seq(Int) /\ Len(bytes) = 4
          /\ bytes[1] = CA /\ bytes[2] = CA /\ bytes[3] = CA /\ bytes[4] = CA
      BY <2>3 DEF CA
    <3> QED BY <3>1 DEF CA, SOH, STX
  <2> QED BY <2>1, <2>2, <2>3
<1>2. PICK r : Babble(r, bytes) /\ toRx' = toRx \o r
  BY <1>1, SayControls
<1> QED BY <1>2, Concatenated DEF Babble

(* A packet adds items to the line.                                        *)
LEMMA AddsPacket ==
    ASSUME toRx \in Seq(Items), NEW item \in Items, IsPacket(item), T!Say(<<item>>)
    PROVE  toRx' \in Seq(Items)
<1>1. PICK r : Delivery(r, item) /\ toRx' = toRx \o r
  BY SayPacket
<1> QED BY <1>1, Concatenated DEF Delivery

(* The transmitter gives up.                                               *)
LEMMA ReturnWired ==
    ASSUME Wired, NEW bytes \in {<<CA, CA>>, <<CA, CA, CA, CA>>}, T!Say(T!Controls(bytes)),
           NEW code, NEW volume, T!Return(code, volume)
    PROVE  Wired'
<1>1. toRx' \in Seq(Items)
  BY AddsControls DEF Wired
<1> QED BY <1>1 DEF Wired, T!Return

(* It gives up with CA.                                                    *)
LEMMA FailWired ==
    ASSUME Wired, NEW code, NEW response, T!Fail(code, response)
    PROVE  Wired'
<1>1. T!LastWords(response) \in {<<CA, CA>>, <<CA, CA, CA, CA>>}
  BY DEF T!LastWords, T!CA, CA
<1>2. PICK volume : T!Return(code, volume)
  BY DEF T!Fail
<1>3. T!Say(T!Controls(T!LastWords(response)))
  BY DEF T!Fail
<1> QED BY <1>1, <1>2, <1>3, ReturnWired

(* The polls for the receiver.                                             *)
LEMMA PollsWired ==
    ASSUME Wired, T!Start \/ T!Poll \/ T!PollTimeout \/ T!PollAnswer
    PROVE  Wired'
<1>1. <<T!CA, T!CA>> = <<CA, CA>> /\ <<T!CRC16>> = <<CRC16>>
  BY DEF T!CA, CA, T!CRC16, CRC16
<1>2. CASE T!Start
  BY <1>2 DEF T!Start, Wired
<1>3. CASE T!Poll
  <2>1. T!Say(T!Controls(<<CRC16>>)) /\ txPc # "done"
        /\ UNCHANGED <<blkNumber, txSize, packet_data, txFs>>
    BY <1>1, <1>3 DEF T!Poll
  <2>2. toRx' \in Seq(Items)
    BY <2>1, AddsControls DEF Wired
  <2> QED BY <2>1, <2>2 DEF Wired
<1>4. CASE T!PollTimeout \/ T!PollAnswer
  <2>1. \/ T!Say(T!Controls(<<CA, CA>>)) /\ T!Return(-1, txFs)
        \/ txPc # "done" /\ UNCHANGED <<toRx, blkNumber, txSize, packet_data, txFs>>
    BY <1>1, <1>4 DEF T!PollTimeout, T!PollAnswer
  <2>2. CASE T!Say(T!Controls(<<CA, CA>>)) /\ T!Return(-1, txFs)
    BY <2>2, ReturnWired
  <2>3. CASE txPc # "done" /\ UNCHANGED <<toRx, blkNumber, txSize, packet_data, txFs>>
    BY <2>3 DEF Wired
  <2> QED BY <2>1, <2>2, <2>3
<1> QED BY <1>2, <1>3, <1>4

(* It opens the file, or refuses the session.                              *)
LEMMA OpenFileWired ==
    ASSUME Wired, T!OpenFile
    PROVE  Wired'
<1>1. txPc = "open" /\ txFs \in VolumeRecords /\ <<T!CA, T!CA>> = <<CA, CA>>
  BY DEF T!OpenFile, Wired, T!CA, CA
<1>2. PICK okMount \in T!Outcomes("mount"), okOpen \in T!Outcomes("open"),
           okStat \in T!Outcomes("stat"), okClose \in T!Outcomes("close") :
          LET mount == T!lfs_c2000_mount(txFs, okMount)
              mounted == [mount.fs EXCEPT !.pLfs = mount.ret]
              open == T!lfs_c2000_fopen(mounted, okOpen)
              opened == [open.fs EXCEPT !.pFile = open.ret]
          IN  CASE ~mount.ret -> T!Say(T!Controls(<<T!CA, T!CA>>)) /\ T!Return(-11, mounted)
                [] mount.ret /\ ~open.ret ->
                      /\ T!Say(T!Controls(<<T!CA, T!CA>>))
                      /\ T!Return(-12, T!after_open_failed(opened))
                [] mount.ret /\ open.ret /\ ~okStat ->
                      /\ T!Say(T!Controls(<<T!CA, T!CA>>))
                      /\ T!Return(-13, T!lfs_cleanup(opened, okClose))
                [] OTHER ->
                      /\ txFs' = opened
                      /\ txSize' = Len(opened.stored)
                      /\ packet_data' = <<txSize'>>
                      /\ txPc' = "name"
                      /\ UNCHANGED <<toRx, faults, blkNumber, ret>>
  BY DEF T!OpenFile
<1>3. okMount \in BOOLEAN /\ okOpen \in BOOLEAN /\ okStat \in BOOLEAN
  BY <1>2 DEF T!Outcomes
<1> DEFINE m == Mounted(txFs, okMount)
           open == Open(txFs, okMount, okOpen)
           w == Opened(txFs, okMount, okOpen)
<1>4. lfs_c2000_mount(txFs, okMount).ret = okMount
  BY <1>1, <1>3, MountedFacts
<1>5. /\ T!lfs_c2000_mount(txFs, okMount) = lfs_c2000_mount(txFs, okMount)
      /\ T!lfs_c2000_fopen(m, okOpen) = open
  BY SameGlue DEF Open
<1>6. open.ret \in BOOLEAN
  BY <1>3 DEF Open, lfs_c2000_fopen, Returned
<1>7. w = [open.fs EXCEPT !.pFile = open.ret]
  BY DEF Opened
<1>8. \/ \E code \in {-11, -12, -13} : \E volume :
            T!Say(T!Controls(<<CA, CA>>)) /\ T!Return(code, volume)
      \/ /\ open.ret = TRUE /\ txFs' = w /\ txSize' = Len(w.stored) /\ packet_data' = <<txSize'>>
         /\ UNCHANGED <<toRx, blkNumber>>
  <2> HIDE DEF open, w
  <2> QED BY <1>1, <1>2, <1>3, <1>4, <1>5, <1>6, <1>7 DEF Mounted
<1>9. CASE \E code \in {-11, -12, -13} : \E volume :
               T!Say(T!Controls(<<CA, CA>>)) /\ T!Return(code, volume)
  BY <1>9, ReturnWired
<1>10. CASE /\ open.ret = TRUE /\ txFs' = w /\ txSize' = Len(w.stored) /\ packet_data' = <<txSize'>>
            /\ UNCHANGED <<toRx, blkNumber>>
  <2>1. w \in VolumeRecords
    BY <1>1, <1>3, <1>10, OpenedFacts
  <2> HIDE DEF w, open
  <2>2. w.stored \in Seq(Int)
    BY <2>1 DEF VolumeRecords
  <2>3. txSize' \in Nat
    BY <1>10, <2>2
  <2>4. packet_data' \in Seq(Int)
    BY <1>10, <2>3
  <2> QED BY <1>10, <2>1, <2>3, <2>4 DEF Wired
<1> QED BY <1>8, <1>9, <1>10

(* It reads the next block.                                                *)
LEMMA PrepareWired ==
    ASSUME Wired, T!Ymodem_PreparePacket
    PROVE  Wired'
<1> DEFINE count == IF txSize < PACKET_1K_SIZE THEN txSize ELSE PACKET_1K_SIZE
           read == T!lfs_file_read(txFs, count)
<1>1. txPc = "prepare" /\ txFs \in VolumeRecords /\ count \in Nat
      /\ UNCHANGED <<toRx, blkNumber, txSize>>
  BY PacketAssumption DEF T!Ymodem_PreparePacket, Wired
<1>2. read = lfs_file_read(txFs, count)
  BY SameGlue
<1>3. \/ txFs' = read.fs /\ packet_data' = T!Block(read.ret)
      \/ txFs' = txFs /\ packet_data' = T!Block(packet_data)
  BY DEF T!Ymodem_PreparePacket
<1> HIDE DEF read, count
<1>4. read.fs \in VolumeRecords /\ read.ret \in Seq(Int)
  BY <1>1, <1>2, ReadType
<1>5. T!Block(read.ret) \in Seq(Int) /\ T!Block(packet_data) \in Seq(Int)
  BY <1>4, BlockType DEF Wired
<1> QED BY <1>1, <1>3, <1>4, <1>5 DEF Wired

(* It sends one of its four messages.                                      *)
LEMMA SendWired ==
    ASSUME Wired, T!Send_Packet
    PROVE  Wired'
<1>1. /\ txPc \in {"name", "block", "eot", "last"} /\ T!Say(T!Message[txPc])
      /\ UNCHANGED <<blkNumber, txSize, packet_data, txFs>>
  BY DEF T!Send_Packet, T!AwaitedBy
<1>2. \/ T!Message[txPc] = T!Controls(<<EOT>>)
      \/ \E item \in Items : IsPacket(item) /\ T!Message[txPc] = <<item>>
  <2>1. CASE txPc = "name"
    <3>0. PICK item : item = Packet(SOH, 0, packet_data)
      OBVIOUS
    <3>1. T!Message["name"] = <<item>>
      BY <3>0, SameLine DEF T!Message, T!SOH, SOH
    <3>2. item \in Items /\ IsPacket(item)
      BY <3>0, FirstFacts DEF Wired
    <3> QED BY <2>1, <3>1, <3>2
  <2>2. CASE txPc = "block"
    <3>0. PICK item : item = Packet(STX, blkNumber, packet_data)
      OBVIOUS
    <3>1. T!Message["block"] = <<item>>
      BY <3>0, SameLine DEF T!Message, T!STX, STX
    <3>2. item \in Items /\ IsPacket(item)
      BY <3>0, PacketFacts DEF Wired
    <3> QED BY <2>2, <3>1, <3>2
  <2>3. CASE txPc = "eot"
    <3>1. T!Message["eot"] = T!Controls(<<EOT>>)
      BY DEF T!Message, T!EOT, EOT
    <3> QED BY <2>3, <3>1
  <2>4. CASE txPc = "last"
    <3>0. PICK item : item = Packet(SOH, 0, <<>>)
      OBVIOUS
    <3>1. T!Message["last"] = <<item>>
      BY <3>0, SameLine DEF T!Message, T!SOH, SOH
    <3>2. item \in Items /\ IsPacket(item)
      BY <3>0, EmptyFacts, FirstFacts
    <3> QED BY <2>4, <3>1, <3>2
  <2> QED BY <1>1, <2>1, <2>2, <2>3, <2>4
<1>3. CASE T!Message[txPc] = T!Controls(<<EOT>>)
  <2>1. toRx' \in Seq(Items)
    BY <1>1, <1>3, AddsControls DEF Wired
  <2> QED BY <1>1, <2>1 DEF Wired
<1>4. ASSUME NEW item \in Items, IsPacket(item), T!Message[txPc] = <<item>>
      PROVE  Wired'
  <2>1. T!Say(<<item>>)
    BY <1>1, <1>4
  <2>2. toRx' \in Seq(Items)
    BY <1>4, <2>1, AddsPacket DEF Wired
  <2> QED BY <1>1, <2>2 DEF Wired
<1> QED BY <1>2, <1>3, <1>4

(* It goes on to the next message.                                         *)
LEMMA GoOnWired ==
    ASSUME Wired, txPc \in DOMAIN T!Awaited, T!GoOn
    PROVE  Wired'
<1>1. txPc \in {"nameAck", "nameC", "blockAck", "eotAck", "eotC", "lastAck"}
  BY DEF T!Awaited
<1>2. T!Left \in Nat
  BY PacketAssumption DEF T!Left, Wired
<1>3. UNCHANGED <<toRx, packet_data>>
  BY DEF T!GoOn
<1>4. /\ blkNumber' \in {blkNumber, blkNumber + 1, 1} /\ txSize' \in {txSize, T!Left}
      /\ txPc' = "done" \/ txFs' = txFs
  BY <1>1 DEF T!GoOn
<1>5. blkNumber' \in Nat /\ txSize' \in Nat
  BY <1>2, <1>4 DEF Wired
<1> QED BY <1>1, <1>3, <1>4, <1>5 DEF Wired

(* It acts on an answer, or on none.                                       *)
LEMMA ActWired ==
    ASSUME Wired, txPc \in DOMAIN T!Awaited, NEW response, T!Act(response)
    PROVE  Wired'
<1>1. CASE T!GoOn
  BY <1>1, GoOnWired
<1>2. CASE T!SendAgain
  <2>1. UNCHANGED <<toRx, blkNumber, txSize, packet_data, txFs>>
    BY <1>2 DEF T!SendAgain
  <2>2. txPc # "done"
    BY DEF T!Awaited
  <2> QED BY <2>1, <2>2 DEF Wired
<1>3. CASE \E code : \E answer : T!Fail(code, answer)
  BY <1>3, FailWired
<1> QED BY <1>1, <1>2, <1>3 DEF T!Act

(* Whatever the transmitter does.                                          *)
LEMMA TransmitterWired ==
    ASSUME Wired, txStep
    PROVE  Wired'
<1>1. T!Next
  BY DEF txStep
<1>2. CASE T!Answered
  <2>1. txPc \in DOMAIN T!Awaited /\ T!Act(T!Response(toTx[1].ch))
    BY <1>2 DEF T!Answered
  <2> QED BY <2>1, ActWired
<1>3. CASE T!Unanswered
  <2>1. txPc \in DOMAIN T!Awaited
    BY <1>3 DEF T!Unanswered
  <2>2. CASE UNCHANGED <<toRx, txPc, blkNumber, txSize, packet_data, txFs>>
    BY <2>2 DEF Wired
  <2>3. CASE T!Act(0)
    BY <2>1, <2>3, ActWired
  <2> QED BY <1>3, <2>2, <2>3 DEF T!Unanswered
<1> QED BY <1>1, <1>2, <1>3, PollsWired, OpenFileWired, PrepareWired, SendWired DEF T!Next

(* The receiver only takes from the line.                                  *)
LEMMA ReceiverWired ==
    ASSUME Wired, rxStep
    PROVE  Wired'
<1>1. R!Next /\ UNCHANGED <<txPc, blkNumber, txSize, packet_data, txFs>>
  BY DEF rxStep, txOwn
<1>2. toRx' \in Seq(Items)
  <2>1. toRx \in Seq(Items) /\ <<>> \in Seq(Items)
    BY DEF Wired
  <2>2. CASE R!Start \/ R!Timeout \/ R!uart_consume
    <3>1. toRx' = toRx \/ toRx' = <<>>
      BY <2>2 DEF R!Start, R!Timeout, R!uart_consume
    <3> QED BY <2>1, <3>1
  <2>3. CASE R!Take
    <3>1. toRx # <<>> /\ (toRx[1].ch = CA => Len(toRx) > 1) /\ toRx' = R!Taken
      BY <2>3 DEF R!Take, R!Complete, R!CA, CA
    <3>2. Len(toRx) >= 1 /\ (toRx[1].ch = CA => Len(toRx) >= 2)
      BY <2>1, <3>1
    <3> QED BY <2>1, <3>1, <3>2, TakenFacts DEF Shifted
  <2>4. CASE R!Handle
    <3>1. toRx' = toRx
      BY <2>4 DEF R!Handle, R!SenderAborts, R!BadPacket, R!EndOfTransmission, R!LastPacket,
                  R!WrongSequence, R!EmptyFilename, R!Filename, R!Data, R!UserAborts,
                  R!SessionDone, R!NoPacketInTime, R!CountError, R!Answer
    <3> QED BY <2>1, <3>1
  <2> QED BY <1>1, <2>2, <2>3, <2>4 DEF R!Next
<1> QED BY <1>1, <1>2 DEF Wired

(* At first nothing is on the line.                                        *)
LEMMA InitWired ==
    ASSUME Init
    PROVE  Wired
<1>1. PICK n \in Sizes : txFs = NewVolume([k \in 1..n |-> k])
  BY DEF Init
<1>2. n \in Nat
  BY SizesAssumption
<1>3. [k \in 1..n |-> k] \in Seq(Int)
  BY <1>2
<1>4. txFs \in VolumeRecords
  BY <1>1, <1>3, EmptyFacts DEF NewVolume, VolumeRecords
<1>5. toRx = <<>> /\ blkNumber = 0 /\ txSize = 0 /\ packet_data = <<>>
  BY DEF Init, T!Init
<1> QED BY <1>4, <1>5, EmptyFacts DEF Wired

(* The items on the way to the receiver are items, for every line.         *)
THEOREM LineType == Spec => []Wired
<1>1. Init => Wired
  BY InitWired
<1>2. Wired /\ [Next]_vars => Wired'
  <2> SUFFICES ASSUME Wired, [Next]_vars PROVE Wired'
    OBVIOUS
  <2>1. CASE UNCHANGED vars
    BY <2>1 DEF vars, txOwn, Wired
  <2> QED BY <2>1, ReceiverWired, TransmitterWired DEF Next
<1> QED BY <1>1, <1>2, PTL DEF Spec

(* YmodemLine's sound is what crc16 and the packet number make of the      *)
(* bytes: every packet on its way to the receiver passes the tests of      *)
(* Receive_Packet as it was sent, and fails them with one bit or all bits  *)
(* of a byte flipped (ymodem.c:272-279, :510-512, :561-563). Nothing is    *)
(* asked of the line or of littlefs.                                       *)
THEOREM DamageIsNoticedHolds == Spec => []DamageIsNoticed
<1>1. Wired => DamageIsNoticed
  <2> SUFFICES ASSUME Wired, NEW n \in {n \in DOMAIN toRx : IsPacket(toRx[n])}
               PROVE  LET bytes == BytesOf(toRx[n])
                      IN  /\ Passes(bytes)
                          /\ \A k \in DOMAIN bytes, bits \in {{b} : b \in 0..7} \cup {0..7} :
                                ~Passes([bytes EXCEPT ![k] = SymDiff(@, bits)])
    BY DEF DamageIsNoticed
  <2>1. toRx[n] \in Items
    <3>1. toRx \in Seq(Items) /\ n \in DOMAIN toRx
      BY DEF Wired
    <3> QED BY <3>1
  <2>2. toRx[n].seq \in Int /\ toRx[n].data \in Seq(Int)
    BY <2>1 DEF Items
  <2> QED BY <2>2, PacketIsSealed DEF BytesOf
<1> QED BY <1>1, LineType, PTL
==============================================================================
