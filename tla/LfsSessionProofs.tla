--------------------------- MODULE LfsSessionProofs ---------------------------
(***************************************************************************)
(* LfsSession proved for every number of events, every size of packets and *)
(* files, every set of answers and any littlefs call failing.              *)
(*                                                                         *)
(* The proof has five parts: what each operator of the glue does to a      *)
(* volume; the steps of the two ends reduced to what they do to it (RxQuiet*)
(* to TxOpen); the inductive invariant IInv, kept by each of these, with   *)
(* the properties that follow from it; Counts, for the bounds of TypeOK;   *)
(* and Sent, what a transmission has sent, for BlocksInOrder.              *)
(***************************************************************************)
EXTENDS LfsSession, WellFoundedInduction, TLAPS

(* The record of the glue, with a place in the open file.                  *)
VolumeRecords ==
    [bInit : BOOLEAN, bMount : BOOLEAN, bFileIsOpen : BOOLEAN, pLfs : BOOLEAN, pFile : BOOLEAN,
     lfs : {"off", "mounted"}, file : {"none", "live", "dead"}, stray : BOOLEAN, broken : BOOLEAN,
     exists : BOOLEAN, stored : Seq(Int), cache : Seq(Int), pos : Nat]

Volumes ==
    {v \in VolumeRecords : v.pos <= Len(v.cache)}

(* Sequences of units, the empty one among them.                           *)
LEMMA EmptyFacts ==
    /\ <<>> \in Seq(Int) /\ Len(<<>>) = 0
    /\ \A s \in Seq(Int) : Len(s) \in Nat
OBVIOUS

(* A new life of the lfs_t ends that of every open file and keeps the      *)
(* flags.                                                                  *)
LEMMA RestartedFacts ==
    ASSUME NEW v \in Volumes, NEW lfs \in {"off", "mounted"}
    PROVE  LET w == Restarted(v, lfs)
           IN /\ w \in Volumes
              /\ w.lfs = lfs /\ w.file # "live" /\ ~w.stray /\ w.cache = <<>> /\ w.pos = 0
              /\ w.bInit = v.bInit /\ w.bMount = v.bMount /\ w.bFileIsOpen = v.bFileIsOpen
              /\ w.pLfs = v.pLfs /\ w.pFile = v.pFile /\ w.broken = v.broken
<1> DEFINE w == Restarted(v, lfs)
<1>1. w \in Volumes
  <2>1. w \in VolumeRecords /\ w.cache = <<>> /\ w.pos = 0
    BY EmptyFacts DEF Volumes, VolumeRecords, Restarted
  <2> HIDE DEF w
  <2> QED BY <2>1, EmptyFacts DEF Volumes
<1> QED BY <1>1 DEF Volumes, VolumeRecords, Restarted

(* lfs_c2000_umount: only what is mounted is unmounted, and the flag goes  *)
(* with it.                                                                *)
LEMMA UmountFacts ==
    ASSUME NEW v \in Volumes
    PROVE  LET w == lfs_c2000_umount(v)
           IN /\ w \in Volumes
              /\ IF v.bInit /\ v.bMount
                 THEN ~w.bMount /\ w.lfs = "off" /\ w.file # "live" /\ ~w.stray
                 ELSE w = v
              /\ w.bFileIsOpen = v.bFileIsOpen /\ w.pLfs = v.pLfs /\ w.pFile = v.pFile
              /\ w.broken = v.broken
<1>1. CASE v.bInit /\ v.bMount
  <2> DEFINE u == Restarted(v, "off")
  <2>1. u \in Volumes /\ u.lfs = "off" /\ u.file # "live" /\ ~u.stray /\ u.bFileIsOpen = v.bFileIsOpen
        /\ u.pLfs = v.pLfs /\ u.pFile = v.pFile /\ u.broken = v.broken
    BY RestartedFacts
  <2>2. lfs_c2000_umount(v) = [u EXCEPT !.bMount = FALSE]
    BY <1>1 DEF lfs_c2000_umount
  <2> HIDE DEF u
  <2> QED BY <1>1, <2>1, <2>2 DEF Volumes, VolumeRecords
<1>2. CASE ~(v.bInit /\ v.bMount)
  BY <1>2 DEF lfs_c2000_umount
<1> QED BY <1>1, <1>2

(* lfs_c2000_mount: the flag is set on success, and never reset.           *)
LEMMA MountFacts ==
    ASSUME NEW v \in Volumes, NEW ok \in BOOLEAN
    PROVE  LET w == lfs_c2000_mount(v, ok).fs
           IN /\ lfs_c2000_mount(v, ok).ret = ok
              /\ w \in Volumes
              /\ w.lfs = (IF ok THEN "mounted" ELSE "off") /\ w.file # "live" /\ ~w.stray
              /\ w.bInit /\ (w.bMount <=> (v.bMount \/ ok)) /\ w.bFileIsOpen = v.bFileIsOpen
              /\ w.pLfs = v.pLfs /\ w.pFile = v.pFile /\ w.broken = v.broken
<1> DEFINE life == IF ok THEN "mounted" ELSE "off"
           i == lfs_c2000_init(v)
           u == Restarted(i, life)
           w == lfs_c2000_mount(v, ok).fs
<1>1. i \in Volumes /\ i = [v EXCEPT !.bInit = TRUE]
  BY DEF Volumes, VolumeRecords, lfs_c2000_init
<1>2. /\ u \in Volumes /\ u.lfs = life /\ u.file # "live" /\ ~u.stray /\ u.bInit /\ u.bMount = v.bMount
      /\ u.bFileIsOpen = v.bFileIsOpen /\ u.pLfs = v.pLfs /\ u.pFile = v.pFile
      /\ u.broken = v.broken
  <2>0. i \in Volumes
    BY <1>1
  <2>1. life \in {"off", "mounted"}
    OBVIOUS
  <2>2. /\ i.bInit /\ i.bMount = v.bMount /\ i.bFileIsOpen = v.bFileIsOpen
        /\ i.pLfs = v.pLfs /\ i.pFile = v.pFile /\ i.broken = v.broken
    BY <1>1 DEF Volumes, VolumeRecords
  <2> HIDE DEF i, life
  <2> QED BY <2>0, <2>1, <2>2, RestartedFacts
<1>3. w = (IF ok THEN [u EXCEPT !.bMount = TRUE] ELSE u) /\ lfs_c2000_mount(v, ok).ret = ok
  BY DEF lfs_c2000_mount, Returned
<1> HIDE DEF i, u, w, life
<1>4. w \in Volumes
  BY <1>2, <1>3 DEF Volumes, VolumeRecords
<1>5. w.bMount <=> (v.bMount \/ ok)
  BY <1>2, <1>3 DEF Volumes, VolumeRecords
<1>6. /\ w.lfs = u.lfs /\ w.file = u.file /\ w.stray = u.stray /\ w.bInit = u.bInit
      /\ w.bFileIsOpen = u.bFileIsOpen /\ w.pLfs = u.pLfs /\ w.pFile = u.pFile
      /\ w.broken = u.broken
  BY <1>2, <1>3 DEF Volumes, VolumeRecords
<1> QED BY <1>2, <1>3, <1>4, <1>5, <1>6 DEF w, life

(* A file that has been written or read: the flags stay.                   *)
FlagsStay(v, w) ==
    /\ w.bInit = v.bInit /\ w.bMount = v.bMount /\ w.bFileIsOpen = v.bFileIsOpen
    /\ w.pLfs = v.pLfs /\ w.pFile = v.pFile /\ w.lfs = v.lfs /\ w.file = v.file
    /\ w.stray = v.stray

(* A call of littlefs that needs a mounted volume keeps the flags.         *)
LEMMA OnVolumeFacts ==
    ASSUME NEW v \in Volumes
    PROVE  LET w == OnVolume(v)
           IN w \in Volumes /\ FlagsStay(v, w) /\ (w.broken <=> (v.broken \/ v.lfs # "mounted" \/ v.stray))
BY DEF OnVolume, FlagsStay, Volumes, VolumeRecords

(* lfs_c2000_fopen: refused without a volume or with a file open, else     *)
(* bFileIsOpen is what littlefs answers.                                   *)
LEMMA OpenFacts ==
    ASSUME NEW v \in Volumes, NEW ok \in BOOLEAN
    PROVE  LET w == lfs_c2000_fopen(v, ok).fs
               opened == lfs_c2000_fopen(v, ok).ret
           IN /\ w \in Volumes /\ opened \in BOOLEAN
              /\ ~v.bMount \/ v.bFileIsOpen => w = v /\ ~opened
              /\ v.bMount /\ ~v.bFileIsOpen =>
                    /\ (opened <=> ok) /\ (w.bFileIsOpen <=> ok)
                    /\ w.file = (IF ok THEN "live" ELSE v.file)
                    /\ w.broken <=> (v.broken \/ v.lfs # "mounted" \/ v.stray \/ (ok /\ v.file = "live"))
              /\ w.bInit = v.bInit /\ w.bMount = v.bMount /\ w.lfs = v.lfs
              /\ w.pLfs = v.pLfs /\ w.pFile = v.pFile /\ w.stray = v.stray
<1> DEFINE w == lfs_c2000_fopen(v, ok).fs
           o == [OnVolume(v) EXCEPT !.bFileIsOpen = ok]
<1>1. CASE ~v.bMount \/ v.bFileIsOpen
  BY <1>1 DEF lfs_c2000_fopen, Returned
<1>2. CASE ~(~v.bMount \/ v.bFileIsOpen)
  <2>1. /\ o \in Volumes /\ (o.bFileIsOpen <=> ok) /\ (o.broken <=> (v.broken \/ v.lfs # "mounted" \/ v.stray))
        /\ o.file = v.file /\ o.bInit = v.bInit /\ o.bMount = v.bMount /\ o.lfs = v.lfs
        /\ o.pLfs = v.pLfs /\ o.pFile = v.pFile /\ o.stray = v.stray
    BY DEF Volumes, VolumeRecords, OnVolume
  <2>2. CASE ok
    <3> DEFINE broken == o.broken \/ v.file = "live"
    <3>1. /\ w = [o EXCEPT !.broken = broken, !.file = "live",
                           !.exists = TRUE, !.cache = v.stored, !.pos = 0]
          /\ lfs_c2000_fopen(v, ok).ret = TRUE
      BY <1>2, <2>2 DEF lfs_c2000_fopen, Returned
    <3>2. v.stored \in Seq(Int) /\ broken \in BOOLEAN
      BY DEF Volumes, VolumeRecords
    <3>3. broken = (v.broken \/ v.lfs # "mounted" \/ v.stray \/ v.file = "live")
      BY <2>1
    <3> HIDE DEF o, broken, w
    <3>4. w \in Volumes
      <4>1. w \in VolumeRecords /\ w.cache = v.stored /\ w.pos = 0
        BY <2>1, <3>1, <3>2 DEF Volumes, VolumeRecords
      <4> QED BY <3>2, <4>1, EmptyFacts DEF Volumes
    <3>5. /\ w.file = "live" /\ w.broken = broken /\ w.bFileIsOpen = o.bFileIsOpen
          /\ w.bInit = o.bInit /\ w.bMount = o.bMount /\ w.lfs = o.lfs
          /\ w.pLfs = o.pLfs /\ w.pFile = o.pFile /\ w.stray = o.stray
      BY <2>1, <3>1 DEF Volumes, VolumeRecords
    <3> QED BY <1>2, <2>1, <2>2, <3>1, <3>3, <3>4, <3>5 DEF w
  <2>3. CASE ~ok
    <3>1. w = o /\ lfs_c2000_fopen(v, ok).ret = FALSE
      BY <1>2, <2>3 DEF lfs_c2000_fopen, Returned
    <3> HIDE DEF o
    <3> QED BY <1>2, <2>1, <2>3, <3>1
  <2> QED BY <2>2, <2>3
<1> QED BY <1>1, <1>2

(* A file that has been opened is at its start.                            *)
LEMMA OpenAtTheStart ==
    ASSUME NEW v \in Volumes, NEW ok \in BOOLEAN, lfs_c2000_fopen(v, ok).ret
    PROVE  lfs_c2000_fopen(v, ok).fs.pos = 0
<1>1. ok /\ v.bMount /\ ~v.bFileIsOpen
  BY OpenFacts
<1>2. OnVolume(v) \in Volumes
  BY OnVolumeFacts
<1> QED BY <1>1, <1>2 DEF lfs_c2000_fopen, Returned, Volumes, VolumeRecords

(* lfs_c2000_fclose: an open file is closed, whatever littlefs answers.    *)
LEMMA CloseFacts ==
    ASSUME NEW v \in Volumes, NEW ok \in BOOLEAN
    PROVE  LET w == lfs_c2000_fclose(v, ok)
           IN /\ w \in Volumes
              /\ IF ~v.bMount \/ ~v.bFileIsOpen
                 THEN w = v
                 ELSE /\ ~w.bFileIsOpen /\ w.file = "none"
                      /\ (w.broken <=> (v.broken \/ v.lfs # "mounted" \/ v.stray \/ v.file # "live"))
              /\ w.bInit = v.bInit /\ w.bMount = v.bMount /\ w.lfs = v.lfs
              /\ w.pLfs = v.pLfs /\ w.pFile = v.pFile /\ w.stray = v.stray
<1> DEFINE w == lfs_c2000_fclose(v, ok)
           o == OnFile(v)
           kept == IF ok /\ v.exists THEN v.cache ELSE o.stored
<1>1. CASE ~v.bMount \/ ~v.bFileIsOpen
  BY <1>1 DEF lfs_c2000_fclose
<1>2. CASE ~(~v.bMount \/ ~v.bFileIsOpen)
  <2>1. /\ o \in Volumes /\ (o.broken <=> (v.broken \/ v.lfs # "mounted" \/ v.stray \/ v.file # "live"))
        /\ o.bInit = v.bInit /\ o.bMount = v.bMount /\ o.lfs = v.lfs
        /\ o.pLfs = v.pLfs /\ o.pFile = v.pFile /\ o.stray = v.stray
    BY DEF Volumes, VolumeRecords, OnFile
  <2>2. w = [o EXCEPT !.bFileIsOpen = FALSE, !.file = "none", !.stored = kept,
                      !.cache = <<>>, !.pos = 0]
    BY <1>2, <2>1 DEF lfs_c2000_fclose, Volumes, VolumeRecords
  <2>3. kept \in Seq(Int)
    BY <2>1 DEF Volumes, VolumeRecords
  <2> HIDE DEF o, kept, w
  <2>4. w \in Volumes
    <3>1. w \in VolumeRecords /\ w.cache = <<>> /\ w.pos = 0
      BY <2>1, <2>2, <2>3, EmptyFacts DEF Volumes, VolumeRecords
    <3> QED BY <3>1, EmptyFacts DEF Volumes
  <2>5. /\ ~w.bFileIsOpen /\ w.file = "none" /\ w.broken = o.broken
        /\ w.bInit = o.bInit /\ w.bMount = o.bMount /\ w.lfs = o.lfs
        /\ w.pLfs = o.pLfs /\ w.pFile = o.pFile /\ w.stray = o.stray
    BY <2>1, <2>2 DEF Volumes, VolumeRecords
  <2> QED BY <1>2, <2>1, <2>4, <2>5 DEF w
<1> QED BY <1>1, <1>2

(* A call of littlefs that needs an open file keeps the flags.             *)
LEMMA OnFileFacts ==
    ASSUME NEW v \in Volumes
    PROVE  LET w == OnFile(v)
           IN /\ w \in Volumes /\ FlagsStay(v, w)
              /\ (w.broken <=> (v.broken \/ v.lfs # "mounted" \/ v.stray \/ v.file # "live"))
              /\ w.cache = v.cache /\ w.pos = v.pos
BY DEF OnFile, FlagsStay, Volumes, VolumeRecords

(* What is overwritten is the place of the data, and nothing in front of   *)
(* it.                                                                     *)
LEMMA OverwriteFacts ==
    ASSUME NEW s \in Seq(Int), NEW place \in Nat, place <= Len(s), NEW data \in Seq(Int)
    PROVE  LET w == Overwrite(s, place, data)
           IN /\ w \in Seq(Int) /\ Len(w) \in Nat /\ Len(w) >= place + Len(data)
              /\ \A k \in 1..place : w[k] = s[k]
              /\ \A k \in 1..Len(data) : w[place + k] = data[k]
<1> DEFINE n == IF place + Len(data) > Len(s) THEN place + Len(data) ELSE Len(s)
           w == Overwrite(s, place, data)
<1>1. n \in Nat /\ n >= place + Len(data) /\ n >= Len(s) /\ Len(data) \in Nat
      /\ (n = Len(s) \/ n = place + Len(data))
  OBVIOUS
<1>2. w = [k \in 1..n |->
              IF k > place /\ k <= place + Len(data) THEN data[k - place] ELSE s[k]]
  BY DEF Overwrite
<1> HIDE DEF n, w
<1>3. \A k \in 1..n : w[k] \in Int
  <2> TAKE k \in 1..n
  <2>1. CASE k > place /\ k <= place + Len(data)
    <3>1. k - place \in 1..Len(data)
      BY <1>1, <2>1
    <3>2. data[k - place] \in Int
      BY <3>1
    <3> QED BY <1>2, <2>1, <3>2
  <2>2. CASE ~(k > place /\ k <= place + Len(data))
    <3>1. k \in 1..Len(s)
      BY <1>1, <2>2
    <3>2. s[k] \in Int
      BY <3>1
    <3> QED BY <1>2, <2>2, <3>2
  <2> QED BY <2>1, <2>2
<1>4. w \in Seq(Int) /\ Len(w) = n
  BY <1>1, <1>2, <1>3
<1>5. \A k \in 1..place : w[k] = s[k]
  BY <1>1, <1>2
<1>6. \A k \in 1..Len(data) : w[place + k] = data[k]
  BY <1>1, <1>2
<1> QED BY <1>1, <1>4, <1>5, <1>6 DEF w

(* lfs_c2000_fwrite: everything is written, or nothing.                    *)
LEMMA WriteFacts ==
    ASSUME NEW v \in Volumes, NEW data \in Seq(Int), NEW ok \in BOOLEAN
    PROVE  LET w == lfs_c2000_fwrite(v, data, ok).fs
               wrote == lfs_c2000_fwrite(v, data, ok).ret
           IN /\ w \in Volumes /\ FlagsStay(v, w)
              /\ IF ~v.bMount \/ ~v.bFileIsOpen
                 THEN w = v /\ wrote = -1
                 ELSE /\ (w.broken <=> (v.broken \/ v.lfs # "mounted" \/ v.stray \/ v.file # "live"))
                      /\ wrote = IF ok THEN Len(data) ELSE -1
                      /\ ok => /\ w.pos = v.pos + Len(data)
                               /\ \A k \in 1..v.pos : w.cache[k] = v.cache[k]
                               /\ \A k \in 1..Len(data) : w.cache[v.pos + k] = data[k]
                      /\ ~ok => w.cache = v.cache /\ w.pos = v.pos
<1> DEFINE w == lfs_c2000_fwrite(v, data, ok).fs
           o == OnFile(v)
           new == Overwrite(v.cache, v.pos, data)
           end == v.pos + Len(data)
<1>1. CASE ~v.bMount \/ ~v.bFileIsOpen
  BY <1>1 DEF lfs_c2000_fwrite, Returned, FlagsStay
<1>2. CASE ~(~v.bMount \/ ~v.bFileIsOpen) /\ ok
  <2>1. /\ o \in Volumes /\ FlagsStay(v, o) /\ o.cache = v.cache /\ o.pos = v.pos
        /\ (o.broken <=> (v.broken \/ v.lfs # "mounted" \/ v.stray \/ v.file # "live"))
    BY OnFileFacts
  <2>2. /\ new \in Seq(Int) /\ Len(new) >= v.pos + Len(data)
        /\ \A k \in 1..v.pos : new[k] = v.cache[k]
        /\ \A k \in 1..Len(data) : new[v.pos + k] = data[k]
    <3>1. v.cache \in Seq(Int) /\ v.pos \in Nat /\ v.pos <= Len(v.cache)
      BY DEF Volumes, VolumeRecords
    <3> QED BY <3>1, OverwriteFacts
  <2>3. w = [o EXCEPT !.cache = new, !.pos = end]
        /\ lfs_c2000_fwrite(v, data, ok).ret = Len(data)
    BY <1>2, <2>1 DEF lfs_c2000_fwrite, Returned, Volumes, VolumeRecords
  <2>4. end \in Nat /\ end = v.pos + Len(data)
    BY EmptyFacts DEF Volumes, VolumeRecords
  <2> HIDE DEF o, new, end, w
  <2>5. w \in Volumes
    <3>1. w \in VolumeRecords /\ w.cache = new /\ w.pos = end
      BY <2>1, <2>2, <2>3, <2>4 DEF Volumes, VolumeRecords
    <3> QED BY <2>2, <2>4, <3>1 DEF Volumes
  <2>6. w.cache = new /\ w.pos = end /\ FlagsStay(v, w) /\ w.broken = o.broken
    BY <2>1, <2>3 DEF Volumes, VolumeRecords, FlagsStay
  <2> QED BY <1>2, <2>1, <2>2, <2>3, <2>4, <2>5, <2>6 DEF w
<1>3. CASE ~(~v.bMount \/ ~v.bFileIsOpen) /\ ~ok
  <2>1. w = o /\ lfs_c2000_fwrite(v, data, ok).ret = -1
    BY <1>3 DEF lfs_c2000_fwrite, Returned
  <2> HIDE DEF o, w
  <2> QED BY <1>3, <2>1, OnFileFacts DEF o, w
<1> QED BY <1>1, <1>2, <1>3

(* lfs_file_read moves the place in the file and nothing else.             *)
LEMMA ReadFacts ==
    ASSUME NEW v \in Volumes, NEW n \in Nat
    PROVE  LET w == lfs_file_read(v, n).fs
           IN /\ w \in Volumes /\ FlagsStay(v, w)
              /\ (w.broken <=> (v.broken \/ v.lfs # "mounted" \/ v.stray \/ v.file # "live"))
<1> DEFINE w == lfs_file_read(v, n).fs
           o == OnFile(v)
           last == IF v.pos + n > Len(v.cache) THEN Len(v.cache) ELSE v.pos + n
<1>1. /\ o \in Volumes /\ FlagsStay(v, o) /\ o.cache = v.cache
      /\ (o.broken <=> (v.broken \/ v.lfs # "mounted" \/ v.stray \/ v.file # "live"))
  BY OnFileFacts
<1>2. w = [o EXCEPT !.pos = last]
  BY DEF lfs_file_read, Returned
<1>3. last \in Nat /\ last <= Len(v.cache)
  BY EmptyFacts DEF Volumes, VolumeRecords
<1> HIDE DEF w, o, last
<1>4. w \in Volumes
  BY <1>1, <1>2, <1>3 DEF Volumes, VolumeRecords
<1>5. FlagsStay(v, w) /\ w.broken = o.broken
  BY <1>1, <1>2 DEF Volumes, VolumeRecords, FlagsStay
<1> QED BY <1>1, <1>4, <1>5 DEF w
(* littlefs and every flag as they are while a transfer has its file open.  *)
Owned(v) ==
    /\ v.pFile /\ v.pLfs /\ v.bInit /\ v.bMount /\ v.bFileIsOpen
    /\ v.lfs = "mounted" /\ v.file = "live" /\ ~v.stray /\ ~v.broken

(* lfs_cleanup of a transfer that has its file open closes it and          *)
(* unmounts.                                                               *)
LEMMA CleanupOwnedFacts ==
    ASSUME NEW v \in Volumes, NEW ok \in BOOLEAN, Owned(v)
    PROVE  LET w == lfs_cleanup(v, ok)
           IN /\ w \in Volumes
              /\ ~w.pFile /\ ~w.pLfs /\ ~w.bFileIsOpen /\ ~w.bMount
              /\ w.lfs = "off" /\ w.file # "live" /\ ~w.broken
<1> DEFINE c == lfs_c2000_fclose(v, ok)
           closed == [c EXCEPT !.pFile = FALSE]
           u == lfs_c2000_umount(closed)
           w == lfs_cleanup(v, ok)
<1>1. /\ c \in Volumes /\ ~c.bFileIsOpen /\ ~c.broken /\ c.bInit /\ c.bMount /\ c.pLfs
  BY CloseFacts DEF Owned
<1>2. w = [u EXCEPT !.pLfs = FALSE]
  <2>1. closed.pLfs
    BY <1>1 DEF Volumes, VolumeRecords
  <2> QED BY <2>1 DEF lfs_cleanup, Owned
<1>3. /\ closed \in Volumes /\ ~closed.bFileIsOpen /\ ~closed.broken /\ closed.bInit
      /\ closed.bMount /\ ~closed.pFile
  <2> HIDE DEF c
  <2> QED BY <1>1 DEF Volumes, VolumeRecords
<1> HIDE DEF closed
<1>4. /\ u \in Volumes /\ ~u.bMount /\ u.lfs = "off" /\ u.file # "live" /\ ~u.bFileIsOpen
      /\ ~u.pFile /\ ~u.broken
  BY <1>3, UmountFacts
<1> HIDE DEF u, w
<1> QED BY <1>2, <1>4 DEF Volumes, VolumeRecords, w

(* Without a file only the volume is given back, if this handle had it.    *)
LEMMA CleanupFacts ==
    ASSUME NEW v \in Volumes, NEW ok \in BOOLEAN, ~v.pFile
    PROVE  LET w == lfs_cleanup(v, ok)
           IN /\ w \in Volumes /\ ~w.pFile /\ ~w.pLfs
              /\ w.bFileIsOpen = v.bFileIsOpen /\ w.broken = v.broken
              /\ ~v.pLfs => w = v
              /\ \/ w.bMount = v.bMount /\ w.lfs = v.lfs /\ w.file = v.file
                 \/ ~w.bMount /\ w.lfs = "off" /\ w.file # "live"
              /\ v.bInit => ~w.bMount \/ ~v.pLfs
<1> DEFINE u == lfs_c2000_umount(v)
           w == lfs_cleanup(v, ok)
<1>1. CASE v.pLfs
  <2>1. w = [u EXCEPT !.pLfs = FALSE]
    BY <1>1 DEF lfs_cleanup
  <2>2. /\ u \in Volumes
        /\ IF v.bInit /\ v.bMount
           THEN ~u.bMount /\ u.lfs = "off" /\ u.file # "live"
           ELSE u = v
        /\ u.bFileIsOpen = v.bFileIsOpen /\ u.pFile = v.pFile /\ u.broken = v.broken
    BY UmountFacts
  <2> HIDE DEF u, w
  <2>3. w \in Volumes /\ ~w.pLfs /\ w.pFile = u.pFile /\ w.bFileIsOpen = u.bFileIsOpen
        /\ w.broken = u.broken /\ w.bMount = u.bMount /\ w.lfs = u.lfs /\ w.file = u.file
    BY <2>1, <2>2 DEF Volumes, VolumeRecords
  <2> QED BY <1>1, <2>2, <2>3 DEF w
<1>2. CASE ~v.pLfs
  BY <1>2 DEF lfs_cleanup
<1> QED BY <1>1, <1>2
------------------------------------------------------------------------------
(* The inductive invariant.                                                *)
Receiving == {"packet", "consume", "handle"}

(* Ymodem_Transmit with its file open, and without.                        *)
Opened == {"prepare", "name", "block", "eot", "last",
           "nameAck", "nameC", "blockAck", "eotAck", "eotC", "lastAck"}
Unopened == {"off", "poll", "pollWait", "open", "done"}

Types ==
    /\ fs \in Volumes
    /\ role \in {"user", "receive", "transmit"}
    /\ rxPc \in {"off", "done"} \cup Receiving /\ txPc \in Opened \cup Unopened
    /\ careless \in BOOLEAN /\ refused \in BOOLEAN /\ before \in BOOLEAN \X BOOLEAN
    /\ packets_received \in Nat /\ txSize \in Nat

(* What is on the line to the receiver, and what it has taken from it.     *)
Heard ==
    /\ role # "transmit" => toRx \in Seq(Utterances)
    /\ out.packet \in Utterances
    /\ R!IsNormal(out) => out.length = Len(out.packet.data)

(* One command at a time: no one else is at a transfer's place.            *)
Roles ==
    /\ role # "receive" => rxPc = "off"
    /\ role # "transmit" => txPc = "off"

(* pFile stands for a file that the transfer under way has opened itself.  *)
Owning ==
    /\ fs.pFile => Owned(fs) /\ ~before[1]
    /\ fs.pFile => \/ role = "receive" /\ rxPc \in Receiving /\ packets_received > 0
                   \/ role = "transmit" /\ txPc \in Opened
    /\ txPc \in Opened => fs.pFile

(* Before its file is open a transfer has changed neither flag, afterwards *)
(* it has given both back.                                                 *)
Keeping ==
    role # "user" /\ ~fs.pFile =>
        /\ fs.bFileIsOpen = before[1]
        /\ fs.bMount => before[2]
        /\ "done" \notin {rxPc, txPc} => fs.bMount = before[2]

(* Nothing is announced and nothing written while no file is open.         *)
Unannounced ==
    (role # "receive" \/ ~fs.pFile) /\ rxPc # "done" => rxSize = 0 /\ file_len = 0

(* A file of littlefs is open only where its flag says so, and on a volume *)
(* that is mounted as long as littlefs is not broken; it breaks only by a  *)
(* command of the user.                                                    *)
Alive(v) == v.file = "live" => v.bFileIsOpen /\ (v.lfs = "mounted" \/ v.broken)
Living == Alive(fs) /\ (fs.broken => role = "user")

(* A careful user begins a transfer with nothing open and nothing mounted. *)
Careful_user == ~careless /\ role # "user" => before = <<FALSE, FALSE>>

(* pLfs outlives its transfer only after a refused ymodem_send.            *)
Leftover == fs.pLfs /\ ~fs.pFile => refused

(* What has been received is what was announced, or whole packets of it.   *)
Stored ==
    role = "receive" /\ fs.pFile =>
        /\ rxSize \in 1..MaxSize
        /\ fs.pos = file_len
        /\ file_len \in 0..rxSize
        /\ \/ file_len = (packets_received - 1) * PACKET_1K_SIZE
           \/ file_len = rxSize
        /\ file_len < rxSize => packets_received < 256
        /\ \A k \in 1..file_len : fs.cache[k] = k

IInv ==
    /\ Types /\ Heard /\ Roles /\ Owning /\ Keeping /\ Unannounced /\ Living
    /\ Careful_user /\ FlagsTellTheTruth /\ Leftover /\ Stored
------------------------------------------------------------------------------
(* The steps of Ymodem_Receive, by what they do to the file system.        *)
RxQuiet ==
    /\ rxPc \in {"off"} \cup Receiving /\ rxPc' \in Receiving
    /\ UNCHANGED <<fs, rxSize, file_len>>
    /\ \/ UNCHANGED packets_received
       \/ packets_received = 0 /\ packets_received' = 1

(* It ends, with the file system as v. *)
RxEnds(v) ==
    /\ rxPc = "handle" /\ rxPc' = "done"
    /\ \E ok \in BOOLEAN : fs' = lfs_cleanup(v, ok)
    /\ UNCHANGED <<file_len, packets_received>>

Mounted(v, ok) == [lfs_c2000_mount(v, ok).fs EXCEPT !.pLfs = ok]
Open(v, ok) == lfs_c2000_fopen(Mounted(v, TRUE), ok)

RxFilename ==
    /\ packets_received = 0
    /\ \/ RxEnds(Mounted(fs, FALSE)) /\ rxSize' = -11
       \/ \E ok \in BOOLEAN :
             ~Open(fs, ok).ret /\ RxEnds(Open(fs, ok).fs) /\ rxSize' = -12
       \/ \E ok \in BOOLEAN :
             /\ Open(fs, ok).ret
             /\ rxPc = "handle" /\ rxPc' = "packet"
             /\ fs' = [Open(fs, ok).fs EXCEPT !.pFile = TRUE]
             /\ rxSize' = out.packet.data[1] /\ rxSize' \in 1..MaxSize
             /\ file_len' = 0 /\ packets_received' = 1

Wanted == IF file_len < rxSize THEN R!write_len(out.length) ELSE 0
Write(ok) ==
    IF file_len < rxSize
    THEN lfs_c2000_fwrite(fs, SubSeq(out.packet.data, 1, Wanted), ok)
    ELSE Returned(fs, 0)

RxData ==
    /\ packets_received > 0 /\ R!IsNormal(out) /\ R!Expected
    /\ \E ok \in BOOLEAN :
          \/ Write(ok).ret # Wanted /\ RxEnds(Write(ok).fs) /\ rxSize' = -6
          \/ /\ Write(ok).ret = Wanted
             /\ rxPc = "handle" /\ rxPc' = "packet"
             /\ fs' = Write(ok).fs
             /\ file_len' = file_len + Wanted
             /\ packets_received' = packets_received + 1 /\ UNCHANGED rxSize

(* A call of littlefs succeeds or fails.                                   *)
LEMMA OutcomesFacts ==
    \A call : R!Outcomes(call) \subseteq BOOLEAN /\ T!Outcomes(call) \subseteq BOOLEAN
BY DEF R!Outcomes, T!Outcomes

(* The operators of the glue are the same in the instances of the two      *)
(* ends.                                                                   *)
LEMMA SameCleanup ==
    \A v, ok : R!lfs_cleanup(v, ok) = lfs_cleanup(v, ok) /\ T!lfs_cleanup(v, ok) = lfs_cleanup(v, ok)
BY DEF lfs_cleanup, lfs_c2000_umount, Restarted, lfs_c2000_fclose, OnFile,
       R!lfs_cleanup, R!lfs_c2000_umount, R!Restarted, R!lfs_c2000_fclose, R!OnFile,
       T!lfs_cleanup, T!lfs_c2000_umount, T!Restarted, T!lfs_c2000_fclose, T!OnFile

LEMMA SameUmount == \A v : T!lfs_c2000_umount(v) = lfs_c2000_umount(v)
BY DEF lfs_c2000_umount, Restarted, T!lfs_c2000_umount, T!Restarted

LEMMA SameMount ==
    \A v, ok : /\ R!lfs_c2000_mount(v, ok) = lfs_c2000_mount(v, ok)
               /\ T!lfs_c2000_mount(v, ok) = lfs_c2000_mount(v, ok)
BY DEF lfs_c2000_mount, Restarted, lfs_c2000_init, Returned,
       R!lfs_c2000_mount, R!Restarted, R!lfs_c2000_init, R!Returned,
       T!lfs_c2000_mount, T!Restarted, T!lfs_c2000_init, T!Returned

LEMMA SameOpen ==
    \A v, ok : /\ R!lfs_c2000_fopen(v, ok) = lfs_c2000_fopen(v, ok)
               /\ T!lfs_c2000_fopen(v, ok) = lfs_c2000_fopen(v, ok)
BY DEF lfs_c2000_fopen, OnVolume, Returned, R!lfs_c2000_fopen, R!OnVolume, R!Returned,
       T!lfs_c2000_fopen, T!OnVolume, T!Returned

LEMMA SameWrite ==
    \A v, data, ok : R!lfs_c2000_fwrite(v, data, ok) = lfs_c2000_fwrite(v, data, ok)
BY DEF lfs_c2000_fwrite, OnFile, Overwrite, Returned,
       R!lfs_c2000_fwrite, R!OnFile, R!Overwrite, R!Returned

LEMMA SameRead == \A v, n : T!lfs_file_read(v, n) = lfs_file_read(v, n)
BY DEF lfs_file_read, OnFile, Returned, T!lfs_file_read, T!OnFile, T!Returned

(* Every way out of Ymodem_Receive goes through lfs_cleanup.               *)
LEMMA ExitFacts ==
    ASSUME NEW result, NEW v, rxPc = "handle", R!Exit(result, v)
    PROVE  RxEnds(v) /\ rxSize' = result /\ out' = out
BY SameCleanup, OutcomesFacts DEF R!Exit, RxEnds

(* An error is answered, or it ends the transfer.                          *)
LEMMA CountErrorFacts ==
    ASSUME NEW limit, NEW result, NEW bytes, rxPc = "handle", R!CountError(limit, result, bytes)
    PROVE  (RxEnds(fs) \/ RxQuiet) /\ out' = out
BY ExitFacts DEF R!CountError, R!Go, RxQuiet, Receiving

(* The units of a packet.                                                  *)
LEMMA UnitsType == \A k \in 0..255 : UnitsOf(k) \in Seq(Int)
<1> TAKE k \in 0..255
<1>1. /\ \A n \in 1..PACKET_1K_SIZE : (k - 1) * PACKET_1K_SIZE + n \in Int
      /\ PACKET_1K_SIZE \in Nat
  BY PacketAssumption
<1> QED BY <1>1 DEF UnitsOf

(* Whatever the sender says, a good data packet has the units of its       *)
(* number, and number 0 is no data.                                        *)
LEMMA UtteranceFacts ==
    ASSUME NEW item \in Utterances
    PROVE  /\ item.data \in Seq(Int) /\ item.sound \in BOOLEAN
           /\ item.ch = SOH => item.seq = 0
           /\ item.ch = STX /\ item.sound => item.seq \in 1..255 /\ item.data = UnitsOf(item.seq)
<1>1. CASE item = Packet(SOH, 0, <<>>)
  <2>1. item = [ch |-> 1, seq |-> 0, data |-> <<>>, sound |-> TRUE]
    BY <1>1 DEF Packet, SOH
  <2> QED BY <2>1, EmptyFacts DEF SOH, STX
<1>2. CASE item \in {Packet(SOH, 0, <<n>>) : n \in Announced}
  <2>1. PICK n \in Announced : item = [ch |-> 1, seq |-> 0, data |-> <<n>>, sound |-> TRUE]
    BY <1>2 DEF Packet, SOH
  <2>2. <<n>> \in Seq(Int)
    BY PeerAssumption
  <2> QED BY <2>1, <2>2 DEF SOH, STX
<1>3. CASE item \in {Packet(STX, k, UnitsOf(k)) : k \in Numbers \ {0}}
  <2>1. PICK k \in Numbers \ {0} : item = Packet(STX, k, UnitsOf(k))
    BY <1>3
  <2>2. k \in 1..255 /\ k % 256 = k
    BY PeerAssumption
  <2>3. item.ch = 2 /\ item.seq = k /\ item.data = UnitsOf(k) /\ item.sound = TRUE
    BY <2>1, <2>2 DEF Packet, STX
  <2>4. UnitsOf(k) \in Seq(Int)
    <3>1. k \in 0..255
      BY <2>2
    <3> QED BY <3>1, UnitsType
  <2>5. item.seq \in 1..255 /\ item.data \in Seq(Int)
    BY <2>2, <2>3, <2>4
  <2>6. item.sound \in BOOLEAN
    BY <2>3
  <2>7. item.ch # SOH
    BY <2>3 DEF SOH
  <2>8. item.data = UnitsOf(item.seq)
    BY <2>3
  <2> QED BY <2>5, <2>6, <2>7, <2>8
<1>4. CASE item = [Packet(STX, 1, UnitsOf(1)) EXCEPT !.sound = FALSE]
  <2>1. item.ch = 2 /\ item.data = UnitsOf(1) /\ item.sound = FALSE
    BY <1>4 DEF Packet, STX
  <2>2. UnitsOf(1) \in Seq(Int)
    BY UnitsType
  <2>3. item.data \in Seq(Int)
    BY <2>1, <2>2
  <2>4. item.sound \in BOOLEAN /\ ~item.sound
    BY <2>1
  <2>5. item.ch # SOH
    BY <2>1 DEF SOH
  <2> QED BY <2>3, <2>4, <2>5
<1>5. CASE item \in {Control(c) : c \in {EOT, CA, ABORT1, JUNK}}
  <2>1. PICK c \in {4, 24, 65, 255} : item = [ch |-> c, seq |-> 0, data |-> <<>>, sound |-> TRUE]
    BY <1>5 DEF Control, EOT, CA, ABORT1, JUNK
  <2> QED BY <2>1, EmptyFacts DEF SOH, STX
<1> QED BY <1>1, <1>2, <1>3, <1>4, <1>5 DEF Utterances

(* What the file name packet does: it ends the transfer, or opens the      *)
(* file.                                                                   *)
LEMMA FilenameFacts ==
    ASSUME Types, Heard, rxPc = "handle", R!Filename
    PROVE  (RxEnds(fs) \/ RxFilename) /\ out' = out
<1> DEFINE announced == out.packet.data[1]
<1>0. announced \in Int
  <2>1. out.packet.data \in Seq(Int)
    BY UtteranceFacts DEF Heard
  <2>2. out.packet.data # <<>>
    BY DEF R!Filename
  <2> QED BY <2>1, <2>2
<1>1. CASE announced < 1 \/ announced > MaxSize
  <2>1. PICK result : R!Exit(result, fs)
    BY <1>1 DEF R!Filename
  <2> QED BY <2>1, ExitFacts
<1>2. CASE ~(announced < 1 \/ announced > MaxSize)
  <2>1. PICK okMount \in BOOLEAN, okOpen \in BOOLEAN :
            LET mount == lfs_c2000_mount(fs, okMount)
                mounted == [mount.fs EXCEPT !.pLfs = mount.ret]
                open == lfs_c2000_fopen(mounted, okOpen)
            IN  CASE ~mount.ret -> R!Exit(-11, mounted)
                  [] mount.ret /\ ~open.ret -> R!Exit(-12, open.fs)
                  [] OTHER -> /\ fs' = [open.fs EXCEPT !.pFile = TRUE]
                              /\ rxSize' = announced /\ file_len' = 0
                              /\ packets_received' = packets_received + 1
                              /\ R!Go
    BY <1>2, OutcomesFacts, SameMount, SameOpen DEF R!Filename
  <2>2. packets_received = 0
    BY DEF R!Filename, R!FirstPacket
  <2>3. lfs_c2000_mount(fs, okMount).ret = okMount
    BY MountFacts DEF Types
  <2>4. CASE ~okMount
    <3>1. R!Exit(-11, Mounted(fs, FALSE))
      BY <2>1, <2>3, <2>4 DEF Mounted
    <3> QED BY <2>2, <3>1, ExitFacts DEF RxFilename
  <2>5. CASE okMount
    <3>1. [lfs_c2000_mount(fs, okMount).fs EXCEPT !.pLfs = okMount] = Mounted(fs, TRUE)
      BY <2>5 DEF Mounted
    <3>2. CASE ~Open(fs, okOpen).ret
      <4>1. R!Exit(-12, Open(fs, okOpen).fs)
        BY <2>1, <2>3, <2>5, <3>1, <3>2 DEF Open
      <4> QED BY <2>2, <3>2, <4>1, ExitFacts DEF RxFilename
    <3>3. CASE Open(fs, okOpen).ret
      <4>1. /\ fs' = [Open(fs, okOpen).fs EXCEPT !.pFile = TRUE]
            /\ rxSize' = announced /\ file_len' = 0
            /\ packets_received' = packets_received + 1 /\ R!Go
        BY <2>1, <2>3, <2>5, <3>1, <3>3 DEF Open
      <4>2. announced \in 1..MaxSize
        BY <1>0, <1>2, ReceiveAssumption
      <4>3. packets_received' = 1 /\ rxPc' = "packet" /\ rxSize' \in 1..MaxSize
        BY <2>2, <4>1, <4>2 DEF R!Go
      <4> QED BY <2>2, <3>3, <4>1, <4>3 DEF RxFilename, R!Go
    <3> QED BY <3>2, <3>3
  <2> QED BY <2>4, <2>5
<1> QED BY <1>1, <1>2

(* What a data packet does: its units are written, or the transfer ends.   *)
LEMMA DataFacts ==
    ASSUME Types, rxPc = "handle", R!Data
    PROVE  RxData /\ out' = out
<1>1. PICK ok \in BOOLEAN :
          IF Write(ok).ret # Wanted
          THEN R!Exit(-6, Write(ok).fs)
          ELSE /\ fs' = Write(ok).fs
               /\ file_len' = file_len + Wanted
               /\ packets_received' = packets_received + 1
               /\ R!Go
               /\ UNCHANGED rxSize
  BY OutcomesFacts, SameWrite DEF R!Data, Write, Wanted, Returned, R!Returned
<1>2. packets_received > 0 /\ R!IsNormal(out) /\ R!Expected
  BY DEF R!Data
<1>3. CASE Write(ok).ret # Wanted
  BY <1>1, <1>2, <1>3, ExitFacts DEF RxData
<1>4. CASE Write(ok).ret = Wanted
  BY <1>1, <1>2, <1>4 DEF RxData, R!Go
<1> QED BY <1>3, <1>4

(* What is done with whatever has been taken from the line.                *)
LEMMA HandleFacts ==
    ASSUME Types, Heard, R!Handle
    PROVE  /\ RxQuiet \/ RxEnds(fs) \/ RxFilename \/ RxData
           /\ out' = out
           /\ UNCHANGED toRx
<1>1. rxPc = "handle"
  BY DEF R!Handle
<1>2. CASE R!SenderAborts
  BY <1>1, <1>2, ExitFacts DEF R!SenderAborts, R!Answer
<1>3. CASE R!BadPacket
  BY <1>1, <1>3, CountErrorFacts DEF R!BadPacket, R!CountError, R!Answer
<1>4. CASE R!EndOfTransmission
  BY <1>1, <1>4 DEF R!EndOfTransmission, R!Answer, R!Go, RxQuiet, Receiving
<1>5. CASE R!LastPacket
  BY <1>1, <1>5 DEF R!LastPacket, R!Answer, R!Go, RxQuiet, Receiving, R!counters
<1>6. CASE R!WrongSequence
  BY <1>1, <1>6, CountErrorFacts DEF R!WrongSequence, R!CountError, R!Answer
<1>7. CASE R!EmptyFilename
  <2>1. packets_received = 0 /\ UNCHANGED toRx
    BY <1>7 DEF R!EmptyFilename, R!FirstPacket, R!Answer
  <2>2. CASE errors + 1 > PacketErrors
    BY <1>1, <1>7, <2>1, <2>2, ExitFacts DEF R!EmptyFilename
  <2>3. CASE ~(errors + 1 > PacketErrors)
    BY <1>1, <1>7, <2>1, <2>3 DEF R!EmptyFilename, R!Go, RxQuiet, Receiving
  <2> QED BY <2>1, <2>2, <2>3
<1>8. CASE R!Filename
  <2>1. UNCHANGED toRx
    BY <1>8 DEF R!Filename, R!Answer
  <2> QED BY <1>1, <1>8, <2>1, FilenameFacts
<1>9. CASE R!Data
  <2>1. UNCHANGED toRx
    BY <1>9 DEF R!Data, R!Answer
  <2> QED BY <1>1, <1>9, <2>1, DataFacts
<1>10. CASE R!UserAborts
  BY <1>1, <1>10, ExitFacts DEF R!UserAborts, R!Answer
<1>11. CASE R!SessionDone
  BY <1>1, <1>11, ExitFacts DEF R!SessionDone
<1>12. CASE R!NoPacketInTime
  BY <1>1, <1>12, CountErrorFacts DEF R!NoPacketInTime, R!CountError, R!Answer
<1> QED BY <1>2, <1>3, <1>4, <1>5, <1>6, <1>7, <1>8, <1>9, <1>10, <1>11, <1>12 DEF R!Handle
------------------------------------------------------------------------------
(* The steps of Ymodem_Transmit, by what they do to the file system.       *)
TxQuiet ==
    /\ txPc \in Unopened \ {"done"} /\ txPc' \in Unopened \ {"done"}
    /\ UNCHANGED fs

TxGoesOn ==
    /\ txPc \in Opened /\ txPc' \in Opened
    /\ fs' = fs \/ \E n \in Nat : fs' = lfs_file_read(fs, n).fs

TxGivesUp ==
    /\ txPc \in Unopened \ {"done"} /\ txPc' = "done"
    /\ UNCHANGED fs

TxEnds ==
    /\ txPc \in Opened /\ txPc' = "done"
    /\ \E ok \in BOOLEAN : fs' = lfs_cleanup(fs, ok)

OpenAndKept(v, ok) == [Open(v, ok).fs EXCEPT !.pFile = Open(v, ok).ret]

TxOpen ==
    /\ txPc = "open"
    /\ \/ txPc' = "done" /\ fs' = Mounted(fs, FALSE)
       \/ \E ok \in BOOLEAN :
             /\ ~Open(fs, ok).ret
             /\ txPc' = "done" /\ ret' = -12
             /\ fs' = lfs_c2000_umount(OpenAndKept(fs, ok))
       \/ \E ok, okClose \in BOOLEAN :
             /\ Open(fs, ok).ret
             /\ txPc' = "done" /\ fs' = lfs_cleanup(OpenAndKept(fs, ok), okClose)
       \/ \E ok \in BOOLEAN :
             /\ Open(fs, ok).ret
             /\ txPc' = "name" /\ fs' = OpenAndKept(fs, ok) /\ txSize' = Len(fs'.stored)

(* The places where Ymodem_Transmit waits for an answer.                   *)
LEMMA AwaitedFacts ==
    /\ DOMAIN T!Awaited = {"nameAck", "nameC", "blockAck", "eotAck", "eotC", "lastAck"}
    /\ DOMAIN T!AwaitedBy = {"name", "block", "eot", "last"}
    /\ \A m \in DOMAIN T!AwaitedBy : T!AwaitedBy[m] \in {"nameAck", "blockAck", "eotAck", "lastAck"}
BY DEF T!Awaited, T!AwaitedBy

(* What the opening of the file does, whichever call of it fails.          *)
LEMMA OpenFileFacts ==
    ASSUME Types, T!OpenFile
    PROVE  TxOpen /\ (txPc' = "done" => txSize' = txSize)
<1> DEFINE mount(ok) == lfs_c2000_mount(fs, ok)
           mounted(ok) == [mount(ok).fs EXCEPT !.pLfs = mount(ok).ret]
           open(ok1, ok2) == lfs_c2000_fopen(mounted(ok1), ok2)
           opened(ok1, ok2) == [open(ok1, ok2).fs EXCEPT !.pFile = open(ok1, ok2).ret]
<1>1. PICK okMount \in BOOLEAN, okOpen \in BOOLEAN, okStat \in BOOLEAN, okClose \in BOOLEAN :
          /\ ~mount(okMount).ret => T!Return(-11, mounted(okMount))
          /\ mount(okMount).ret /\ ~open(okMount, okOpen).ret
                => T!Return(-12, lfs_c2000_umount(opened(okMount, okOpen)))
          /\ mount(okMount).ret /\ open(okMount, okOpen).ret /\ ~okStat
                => T!Return(-13, lfs_cleanup(opened(okMount, okOpen), okClose))
          /\ mount(okMount).ret /\ open(okMount, okOpen).ret /\ okStat
                => /\ fs' = opened(okMount, okOpen)
                   /\ txSize' = Len(opened(okMount, okOpen).stored) /\ txPc' = "name"
  <2> DEFINE tMount(ok) == T!lfs_c2000_mount(fs, ok)
             tMounted(ok) == [tMount(ok).fs EXCEPT !.pLfs = tMount(ok).ret]
             tOpen(ok1, ok2) == T!lfs_c2000_fopen(tMounted(ok1), ok2)
             tOpened(ok1, ok2) == [tOpen(ok1, ok2).fs EXCEPT !.pFile = tOpen(ok1, ok2).ret]
  <2>1. PICK okMount \in T!Outcomes("mount"), okOpen \in T!Outcomes("open"),
             okStat \in T!Outcomes("stat"), okClose \in T!Outcomes("close") :
          CASE ~tMount(okMount).ret -> T!Return(-11, tMounted(okMount))
            [] tMount(okMount).ret /\ ~tOpen(okMount, okOpen).ret ->
                  T!Return(-12, T!lfs_c2000_umount(tOpened(okMount, okOpen)))
            [] tMount(okMount).ret /\ tOpen(okMount, okOpen).ret /\ ~okStat ->
                  T!Return(-13, T!lfs_cleanup(tOpened(okMount, okOpen), okClose))
            [] OTHER -> fs' = tOpened(okMount, okOpen)
                        /\ txSize' = Len(tOpened(okMount, okOpen).stored) /\ txPc' = "name"
    BY DEF T!OpenFile, T!after_open_failed
  <2>2. /\ tMount(okMount) = mount(okMount)
        /\ tMounted(okMount) = mounted(okMount)
        /\ tOpen(okMount, okOpen) = open(okMount, okOpen)
        /\ tOpened(okMount, okOpen) = opened(okMount, okOpen)
    BY SameMount, SameOpen
  <2>3. /\ \A v : T!lfs_c2000_umount(v) = lfs_c2000_umount(v)
        /\ \A v : T!lfs_cleanup(v, okClose) = lfs_cleanup(v, okClose)
    BY SameUmount, SameCleanup
  <2> HIDE DEF mount, mounted, open, opened, tMount, tMounted, tOpen, tOpened
  <2> QED BY <2>1, <2>2, <2>3, OutcomesFacts
<1>2. txPc = "open"
  BY DEF T!OpenFile
<1>3. lfs_c2000_mount(fs, okMount).ret = okMount
  BY MountFacts DEF Types
<1>4. CASE ~okMount
  <2>1. T!Return(-11, Mounted(fs, FALSE))
    BY <1>1, <1>3, <1>4 DEF Mounted
  <2> QED BY <1>2, <2>1 DEF TxOpen, T!Return
<1>5. CASE okMount
  <2>1. [lfs_c2000_mount(fs, okMount).fs EXCEPT !.pLfs = okMount] = Mounted(fs, TRUE)
    BY <1>5 DEF Mounted
  <2>2. /\ ~Open(fs, okOpen).ret => T!Return(-12, lfs_c2000_umount(OpenAndKept(fs, okOpen)))
        /\ Open(fs, okOpen).ret /\ ~okStat
              => T!Return(-13, lfs_cleanup(OpenAndKept(fs, okOpen), okClose))
        /\ Open(fs, okOpen).ret /\ okStat
              => /\ fs' = OpenAndKept(fs, okOpen) /\ txSize' = Len(fs'.stored)
                 /\ txPc' = "name"
    BY <1>1, <1>3, <1>5, <2>1 DEF Open, OpenAndKept
  <2>3. CASE ~Open(fs, okOpen).ret
    BY <1>2, <2>2, <2>3 DEF TxOpen, T!Return
  <2>4. CASE Open(fs, okOpen).ret /\ ~okStat
    BY <1>2, <2>2, <2>4 DEF TxOpen, T!Return
  <2>5. CASE Open(fs, okOpen).ret /\ okStat
    BY <1>2, <2>2, <2>5 DEF TxOpen
  <2> QED BY <2>3, <2>4, <2>5
<1> QED BY <1>4, <1>5

(* What an answer does, or none: the transfer goes on or ends through      *)
(* lfs_cleanup.                                                            *)
LEMMA ActFacts ==
    ASSUME Types, txPc \in DOMAIN T!Awaited, NEW response, T!Act(response)
    PROVE  (TxGoesOn \/ TxEnds) /\ txSize' \in Nat
<1>1. txPc \in Opened
  BY AwaitedFacts DEF Opened
<1>2. CASE T!GoOn
  <2>1. T!Left \in Nat
    BY PacketAssumption DEF T!Left, Types
  <2>2. CASE txPc = "lastAck"
    BY <1>1, <1>2, <2>2, SameCleanup, OutcomesFacts DEF T!GoOn, TxEnds, Types
  <2>3. CASE txPc # "lastAck"
    <3>1. txPc' \in Opened /\ fs' = fs /\ txSize' \in {txSize, T!Left}
      BY <1>2, <2>3, AwaitedFacts DEF T!GoOn, Opened
    <3> QED BY <1>1, <2>1, <3>1 DEF TxGoesOn, Types
  <2> QED BY <2>2, <2>3
<1>3. ASSUME NEW code, T!Fail(code, response)
      PROVE  TxEnds /\ txSize' = txSize
  BY <1>1, <1>3, SameCleanup, OutcomesFacts DEF T!Fail, T!Return, TxEnds
<1>4. CASE txPc \in T!Resendable /\ T!SendAgain
  <2>1. \E m \in DOMAIN T!AwaitedBy : T!AwaitedBy[m] = txPc
    BY <1>4 DEF T!Resendable
  <2>2. txPc' \in DOMAIN T!AwaitedBy
    BY <1>4, <2>1 DEF T!SendAgain
  <2> QED BY <1>1, <1>4, <2>2, AwaitedFacts DEF T!SendAgain, TxGoesOn, Opened, Types
<1> QED BY <1>2, <1>3, <1>4 DEF T!Act, Types

(* A volume that has been mounted for a transfer, or could not be.         *)
LEMMA MountedFacts ==
    ASSUME NEW v \in Volumes, NEW ok \in BOOLEAN
    PROVE  LET w == Mounted(v, ok)
           IN /\ w \in Volumes /\ (w.pLfs <=> ok)
              /\ w.lfs = (IF ok THEN "mounted" ELSE "off") /\ w.file # "live" /\ ~w.stray
              /\ w.bInit /\ (w.bMount <=> (v.bMount \/ ok)) /\ w.bFileIsOpen = v.bFileIsOpen
              /\ w.pFile = v.pFile /\ w.broken = v.broken
<1> DEFINE u == lfs_c2000_mount(v, ok).fs
           w == Mounted(v, ok)
<1>1. /\ u \in Volumes /\ u.lfs = (IF ok THEN "mounted" ELSE "off") /\ u.file # "live" /\ ~u.stray
      /\ u.bInit /\ (u.bMount <=> (v.bMount \/ ok)) /\ u.bFileIsOpen = v.bFileIsOpen
      /\ u.pFile = v.pFile /\ u.broken = v.broken
  BY MountFacts
<1>2. w = [u EXCEPT !.pLfs = ok]
  BY DEF Mounted
<1> HIDE DEF u, w
<1>3. w \in Volumes /\ (w.pLfs <=> ok)
  BY <1>1, <1>2 DEF Volumes, VolumeRecords
<1>4. /\ w.lfs = u.lfs /\ w.file = u.file /\ w.bInit = u.bInit /\ w.bMount = u.bMount
      /\ w.bFileIsOpen = u.bFileIsOpen /\ w.pFile = u.pFile /\ w.broken = u.broken
      /\ w.stray = u.stray
  BY <1>1, <1>2 DEF Volumes, VolumeRecords
<1> QED BY <1>1, <1>3, <1>4 DEF w

(* Opening the file on a volume that has just been mounted.                *)
LEMMA OpenMountedFacts ==
    ASSUME NEW m \in Volumes, NEW ok \in BOOLEAN,
           m.bMount, m.lfs = "mounted", m.file # "live", ~m.stray, ~m.broken
    PROVE  LET w == lfs_c2000_fopen(m, ok).fs
               opened == lfs_c2000_fopen(m, ok).ret
           IN /\ w \in Volumes /\ ~w.stray /\ ~w.broken
              /\ w.bInit = m.bInit /\ w.bMount = m.bMount /\ w.lfs = m.lfs
              /\ w.pLfs = m.pLfs /\ w.pFile = m.pFile
              /\ opened => ~m.bFileIsOpen /\ w.bFileIsOpen /\ w.file = "live" /\ w.pos = 0
              /\ ~opened => (w.bFileIsOpen <=> m.bFileIsOpen) /\ w.file # "live"
<1> DEFINE w == lfs_c2000_fopen(m, ok).fs
           opened == lfs_c2000_fopen(m, ok).ret
<1>1. w \in Volumes
  BY OpenFacts
<1>3. w.bInit = m.bInit /\ w.bMount = m.bMount /\ w.lfs = m.lfs /\ w.pLfs = m.pLfs
      /\ w.pFile = m.pFile
  BY DEF lfs_c2000_fopen, OnVolume, Returned, Volumes, VolumeRecords
<1>4. ~w.stray /\ ~w.broken
  BY DEF lfs_c2000_fopen, OnVolume, Returned, Volumes, VolumeRecords
<1>5. opened => w.pos = 0
  BY OpenAtTheStart
<1>6. CASE m.bFileIsOpen
  <2>1. w = m /\ ~opened
    BY <1>6 DEF lfs_c2000_fopen, Returned
  <2> HIDE DEF w, opened
  <2> QED BY <1>1, <1>3, <1>4, <1>6, <2>1 DEF w, opened
<1>7. CASE ~m.bFileIsOpen
  <2>1. opened <=> ok
    BY <1>7 DEF lfs_c2000_fopen, OnVolume, Returned, Volumes, VolumeRecords
  <2>2. w.bFileIsOpen <=> ok
    BY <1>7 DEF lfs_c2000_fopen, OnVolume, Returned, Volumes, VolumeRecords
  <2>3. w.file = (IF ok THEN "live" ELSE m.file)
    BY <1>7 DEF lfs_c2000_fopen, OnVolume, Returned, Volumes, VolumeRecords
  <2> HIDE DEF w, opened
  <2> QED BY <1>1, <1>3, <1>4, <1>5, <1>7, <2>1, <2>2, <2>3 DEF w, opened
<1> QED BY <1>6, <1>7

(* lfs_c2000_fopen succeeds or fails.                                      *)
LEMMA OpenReturns ==
    ASSUME NEW v, NEW ok \in BOOLEAN
    PROVE  lfs_c2000_fopen(v, ok).ret \in BOOLEAN
BY DEF lfs_c2000_fopen, Returned

(* Mounting and opening in one: it fails on a file of the user.            *)
LEMMA OpenedFacts ==
    ASSUME NEW v \in Volumes, NEW ok \in BOOLEAN, ~v.broken
    PROVE  LET w == Open(v, ok).fs
               opened == Open(v, ok).ret
           IN /\ w \in Volumes /\ ~w.stray /\ ~w.broken
              /\ w.pLfs /\ w.bInit /\ w.bMount /\ w.lfs = "mounted" /\ w.pFile = v.pFile
              /\ opened => ~v.bFileIsOpen /\ w.bFileIsOpen /\ w.file = "live" /\ w.pos = 0
              /\ ~opened => (w.bFileIsOpen <=> v.bFileIsOpen) /\ w.file # "live"
<1> DEFINE m == Mounted(v, TRUE)
<1>1. /\ m \in Volumes /\ m.pLfs /\ m.lfs = "mounted" /\ m.file # "live" /\ m.bInit /\ m.bMount
      /\ m.bFileIsOpen = v.bFileIsOpen /\ m.pFile = v.pFile /\ ~m.stray /\ ~m.broken
  BY MountedFacts
<1> DEFINE w == lfs_c2000_fopen(m, ok).fs
           opened == lfs_c2000_fopen(m, ok).ret
<1>3. /\ w \in Volumes /\ ~w.stray /\ ~w.broken
      /\ w.bInit = m.bInit /\ w.bMount = m.bMount /\ w.lfs = m.lfs
      /\ w.pLfs = m.pLfs /\ w.pFile = m.pFile
      /\ opened => ~m.bFileIsOpen /\ w.bFileIsOpen /\ w.file = "live" /\ w.pos = 0
      /\ ~opened => (w.bFileIsOpen <=> m.bFileIsOpen) /\ w.file # "live"
  <2> HIDE DEF m
  <2>1. w \in Volumes /\ ~w.stray /\ ~w.broken
    BY <1>1, OpenMountedFacts
  <2>2. /\ w.bInit = m.bInit /\ w.bMount = m.bMount /\ w.lfs = m.lfs
        /\ w.pLfs = m.pLfs /\ w.pFile = m.pFile
    BY <1>1 DEF lfs_c2000_fopen, OnVolume, Returned, Volumes, VolumeRecords
  <2>3. opened => ~m.bFileIsOpen /\ w.bFileIsOpen /\ w.file = "live" /\ w.pos = 0
    BY <1>1, OpenMountedFacts
  <2>4. ~opened => (w.bFileIsOpen <=> m.bFileIsOpen) /\ w.file # "live"
    BY <1>1, OpenMountedFacts
  <2> HIDE DEF w, opened
  <2> QED BY <2>1, <2>2, <2>3, <2>4
<1>4. w = Open(v, ok).fs /\ opened = Open(v, ok).ret
  BY DEF Open
<1> HIDE DEF m, w, opened
<1> QED BY <1>1, <1>3, <1>4

(* The same with pFile as Ymodem_Transmit sets it.                         *)
LEMMA KeptFacts ==
    ASSUME NEW v \in Volumes, NEW ok \in BOOLEAN, ~v.broken
    PROVE  LET w == OpenAndKept(v, ok)
               opened == Open(v, ok).ret
           IN /\ w \in Volumes /\ (w.pFile <=> opened) /\ ~w.stray /\ ~w.broken
              /\ w.pLfs /\ w.bInit /\ w.bMount /\ w.lfs = "mounted"
              /\ opened => ~v.bFileIsOpen /\ Owned(w) /\ w.pos = 0
              /\ ~opened => (w.bFileIsOpen <=> v.bFileIsOpen) /\ w.file # "live"
<1> DEFINE u == Open(v, ok).fs
           opened == Open(v, ok).ret
           w == OpenAndKept(v, ok)
<1>0. opened \in BOOLEAN
  BY OpenReturns DEF Open
<1>1. /\ u \in Volumes /\ ~u.stray /\ ~u.broken /\ u.pLfs /\ u.bInit /\ u.bMount
      /\ u.lfs = "mounted"
      /\ opened => ~v.bFileIsOpen /\ u.bFileIsOpen /\ u.file = "live" /\ u.pos = 0
      /\ ~opened => (u.bFileIsOpen <=> v.bFileIsOpen) /\ u.file # "live"
  BY OpenedFacts
<1>2. w = [u EXCEPT !.pFile = opened]
  BY DEF OpenAndKept
<1> HIDE DEF u, w, opened
<1>3. w \in Volumes /\ (w.pFile <=> opened)
  BY <1>0, <1>1, <1>2 DEF Volumes, VolumeRecords
<1>4. /\ w.lfs = u.lfs /\ w.file = u.file /\ w.bInit = u.bInit /\ w.bMount = u.bMount
      /\ w.bFileIsOpen = u.bFileIsOpen /\ w.pLfs = u.pLfs /\ w.broken = u.broken /\ w.pos = u.pos
      /\ w.stray = u.stray
  BY <1>1, <1>2 DEF Volumes, VolumeRecords
<1> QED BY <1>1, <1>3, <1>4 DEF w, opened, Owned

(* Every step of Ymodem_Transmit is one of these.                          *)
LEMMA TransmitFacts ==
    ASSUME Types, T!Next
    PROVE  /\ TxQuiet \/ TxGoesOn \/ TxGivesUp \/ TxEnds \/ TxOpen
           /\ txSize' \in Nat
<1>1. CASE T!Start
  BY <1>1 DEF T!Start, TxQuiet, Unopened, Types
<1>2. CASE T!Poll
  BY <1>2 DEF T!Poll, TxQuiet, Unopened, Types
<1>3. CASE T!PollTimeout
  BY <1>3 DEF T!PollTimeout, T!Return, TxQuiet, TxGivesUp, Unopened, Types
<1>4. CASE T!PollAnswer
  BY <1>4 DEF T!PollAnswer, T!Return, TxQuiet, TxGivesUp, Unopened, Types
<1>5. CASE T!OpenFile
  <2>1. TxOpen /\ (txPc' = "done" => txSize' = txSize)
    BY <1>5, OpenFileFacts
  <2>2. CASE txPc' = "done"
    BY <2>1, <2>2 DEF Types
  <2>3. CASE txPc' # "done"
    <3>1. PICK ok \in BOOLEAN : fs' = OpenAndKept(fs, ok) /\ txSize' = Len(fs'.stored)
      BY <2>1, <2>3 DEF TxOpen
    <3>2. fs'.stored \in Seq(Int)
      <4>1. Mounted(fs, TRUE) \in Volumes
        BY MountedFacts DEF Types
      <4>2. Open(fs, ok).fs \in Volumes
        BY <4>1, OpenFacts DEF Open
      <4>3. fs'.stored = Open(fs, ok).fs.stored
        BY <3>1, <4>2 DEF OpenAndKept, Volumes, VolumeRecords
      <4> QED BY <4>2, <4>3 DEF Volumes, VolumeRecords
    <3> QED BY <2>1, <3>1, <3>2
  <2> QED BY <2>2, <2>3
<1>6. CASE T!Ymodem_PreparePacket
  <2>1. (IF txSize < PACKET_1K_SIZE THEN txSize ELSE PACKET_1K_SIZE) \in Nat
    BY PacketAssumption DEF Types
  <2> QED BY <1>6, <2>1, SameRead DEF T!Ymodem_PreparePacket, TxGoesOn, Opened, Types
<1>7. CASE T!Send_Packet
  BY <1>7, AwaitedFacts DEF T!Send_Packet, TxGoesOn, Opened, Types
<1>8. CASE T!Answered
  BY <1>8, ActFacts DEF T!Answered
<1>9. CASE T!Unanswered
  <2>1. CASE waited + 1 < Tries
    BY <1>9, <2>1, AwaitedFacts DEF T!Unanswered, TxGoesOn, Opened, Types
  <2>2. CASE ~(waited + 1 < Tries)
    BY <1>9, <2>2, ActFacts DEF T!Unanswered
  <2> QED BY <2>1, <2>2
<1> QED BY <1>1, <1>2, <1>3, <1>4, <1>5, <1>6, <1>7, <1>8, <1>9 DEF T!Next
------------------------------------------------------------------------------
(* What the receiver takes from the line, and what that leaves on it.      *)
LEMMA TakeFacts ==
    ASSUME Types, Heard, role = "receive", R!Take
    PROVE  RxQuiet /\ Heard'
<1>1. toRx \in Seq(Utterances) /\ toRx # <<>> /\ (toRx[1].ch = CA => Len(toRx) > 1)
  BY DEF Heard, R!Take, R!Complete, CA, R!CA
<1>2. toRx[1] \in Utterances /\ Tail(toRx) \in Seq(Utterances)
  BY <1>1
<1>3. R!NoPacket \in Utterances /\ ~R!IsPacket(R!NoPacket) /\ R!Control(JUNK) = Control(JUNK)
  BY DEF Utterances, Control, JUNK, R!NoPacket, R!Control, R!JUNK, R!IsPacket, R!SOH, R!STX
<1>4. RxQuiet
  BY DEF R!Take, R!counters, RxQuiet, Receiving
<1>5. toRx' \in Seq(Utterances)
  <2>1. toRx' = R!Taken
    BY DEF R!Take
  <2>2. CASE toRx[1].ch # CA
    BY <1>2, <2>1, <2>2 DEF R!Taken, CA, R!CA
  <2>3. CASE toRx[1].ch = CA
    <3>1. Tail(Tail(toRx)) \in Seq(Utterances)
      <4>1. Len(toRx) > 1 /\ Len(Tail(toRx)) = Len(toRx) - 1
        BY <1>1, <2>3
      <4>2. Tail(toRx) # <<>>
        BY <1>2, <4>1
      <4> QED BY <1>2, <4>2
    <3>2. Control(JUNK) \in Utterances
      BY DEF Utterances
    <3>3. <<Control(JUNK)>> \o Tail(Tail(toRx)) \in Seq(Utterances)
      BY <3>1, <3>2
    <3>4. toRx' \in {<<Control(JUNK)>> \o Tail(Tail(toRx)), Tail(Tail(toRx))}
      <4>1. toRx[1].ch = R!CA /\ R!JUNK = JUNK
        BY <2>3 DEF CA, R!CA, JUNK, R!JUNK
      <4> QED BY <1>3, <2>1, <4>1 DEF R!Taken
    <3> QED BY <3>1, <3>3, <3>4
  <2> QED BY <2>2, <2>3
<1>6. out' = R!Receive_Packet
  BY DEF R!Take
<1>7. \/ \E ret1, length : out' = [ret |-> ret1, length |-> length, packet |-> R!NoPacket]
      \/ out' = [ret |-> 0, length |-> Len(toRx[1].data), packet |-> toRx[1]]
      \/ out' = [ret |-> 0, length |-> -2, packet |-> toRx[1]] /\ ~toRx[1].sound
  <2>1. CASE R!IsPacket(toRx[1])
    <3>1. R!Receive_Packet = IF toRx[1].sound THEN R!Outcome(0, Len(toRx[1].data), toRx[1])
                             ELSE R!Outcome(0, -2, toRx[1])
      BY <2>1 DEF R!Receive_Packet, R!IsPacket, R!SOH, R!STX, R!EOT, R!CA, R!ABORT1
    <3>2. CASE toRx[1].sound
      BY <1>6, <3>1, <3>2 DEF R!Outcome
    <3>3. CASE ~toRx[1].sound
      BY <1>6, <3>1, <3>3 DEF R!Outcome
    <3> QED BY <3>2, <3>3
  <2>2. CASE ~R!IsPacket(toRx[1])
    <3> DEFINE answer(ret1, length) == [ret |-> ret1, length |-> length, packet |-> R!NoPacket]
    <3>1. out' \in {answer(0, 0), answer(0, -1), answer(-1, 0), answer(-2, 0)}
      BY <1>6, <2>2 DEF R!Receive_Packet, R!Outcome
    <3> QED BY <3>1
  <2> QED BY <2>1, <2>2
<1>8. out'.packet \in Utterances
  BY <1>2, <1>3, <1>7
<1>9. R!IsNormal(out') => out'.length = Len(out'.packet.data)
  BY <1>3, <1>7 DEF R!IsNormal
<1> QED BY <1>4, <1>5, <1>8, <1>9 DEF Heard

(* Every step of Ymodem_Receive is one of these.                           *)
LEMMA ReceiveFacts ==
    ASSUME Types, Heard, Ymodem_Receive
    PROVE  (RxQuiet \/ RxEnds(fs) \/ RxFilename \/ RxData) /\ Heard'
<1>1. role = "receive" /\ role' = "receive"
  BY DEF Ymodem_Receive
<1>2. toRx \in Seq(Utterances)
  BY <1>1 DEF Heard
<1>3. CASE R!Start
  BY <1>1, <1>3 DEF R!Start, R!counters, RxQuiet, Receiving, Heard
<1>4. CASE R!Take
  BY <1>1, <1>4, TakeFacts
<1>5. CASE R!Timeout
  <2>1. RxQuiet
    BY <1>5 DEF R!Timeout, R!counters, RxQuiet, Receiving
  <2>2. out'.packet \in Utterances /\ ~R!IsNormal(out')
    <3>1. out'.packet = Control(JUNK)
      BY <1>5 DEF R!Timeout, R!Outcome, R!NoPacket, R!Control, R!JUNK, Control, JUNK
    <3>2. Control(JUNK) \in Utterances
      BY DEF Utterances
    <3>3. ~R!IsPacket(Control(JUNK))
      BY DEF R!IsPacket, Control, JUNK, R!SOH, R!STX
    <3> QED BY <3>1, <3>2, <3>3 DEF R!IsNormal
  <2>3. toRx' \in Seq(Utterances)
    BY <1>5 DEF R!Timeout
  <2> QED BY <2>1, <2>2, <2>3 DEF Heard
<1>6. CASE R!uart_consume
  <2>1. RxQuiet /\ out' = out
    BY <1>6 DEF R!uart_consume, R!counters, RxQuiet, Receiving
  <2>2. toRx' \in Seq(Utterances)
    <3>1. toRx' = <<>> \/ toRx' = toRx
      BY <1>6 DEF R!uart_consume
    <3>2. <<>> \in Seq(Utterances)
      OBVIOUS
    <3> QED BY <1>2, <3>1, <3>2
  <2> QED BY <2>1, <2>2 DEF Heard
<1>7. CASE R!Handle
  <2>1. /\ RxQuiet \/ RxEnds(fs) \/ RxFilename \/ RxData
        /\ out' = out /\ toRx' = toRx
    BY <1>7, HandleFacts
  <2> QED BY <1>1, <1>2, <2>1 DEF Heard
<1>8. R!Next
  BY DEF Ymodem_Receive
<1> QED BY <1>3, <1>4, <1>5, <1>6, <1>7, <1>8 DEF R!Next
------------------------------------------------------------------------------
(* The steps of the user.                                                  *)
Truthful(v) ==
    /\ v.broken => v.stray
    /\ v.bFileIsOpen <=> v.file = "live"
    /\ v.bMount <=> v.lfs = "mounted"

(* A command turns v into w, given by a user who is careful or is not.     *)
Commanded(v, w, careful) ==
    /\ w \in Volumes /\ w.pFile = v.pFile /\ w.pLfs = v.pLfs
    /\ Alive(w)
    /\ Truthful(v) /\ careful => Truthful(w)
    /\ v.file = "live" /\ ~v.stray => ~w.broken

(* What each command of the user keeps: format,                            *)
LEMMA FormatFacts ==
    ASSUME NEW v \in Volumes, NEW ok \in BOOLEAN, ~v.broken
    PROVE  Commanded(v, lfs_c2000_format(v, ok).fs, ~v.bMount /\ ~v.bFileIsOpen)
<1> DEFINE i == lfs_c2000_init(v)
           u == Restarted(i, "off")
           w == lfs_c2000_format(v, ok).fs
<1>1. i \in Volumes /\ i = [v EXCEPT !.bInit = TRUE]
  BY DEF Volumes, VolumeRecords, lfs_c2000_init
<1>2. i.bMount = v.bMount /\ i.bFileIsOpen = v.bFileIsOpen /\ i.pLfs = v.pLfs
      /\ i.pFile = v.pFile /\ i.broken = v.broken
  BY <1>1 DEF Volumes, VolumeRecords
<1>3. /\ u \in Volumes /\ u.lfs = "off" /\ u.file # "live" /\ ~u.stray /\ u.bMount = v.bMount
      /\ u.bFileIsOpen = v.bFileIsOpen /\ u.pLfs = v.pLfs /\ u.pFile = v.pFile
      /\ u.broken = v.broken
  <2> HIDE DEF i
  <2> QED BY <1>1, <1>2, RestartedFacts
<1>4. w = IF ok THEN [u EXCEPT !.exists = FALSE, !.stored = <<>>] ELSE u
  BY DEF lfs_c2000_format, Returned
<1> HIDE DEF u, w
<1>5. w \in Volumes
  BY <1>3, <1>4, EmptyFacts DEF Volumes, VolumeRecords
<1>6. /\ w.lfs = u.lfs /\ w.file = u.file /\ w.bMount = u.bMount
      /\ w.bFileIsOpen = u.bFileIsOpen /\ w.pLfs = u.pLfs /\ w.pFile = u.pFile
      /\ w.broken = u.broken
  BY <1>3, <1>4 DEF Volumes, VolumeRecords
<1> QED BY <1>3, <1>5, <1>6 DEF Commanded, Alive, Truthful, w

(* mount,                                                                  *)
LEMMA MountCommandFacts ==
    ASSUME NEW v \in Volumes, NEW ok \in BOOLEAN, ~v.broken
    PROVE  Commanded(v, lfs_c2000_mount(v, ok).fs, ~v.bMount /\ ~v.bFileIsOpen)
<1> DEFINE w == lfs_c2000_mount(v, ok).fs
<1>1. /\ w \in Volumes
      /\ w.lfs = (IF ok THEN "mounted" ELSE "off") /\ w.file # "live" /\ ~w.stray
      /\ (w.bMount <=> (v.bMount \/ ok)) /\ w.bFileIsOpen = v.bFileIsOpen
      /\ w.pLfs = v.pLfs /\ w.pFile = v.pFile /\ w.broken = v.broken
  BY MountFacts
<1> HIDE DEF w
<1> QED BY <1>1 DEF Commanded, Alive, Truthful, w

(* umount,                                                                 *)
LEMMA UmountCommandFacts ==
    ASSUME NEW v \in Volumes, ~v.broken, Alive(v)
    PROVE  Commanded(v, lfs_c2000_umount(v), ~v.bFileIsOpen)
<1> DEFINE w == lfs_c2000_umount(v)
<1>1. /\ w \in Volumes
      /\ IF v.bInit /\ v.bMount
         THEN ~w.bMount /\ w.lfs = "off" /\ w.file # "live" /\ ~w.stray
         ELSE w = v
      /\ w.bFileIsOpen = v.bFileIsOpen /\ w.pLfs = v.pLfs /\ w.pFile = v.pFile
      /\ w.broken = v.broken
  BY UmountFacts
<1> HIDE DEF w
<1> QED BY <1>1 DEF Commanded, Alive, Truthful, w

(* A command that asks something of the volume, and one of the file.       *)
LEMMA VolumeAskedFacts ==
    ASSUME NEW v \in Volumes, NEW w \in Volumes,
           ~v.broken, Alive(v), v.bMount,
           FlagsStay(v, w), w.broken <=> (v.broken \/ v.lfs # "mounted" \/ v.stray)
    PROVE  Commanded(v, w, TRUE)
BY DEF Commanded, Alive, Truthful, FlagsStay

LEMMA FileAskedFacts ==
    ASSUME NEW v \in Volumes, NEW w \in Volumes,
           ~v.broken, Alive(v), v.bMount, v.bFileIsOpen,
           FlagsStay(v, w), w.broken <=> (v.broken \/ v.lfs # "mounted" \/ v.stray \/ v.file # "live")
    PROVE  Commanded(v, w, TRUE)
BY DEF Commanded, Alive, Truthful, FlagsStay

(* A command that is refused.                                              *)
LEMMA SameCommanded ==
    ASSUME NEW v \in Volumes, ~v.broken, Alive(v), NEW careful
    PROVE  Commanded(v, v, careful)
BY DEF Commanded

(* ls, which may leave a directory in the list,                            *)
LEMMA LsFacts ==
    ASSUME NEW v \in Volumes, ~v.broken, Alive(v),
           NEW opened \in BOOLEAN, NEW read \in BOOLEAN, NEW closed \in BOOLEAN
    PROVE  Commanded(v, lfs_c2000_ls(v, opened, read, closed).fs, TRUE)
<1> DEFINE o == OnVolume(v)
           w == [o EXCEPT !.stray = TRUE]
<1>1. o \in Volumes /\ FlagsStay(v, o) /\ (o.broken <=> (v.broken \/ v.lfs # "mounted" \/ v.stray))
  BY OnVolumeFacts
<1>2. /\ v.bMount => lfs_c2000_ls(v, opened, read, closed).fs \in {w, o}
      /\ ~v.bMount => lfs_c2000_ls(v, opened, read, closed).fs = v
  BY DEF lfs_c2000_ls, Returned
<1> HIDE DEF o
<1>3. w \in Volumes
  BY <1>1 DEF Volumes, VolumeRecords
<1>4. /\ w.stray /\ w.broken = o.broken /\ w.bMount = o.bMount /\ w.bFileIsOpen = o.bFileIsOpen
      /\ w.pLfs = o.pLfs /\ w.pFile = o.pFile /\ w.lfs = o.lfs /\ w.file = o.file
  BY <1>1 DEF Volumes, VolumeRecords
<1> HIDE DEF w
<1>5. v.bMount => Commanded(v, w, TRUE)
  BY <1>1, <1>3, <1>4 DEF Commanded, Alive, Truthful, FlagsStay
<1>6. v.bMount => Commanded(v, o, TRUE)
  BY <1>1, VolumeAskedFacts
<1>7. Commanded(v, v, TRUE)
  BY SameCommanded
<1> QED BY <1>2, <1>5, <1>6, <1>7

(* mkdir,                                                                  *)
LEMMA MkdirFacts ==
    ASSUME NEW v \in Volumes, NEW ok \in BOOLEAN, ~v.broken, Alive(v)
    PROVE  Commanded(v, lfs_c2000_mkdir(v, ok).fs, TRUE)
<1>1. ASSUME v.bMount PROVE Commanded(v, OnVolume(v), TRUE)
  <2> DEFINE w == OnVolume(v)
  <2>1. w \in Volumes /\ FlagsStay(v, w) /\ (w.broken <=> (v.broken \/ v.lfs # "mounted" \/ v.stray))
    BY OnVolumeFacts
  <2> HIDE DEF w
  <2>2. Commanded(v, w, TRUE)
    BY <1>1, <2>1, VolumeAskedFacts
  <2> QED BY <2>2 DEF w
<1> QED BY <1>1, SameCommanded DEF lfs_c2000_mkdir, Returned

(* mv and rm,                                                              *)
LEMMA MvFacts ==
    ASSUME NEW v \in Volumes, NEW ok \in BOOLEAN, ~v.broken, Alive(v)
    PROVE  Commanded(v, lfs_c2000_mv(v, ok).fs, TRUE)
<1> DEFINE o == OnVolume(v)
           w == [o EXCEPT !.exists = FALSE, !.stored = <<>>]
<1>1. o \in Volumes /\ FlagsStay(v, o) /\ (o.broken <=> (v.broken \/ v.lfs # "mounted" \/ v.stray))
  BY OnVolumeFacts
<1>2. /\ v.bMount => lfs_c2000_mv(v, ok).fs \in {w, o}
      /\ ~v.bMount => lfs_c2000_mv(v, ok).fs = v
  <2>1. CASE v.bMount /\ ok /\ v.exists
    BY <2>1 DEF lfs_c2000_mv, Returned
  <2>2. CASE v.bMount /\ ~(ok /\ v.exists)
    BY <2>2 DEF lfs_c2000_mv, Returned
  <2>3. CASE ~v.bMount
    BY <2>3 DEF lfs_c2000_mv, Returned
  <2> QED BY <2>1, <2>2, <2>3
<1> HIDE DEF o
<1>3. w \in Volumes
  BY <1>1, EmptyFacts DEF Volumes, VolumeRecords
<1>4. FlagsStay(o, w) /\ w.broken = o.broken
  BY <1>1 DEF FlagsStay, Volumes, VolumeRecords
<1> HIDE DEF w
<1>5. FlagsStay(v, w) /\ (w.broken <=> (v.broken \/ v.lfs # "mounted" \/ v.stray))
  BY <1>1, <1>4 DEF FlagsStay
<1>6. v.bMount => Commanded(v, w, TRUE) /\ Commanded(v, o, TRUE)
  BY <1>1, <1>3, <1>5, VolumeAskedFacts
<1>7. Commanded(v, v, TRUE)
  BY SameCommanded
<1> QED BY <1>2, <1>6, <1>7

(* fopen,                                                                  *)
LEMMA FopenFacts ==
    ASSUME NEW v \in Volumes, NEW ok \in BOOLEAN, ~v.broken, Alive(v)
    PROVE  Commanded(v, lfs_c2000_fopen(v, ok).fs, TRUE)
<1> DEFINE w == lfs_c2000_fopen(v, ok).fs
<1>1. w \in Volumes
  BY OpenFacts
<1>2. w.bMount = v.bMount /\ w.lfs = v.lfs /\ w.pLfs = v.pLfs /\ w.pFile = v.pFile
  BY OpenFacts
<1>3. CASE ~v.bMount \/ v.bFileIsOpen
  <2>1. w = v
    BY <1>3, OpenFacts
  <2> QED BY <2>1, SameCommanded
<1>4. CASE v.bMount /\ ~v.bFileIsOpen
  <2>1. w.bFileIsOpen <=> ok
    BY <1>4, OpenFacts
  <2>2. w.file = (IF ok THEN "live" ELSE v.file)
    BY <1>4, OpenFacts
  <2>3. v.file # "live"
    BY <1>4 DEF Alive
  <2>4. (w.broken <=> (v.lfs # "mounted" \/ v.stray)) /\ w.stray = v.stray
    <3>1. w.broken <=> (v.lfs # "mounted" \/ v.stray)
      BY <1>4, <2>3, OpenFacts
    <3>2. w.stray = v.stray
      BY OpenFacts
    <3> QED BY <3>1, <3>2
  <2> HIDE DEF w
  <2>5. Commanded(v, w, TRUE)
    BY <1>1, <1>2, <1>4, <2>1, <2>2, <2>3, <2>4 DEF Commanded, Alive, Truthful
  <2> QED BY <2>5 DEF w
<1> QED BY <1>3, <1>4

(* fwrite,                                                                 *)
LEMMA FwriteFacts ==
    ASSUME NEW v \in Volumes, NEW ok \in BOOLEAN, ~v.broken, Alive(v)
    PROVE  Commanded(v, lfs_c2000_fwrite(v, <<1>>, ok).fs, TRUE)
<1> DEFINE w == lfs_c2000_fwrite(v, <<1>>, ok).fs
<1>1. <<1>> \in Seq(Int)
  OBVIOUS
<1>2. w \in Volumes /\ FlagsStay(v, w)
  BY <1>1, WriteFacts
<1>3. CASE ~v.bMount \/ ~v.bFileIsOpen
  <2>1. w = v
    BY <1>1, <1>3, WriteFacts
  <2> QED BY <2>1, SameCommanded
<1>4. CASE v.bMount /\ v.bFileIsOpen
  <2>1. w.broken <=> (v.broken \/ v.lfs # "mounted" \/ v.stray \/ v.file # "live")
    BY <1>1, <1>4, WriteFacts
  <2> HIDE DEF w
  <2>2. Commanded(v, w, TRUE)
    BY <1>2, <1>4, <2>1, FileAskedFacts
  <2> QED BY <2>2 DEF w
<1> QED BY <1>3, <1>4

(* fread,                                                                  *)
LEMMA FreadFacts ==
    ASSUME NEW v \in Volumes, NEW ok \in BOOLEAN, ~v.broken, Alive(v)
    PROVE  Commanded(v, lfs_c2000_fread(v, 2, ok).fs, TRUE)
<1>1. CASE ~v.bMount \/ ~v.bFileIsOpen
  BY <1>1, SameCommanded DEF lfs_c2000_fread, Returned
<1>2. CASE v.bMount /\ v.bFileIsOpen
  <2>1. Commanded(v, OnFile(v), TRUE)
    <3> DEFINE w == OnFile(v)
    <3>1. /\ w \in Volumes /\ FlagsStay(v, w)
          /\ (w.broken <=> (v.broken \/ v.lfs # "mounted" \/ v.stray \/ v.file # "live"))
      BY OnFileFacts
    <3> HIDE DEF w
    <3>2. Commanded(v, w, TRUE)
      BY <1>2, <3>1, FileAskedFacts
    <3> QED BY <3>2 DEF w
  <2>2. Commanded(v, lfs_file_read(v, 2).fs, TRUE)
    <3> DEFINE w == lfs_file_read(v, 2).fs
    <3>1. /\ w \in Volumes /\ FlagsStay(v, w)
          /\ (w.broken <=> (v.broken \/ v.lfs # "mounted" \/ v.stray \/ v.file # "live"))
      BY ReadFacts
    <3> HIDE DEF w
    <3>2. Commanded(v, w, TRUE)
      BY <1>2, <3>1, FileAskedFacts
    <3> QED BY <3>2 DEF w
  <2> QED BY <1>2, <2>1, <2>2 DEF lfs_c2000_fread, Returned
<1> QED BY <1>1, <1>2

(* and fclose.                                                             *)
LEMMA FcloseFacts ==
    ASSUME NEW v \in Volumes, NEW ok \in BOOLEAN, ~v.broken, Alive(v)
    PROVE  Commanded(v, lfs_c2000_fclose(v, ok), TRUE)
<1> DEFINE w == lfs_c2000_fclose(v, ok)
<1>1. /\ w \in Volumes
      /\ IF ~v.bMount \/ ~v.bFileIsOpen
         THEN w = v
         ELSE /\ ~w.bFileIsOpen /\ w.file = "none"
              /\ (w.broken <=> (v.broken \/ v.lfs # "mounted" \/ v.stray \/ v.file # "live"))
      /\ w.bMount = v.bMount /\ w.lfs = v.lfs /\ w.pLfs = v.pLfs /\ w.pFile = v.pFile
      /\ w.stray = v.stray
  BY CloseFacts
<1> HIDE DEF w
<1>2. Commanded(v, w, TRUE)
  BY <1>1 DEF Commanded, Alive, Truthful
<1> QED BY <1>2 DEF w

(* The user gives a command: it does that to the volume and nothing else.  *)
LEMMA UserFacts ==
    ASSUME Types, Alive(fs), User
    PROVE  /\ role = "user" /\ ~fs.broken
           /\ UNCHANGED <<role, line, rxLocals, txLocals, refused, before>>
           /\ Commanded(fs, fs', ~careless')
           /\ careless' \in BOOLEAN /\ (careless => careless')
<1> DEFINE Goal == Commanded(fs, fs', ~careless') /\ careless' \in BOOLEAN /\ (careless => careless')
<1>1. \E w : Command(w)
  BY DEF User, FuncLfsFormat, FuncLfsMount, FuncLfsUmount, FuncLfsLs, FuncLfsMkdir, FuncLfsMv,
         FuncLfsRm, FuncLfsFopen, FuncLfsWrite, FuncLfsRead, FuncLfsFclose
<1>2. role = "user" /\ ~fs.broken /\ UNCHANGED <<role, line, rxLocals, txLocals, refused, before>>
  BY <1>1 DEF Command
<1>3. fs \in Volumes /\ careless \in BOOLEAN
  BY DEF Types
<1>4. ASSUME Commanded(fs, fs', TRUE), UNCHANGED careless
      PROVE  Goal
  BY <1>3, <1>4 DEF Commanded
<1> HIDE DEF Goal
<1>5. ASSUME FuncLfsFormat PROVE Goal
  <2>1. PICK ok \in BOOLEAN : fs' = lfs_c2000_format(fs, ok).fs
    BY <1>5 DEF FuncLfsFormat, Command
  <2>2. Commanded(fs, fs', ~fs.bMount /\ ~fs.bFileIsOpen)
    BY <1>2, <1>3, <2>1, FormatFacts
  <2>3. careless' = (careless \/ ~(~fs.bMount /\ ~fs.bFileIsOpen))
    BY <1>5 DEF FuncLfsFormat, CarefulIf
  <2> QED BY <1>3, <2>2, <2>3 DEF Goal, Commanded
<1>6. ASSUME FuncLfsMount PROVE Goal
  <2>1. PICK ok \in BOOLEAN : fs' = lfs_c2000_mount(fs, ok).fs
    BY <1>6 DEF FuncLfsMount, Command
  <2>2. Commanded(fs, fs', ~fs.bMount /\ ~fs.bFileIsOpen)
    BY <1>2, <1>3, <2>1, MountCommandFacts
  <2>3. careless' = (careless \/ ~(~fs.bMount /\ ~fs.bFileIsOpen))
    BY <1>6 DEF FuncLfsMount, CarefulIf
  <2> QED BY <1>3, <2>2, <2>3 DEF Goal, Commanded
<1>7. ASSUME FuncLfsUmount PROVE Goal
  <2>1. fs' = lfs_c2000_umount(fs)
    BY <1>7 DEF FuncLfsUmount, Command
  <2>2. Commanded(fs, fs', ~fs.bFileIsOpen)
    BY <1>2, <1>3, <2>1, UmountCommandFacts
  <2>3. careless' = (careless \/ ~(~fs.bFileIsOpen))
    BY <1>7 DEF FuncLfsUmount, CarefulIf
  <2> QED BY <1>3, <2>2, <2>3 DEF Goal, Commanded
<1>8. ASSUME FuncLfsLs PROVE Goal
  <2>1. PICK opened, read, closed \in BOOLEAN : fs' = lfs_c2000_ls(fs, opened, read, closed).fs
    BY <1>8 DEF FuncLfsLs, Command
  <2>2. Commanded(fs, fs', TRUE)
    BY <1>2, <1>3, <2>1, LsFacts
  <2> QED BY <1>4, <1>8, <2>2 DEF FuncLfsLs, Careful
<1>9. ASSUME FuncLfsMkdir PROVE Goal
  <2>1. PICK ok \in BOOLEAN : fs' = lfs_c2000_mkdir(fs, ok).fs
    BY <1>9 DEF FuncLfsMkdir, Command
  <2>2. Commanded(fs, fs', TRUE)
    BY <1>2, <1>3, <2>1, MkdirFacts
  <2> QED BY <1>4, <1>9, <2>2 DEF FuncLfsMkdir, Careful
<1>10. ASSUME FuncLfsMv PROVE Goal
  <2>1. PICK ok \in BOOLEAN : fs' = lfs_c2000_mv(fs, ok).fs
    BY <1>10 DEF FuncLfsMv, Command
  <2>2. Commanded(fs, fs', TRUE)
    BY <1>2, <1>3, <2>1, MvFacts
  <2> QED BY <1>4, <1>10, <2>2 DEF FuncLfsMv, Careful
<1>11. ASSUME FuncLfsRm PROVE Goal
  <2>1. PICK ok \in BOOLEAN : fs' = lfs_c2000_rm(fs, ok).fs
    BY <1>11 DEF FuncLfsRm, Command
  <2>2. Commanded(fs, fs', TRUE)
    BY <1>2, <1>3, <2>1, MvFacts DEF lfs_c2000_rm
  <2> QED BY <1>4, <1>11, <2>2 DEF FuncLfsRm, Careful
<1>12. ASSUME FuncLfsFopen PROVE Goal
  <2>1. PICK ok \in BOOLEAN : fs' = lfs_c2000_fopen(fs, ok).fs
    BY <1>12 DEF FuncLfsFopen, Command
  <2>2. Commanded(fs, fs', TRUE)
    BY <1>2, <1>3, <2>1, FopenFacts
  <2> QED BY <1>4, <1>12, <2>2 DEF FuncLfsFopen, Careful
<1>13. ASSUME FuncLfsWrite PROVE Goal
  <2>1. PICK ok \in BOOLEAN : fs' = lfs_c2000_fwrite(fs, <<1>>, ok).fs
    BY <1>13 DEF FuncLfsWrite, Command
  <2>2. Commanded(fs, fs', TRUE)
    BY <1>2, <1>3, <2>1, FwriteFacts
  <2> QED BY <1>4, <1>13, <2>2 DEF FuncLfsWrite, Careful
<1>14. ASSUME FuncLfsRead PROVE Goal
  <2>1. PICK ok \in BOOLEAN : fs' = lfs_c2000_fread(fs, 2, ok).fs
    BY <1>14 DEF FuncLfsRead, Command
  <2>2. Commanded(fs, fs', TRUE)
    BY <1>2, <1>3, <2>1, FreadFacts
  <2> QED BY <1>4, <1>14, <2>2 DEF FuncLfsRead, Careful
<1>15. ASSUME FuncLfsFclose PROVE Goal
  <2>1. PICK ok \in BOOLEAN : fs' = lfs_c2000_fclose(fs, ok)
    BY <1>15 DEF FuncLfsFclose, Command
  <2>2. Commanded(fs, fs', TRUE)
    BY <1>2, <1>3, <2>1, FcloseFacts
  <2> QED BY <1>4, <1>15, <2>2 DEF FuncLfsFclose, Careful
<1>16. Goal
  BY <1>5, <1>6, <1>7, <1>8, <1>9, <1>10, <1>11, <1>12, <1>13, <1>14, <1>15 DEF User
<1> QED BY <1>2, <1>16 DEF Goal

(* The commands of the user keep the invariant, and an open file keeps     *)
(* them from breaking littlefs.                                            *)
LEMMA UserKeeps ==
    ASSUME IInv, User
    PROVE  IInv' /\ (fs.file = "live" /\ ~fs.stray => ~fs'.broken)
<1>1. Types /\ Alive(fs)
  BY DEF IInv, Living
<1>2. /\ role = "user" /\ ~fs.broken
      /\ UNCHANGED <<role, line, rxLocals, txLocals, refused, before>>
      /\ Commanded(fs, fs', ~careless')
      /\ careless' \in BOOLEAN /\ (careless => careless')
  BY <1>1, UserFacts
<1>3. fs' \in Volumes /\ fs'.pFile = fs.pFile /\ fs'.pLfs = fs.pLfs /\ Alive(fs')
      /\ (fs.file = "live" /\ ~fs.stray => ~fs'.broken)
  BY <1>2 DEF Commanded
<1>4. ~fs.pFile
  BY <1>2 DEF IInv, Owning
<1>5. Types'
  BY <1>1, <1>2, <1>3 DEF Types, rxLocals, txLocals
<1>6. Heard'
  BY <1>2 DEF IInv, Heard, rxLocals, line
<1>7. Roles'
  BY <1>2 DEF IInv, Roles, rxLocals, txLocals
<1>8. Owning'
  BY <1>2, <1>3, <1>4 DEF IInv, Owning, txLocals
<1>9. Unannounced'
  BY <1>2 DEF IInv, Unannounced, rxLocals
<1>10. Leftover'
  BY <1>2, <1>3 DEF IInv, Leftover
<1>11. FlagsTellTheTruth'
  <2>1. ~careless' => Truthful(fs)
    BY <1>1, <1>2 DEF IInv, FlagsTellTheTruth, Truthful, Types
  <2>2. ~careless' => Truthful(fs')
    BY <1>2, <2>1 DEF Commanded
  <2> QED BY <2>2 DEF FlagsTellTheTruth, Truthful
<1>12. Keeping' /\ Living' /\ Careful_user' /\ Stored'
  BY <1>2, <1>3 DEF Keeping, Living, Alive, Careful_user, Stored
<1> QED BY <1>3, <1>5, <1>6, <1>7, <1>8, <1>9, <1>10, <1>11, <1>12 DEF IInv

------------------------------------------------------------------------------
(* A transfer begins and the command returns.                              *)
LEMMA BeginKeeps ==
    ASSUME IInv, FuncYmodemRx \/ FuncYmodemSend
    PROVE  IInv' /\ ~fs'.broken
<1>1. /\ role = "user" /\ ~fs.broken /\ fs' = fs
      /\ before' = <<fs.bFileIsOpen, fs.bMount>>
      /\ refused' = refused
      /\ CarefulIf(~fs.bMount /\ ~fs.bFileIsOpen)
  BY DEF FuncYmodemRx, FuncYmodemSend, Begin, R!Start, T!Start
<1>2. /\ UNCHANGED <<toRx, out, packets_received, file_len, rxSize, txSize>>
      /\ \/ role' = "receive" /\ rxPc = "off" /\ rxPc' = "packet" /\ txPc' = txPc
         \/ role' = "transmit" /\ txPc = "off" /\ txPc' = "poll" /\ rxPc' = rxPc
  BY DEF FuncYmodemRx, FuncYmodemSend, Begin, R!Start, T!Start, R!counters, rxLocals, txLocals
<1>3. rxPc = "off" /\ txPc = "off" /\ ~fs.pFile
  BY <1>1, <1>2 DEF IInv, Roles, Owning
<1>4. careless' \in BOOLEAN /\ (~careless' => ~careless /\ ~fs.bMount /\ ~fs.bFileIsOpen)
  BY <1>1 DEF CarefulIf, IInv, Types
<1>5. fs \in Volumes /\ fs.bMount \in BOOLEAN /\ fs.bFileIsOpen \in BOOLEAN
  BY DEF IInv, Types, Volumes, VolumeRecords
<1>6. Types'
  <2>1. before' \in BOOLEAN \X BOOLEAN
    BY <1>1, <1>5
  <2> QED BY <1>1, <1>2, <1>3, <1>4, <2>1 DEF IInv, Types, Receiving, Opened, Unopened
<1>7. Heard'
  BY <1>1, <1>2 DEF IInv, Heard, R!IsNormal
<1>8. Roles'
  BY <1>2, <1>3 DEF Roles
<1>9. Owning'
  BY <1>1, <1>2, <1>3 DEF Owning, Opened
<1>10. Keeping'
  BY <1>1, <1>2, <1>3 DEF Keeping
<1>11. Unannounced'
  BY <1>1, <1>2, <1>3 DEF IInv, Unannounced
<1>12. Living'
  BY <1>1 DEF IInv, Living, Alive
<1>13. Careful_user'
  <2>1. ~careless' => before' = <<FALSE, FALSE>>
    BY <1>1, <1>4, <1>5
  <2> QED BY <2>1 DEF Careful_user
<1>14. FlagsTellTheTruth' /\ Leftover' /\ Stored'
  BY <1>1, <1>3, <1>4 DEF IInv, FlagsTellTheTruth, Leftover, Stored
<1> QED BY <1>1, <1>6, <1>7, <1>8, <1>9, <1>10, <1>11, <1>12, <1>13, <1>14 DEF IInv

(* The command returns.                                                    *)
LEMMA OverKeeps ==
    ASSUME IInv, Over
    PROVE  IInv' /\ ~fs'.broken
<1>1. role # "user" /\ ~fs.broken /\ ~fs.pFile
  BY DEF IInv, Over, Roles, Living, Owning, Receiving, Opened
<1>2. /\ role' = "user" /\ toRx' = <<>> /\ rxPc' = "off" /\ txPc' = "off"
      /\ out' = R!Outcome(0, 0, R!NoPacket)
      /\ packets_received' = 0 /\ file_len' = 0 /\ rxSize' = 0 /\ txSize' = 0
      /\ before' = <<FALSE, FALSE>> /\ UNCHANGED <<fs, careless, refused>>
  BY DEF Over
<1>3. Types'
  BY <1>2 DEF IInv, Types, Receiving, Opened, Unopened
<1>4. Heard'
  <2>1. out'.packet = Control(JUNK)
    BY <1>2 DEF R!Outcome, R!NoPacket, R!Control, R!JUNK, Control, JUNK
  <2>2. Control(JUNK) \in Utterances
    BY DEF Utterances
  <2>3. ~R!IsPacket(Control(JUNK))
    BY DEF R!IsPacket, Control, JUNK, R!SOH, R!STX
  <2>4. toRx' \in Seq(Utterances)
    BY <1>2
  <2> QED BY <2>1, <2>2, <2>3, <2>4 DEF Heard, R!IsNormal
<1>5. Roles' /\ Keeping' /\ Unannounced' /\ Careful_user' /\ Stored'
  BY <1>2 DEF Roles, Keeping, Unannounced, Careful_user, Stored
<1>6. Owning'
  BY <1>1, <1>2 DEF Owning, Opened
<1>7. Living' /\ FlagsTellTheTruth' /\ Leftover'
  BY <1>1, <1>2 DEF IInv, Living, Alive, FlagsTellTheTruth, Leftover
<1> QED BY <1>1, <1>2, <1>3, <1>4, <1>5, <1>6, <1>7 DEF IInv

(* The other end says something.                                           *)
LEMMA PeerKeeps ==
    ASSUME IInv, Peer
    PROVE  IInv' /\ ~fs'.broken
<1>1. /\ role # "user" /\ UNCHANGED <<role, fs, rxLocals, txLocals, history>>
      /\ toRx' = toRx \/ \E item \in Utterances : toRx' = Append(toRx, item)
  BY DEF Peer, SenderSays, HostSays
<1>2. ~fs.broken
  BY <1>1 DEF IInv, Living
<1>3. Types'
  BY <1>1 DEF IInv, Types, rxLocals, txLocals, history
<1>4. Heard'
  <2>1. role # "transmit" => toRx' \in Seq(Utterances)
    BY <1>1 DEF IInv, Heard
  <2> QED BY <1>1, <2>1 DEF IInv, Heard, rxLocals
<1>5. Roles' /\ Owning' /\ Keeping' /\ Unannounced'
  BY <1>1 DEF IInv, Roles, Owning, Owned, Keeping, Unannounced, rxLocals, txLocals, history
<1>6. Living' /\ Careful_user' /\ FlagsTellTheTruth' /\ Leftover'
  BY <1>1 DEF IInv, Living, Alive, Careful_user, FlagsTellTheTruth, Leftover, history
<1>7. Stored'
  BY <1>1 DEF IInv, Stored, rxLocals
<1> QED BY <1>1, <1>2, <1>3, <1>4, <1>5, <1>6, <1>7 DEF IInv

------------------------------------------------------------------------------
(* What a transfer may end with: its own file, or no file, no flag of the  *)
(* user's changed and a volume that it unmounts if it has mounted it.      *)
Ready(v) ==
    \/ Owned(v) /\ ~before[1]
    \/ /\ ~v.pFile /\ ~v.broken /\ v.bFileIsOpen = before[1]
       /\ v.bMount => before[2] \/ (v.pLfs /\ v.bInit)
       /\ v.file = "live" => v.bFileIsOpen /\ v.lfs = "mounted"
       /\ ~careless => (v.bMount <=> v.lfs = "mounted")

(* And what it has then given back.                                        *)
Back(w) ==
    /\ w \in Volumes /\ ~w.pFile /\ ~w.broken
    /\ w.bFileIsOpen = before[1]
    /\ w.bMount => before[2]
    /\ Alive(w)
    /\ ~careless => Truthful(w)

(* lfs_cleanup gives back what the transfer is ready to give.              *)
LEMMA EndsFacts ==
    ASSUME NEW v \in Volumes, NEW ok \in BOOLEAN, Ready(v), Types, Careful_user, role # "user"
    PROVE  Back(lfs_cleanup(v, ok)) /\ ~lfs_cleanup(v, ok).pLfs
<1> DEFINE w == lfs_cleanup(v, ok)
<1>1. ~careless => ~before[1] /\ ~before[2]
  <2>1. ~careless => before = <<FALSE, FALSE>>
    BY DEF Careful_user
  <2>2. before = <<FALSE, FALSE>> => before[1] = FALSE /\ before[2] = FALSE
    OBVIOUS
  <2> QED BY <2>1, <2>2
<1>2. before[1] \in BOOLEAN /\ before[2] \in BOOLEAN
  BY DEF Types
<1>3. CASE Owned(v) /\ ~before[1]
  <2>1. /\ w \in Volumes
        /\ ~w.pFile /\ ~w.pLfs /\ ~w.bFileIsOpen /\ ~w.bMount
        /\ w.lfs = "off" /\ w.file # "live" /\ ~w.broken
    BY <1>3, CleanupOwnedFacts
  <2> HIDE DEF w
  <2>2. w.bFileIsOpen = before[1]
    BY <1>2, <1>3, <2>1 DEF Volumes, VolumeRecords
  <2>3. Back(w) /\ ~w.pLfs
    BY <2>1, <2>2 DEF Back, Alive, Truthful
  <2> QED BY <2>3 DEF w
<1>4. CASE ~(Owned(v) /\ ~before[1])
  <2>1. /\ ~v.pFile /\ ~v.broken /\ v.bFileIsOpen = before[1]
        /\ v.bMount => before[2] \/ (v.pLfs /\ v.bInit)
        /\ v.file = "live" => v.bFileIsOpen /\ v.lfs = "mounted"
        /\ ~careless => (v.bMount <=> v.lfs = "mounted")
    BY <1>4 DEF Ready
  <2>2. /\ w \in Volumes /\ ~w.pFile /\ ~w.pLfs
        /\ w.bFileIsOpen = v.bFileIsOpen /\ w.broken = v.broken
        /\ \/ w.bMount = v.bMount /\ w.lfs = v.lfs /\ w.file = v.file
           \/ ~w.bMount /\ w.lfs = "off" /\ w.file # "live"
        /\ v.bInit => ~w.bMount \/ ~v.pLfs
    BY <2>1, CleanupFacts
  <2> HIDE DEF w
  <2>3. w.bMount => before[2]
    BY <2>1, <2>2
  <2>4. ~w.broken /\ w.bFileIsOpen = before[1]
    BY <2>1, <2>2
  <2>5. Alive(w)
    BY <2>1, <2>2 DEF Alive
  <2>6. ~careless => Truthful(w)
    BY <1>1, <2>1, <2>2, <2>3, <2>4 DEF Truthful
  <2>7. Back(w) /\ ~w.pLfs
    BY <2>2, <2>3, <2>4, <2>5, <2>6 DEF Back
  <2> QED BY <2>7 DEF w
<1> QED BY <1>3, <1>4

(* A transfer that has not opened its file is ready to end.                *)
LEMMA ReadyAsItIs ==
    ASSUME IInv, role # "user", ~("done" \in {rxPc, txPc})
    PROVE  Ready(fs) /\ (~fs.pFile => Back(fs))
<1>1. ~fs.broken /\ fs \in Volumes
  BY DEF IInv, Living, Types
<1>2. CASE fs.pFile
  BY <1>2 DEF IInv, Owning, Ready
<1>3. CASE ~fs.pFile
  <2>1. fs.bFileIsOpen = before[1] /\ fs.bMount = before[2]
    BY <1>3 DEF IInv, Keeping
  <2>2. fs.file = "live" => fs.bFileIsOpen /\ fs.lfs = "mounted"
    BY <1>1 DEF IInv, Living, Alive
  <2>3. ~careless => Truthful(fs)
    BY DEF IInv, FlagsTellTheTruth, Truthful
  <2> QED BY <1>1, <1>3, <2>1, <2>2, <2>3 DEF Ready, Back, Alive, Truthful
<1> QED BY <1>2, <1>3

(* A transfer that has ended keeps the invariant.                          *)
LEMMA EndedKeeps ==
    ASSUME IInv, role # "user", role' = role, Back(fs'),
           UNCHANGED <<careless, before>>, refused \in BOOLEAN, refused' \in BOOLEAN,
           fs'.pLfs => refused',
           \/ role = "receive" /\ rxPc' = "done" /\ txPc' = txPc
           \/ role = "transmit" /\ txPc' = "done" /\ rxPc' = rxPc /\ UNCHANGED <<file_len, rxSize>>,
           packets_received' \in Nat, txSize' \in Nat,
           Heard'
    PROVE  IInv' /\ ~fs'.broken
<1>1. Types'
  BY DEF IInv, Types, Back, Unopened
<1>2. Roles'
  BY DEF IInv, Roles
<1>3. ~fs'.pFile /\ ~fs'.broken /\ fs'.bFileIsOpen = before[1] /\ (fs'.bMount => before[2])
  BY DEF Back
<1>4. Owning'
  <2>1. txPc' \in {"off", "done"}
    BY DEF IInv, Roles
  <2> QED BY <1>3, <2>1 DEF Owning, Opened
<1>5. Keeping'
  BY <1>3 DEF Keeping
<1>6. Unannounced'
  BY DEF IInv, Unannounced
<1>7. Living' /\ FlagsTellTheTruth'
  BY <1>3 DEF Living, Back, FlagsTellTheTruth, Truthful
<1>8. Careful_user' /\ Leftover' /\ Stored'
  BY <1>3 DEF IInv, Careful_user, Leftover, Stored
<1> QED BY <1>1, <1>2, <1>3, <1>4, <1>5, <1>6, <1>7, <1>8 DEF IInv

------------------------------------------------------------------------------
(* The steps of Ymodem_Receive.                                            *)
LEMMA RxEndsKeeps ==
    ASSUME IInv, Ymodem_Receive, Heard', NEW v \in Volumes, RxEnds(v), Ready(v)
    PROVE  IInv' /\ ~fs'.broken
<1>1. /\ role = "receive" /\ role' = role /\ UNCHANGED <<txLocals, history>>
      /\ rxPc' = "done" /\ packets_received' = packets_received
  BY DEF Ymodem_Receive, RxEnds
<1>2. PICK ok \in BOOLEAN : fs' = lfs_cleanup(v, ok)
  BY DEF RxEnds
<1>3. Back(fs') /\ ~fs'.pLfs
  BY <1>1, <1>2, EndsFacts DEF IInv
<1>4. /\ UNCHANGED <<careless, before>> /\ refused \in BOOLEAN /\ refused' \in BOOLEAN
      /\ txPc' = txPc /\ packets_received' \in Nat /\ txSize' \in Nat
  BY <1>1 DEF history, txLocals, IInv, Types
<1> QED BY <1>1, <1>3, <1>4, EndedKeeps

(* Nothing happens to the file.                                            *)
LEMMA RxQuietKeeps ==
    ASSUME IInv, Ymodem_Receive, Heard', RxQuiet
    PROVE  IInv' /\ ~fs'.broken
<1>1. /\ role = "receive" /\ role' = "receive"
      /\ UNCHANGED <<txPc, txSize, careless, refused, before, fs, rxSize, file_len>>
      /\ rxPc \in {"off"} \cup Receiving /\ rxPc' \in Receiving
      /\ \/ UNCHANGED packets_received
         \/ packets_received = 0 /\ packets_received' = 1
  BY DEF Ymodem_Receive, RxQuiet, txLocals, history
<1>2. ~fs.broken
  BY <1>1 DEF IInv, Living
<1>3. fs.pFile => packets_received > 0 /\ UNCHANGED packets_received
  BY <1>1 DEF IInv, Owning
<1>4. Types'
  BY <1>1 DEF IInv, Types
<1>5. Roles' /\ Unannounced'
  BY <1>1 DEF IInv, Roles, Unannounced, Receiving
<1>6. Owning'
  BY <1>1, <1>3 DEF IInv, Owning, Owned
<1>7. Keeping'
  BY <1>1 DEF IInv, Keeping, Receiving, Roles
<1>8. Living' /\ Careful_user' /\ FlagsTellTheTruth' /\ Leftover'
  BY <1>1 DEF IInv, Living, Alive, Careful_user, FlagsTellTheTruth, Leftover
<1>9. Stored'
  BY <1>1, <1>3 DEF IInv, Stored
<1> QED BY <1>1, <1>2, <1>4, <1>5, <1>6, <1>7, <1>8, <1>9 DEF IInv

(* The file has been opened.                                               *)
LEMMA RxFilenameKeeps ==
    ASSUME IInv, Ymodem_Receive, Heard', RxFilename, rxPc = "handle"
    PROVE  IInv' /\ ~fs'.broken
<1>1. /\ role = "receive" /\ role' = "receive" /\ packets_received = 0
      /\ UNCHANGED <<txPc, txSize, careless, refused, before>>
  BY DEF Ymodem_Receive, RxFilename, txLocals, history
<1>2. ~fs.pFile /\ ~fs.broken /\ fs \in Volumes /\ txPc = "off"
  BY <1>1 DEF IInv, Owning, Living, Types, Roles
<1>3. fs.bFileIsOpen = before[1] /\ fs.bMount = before[2]
  BY <1>1, <1>2 DEF IInv, Keeping
<1>4. ~careless => ~before[1] /\ ~before[2]
  <2>1. ~careless => before = <<FALSE, FALSE>>
    BY <1>1 DEF IInv, Careful_user
  <2>2. before = <<FALSE, FALSE>> => before[1] = FALSE /\ before[2] = FALSE
    OBVIOUS
  <2> QED BY <2>1, <2>2
<1>5. CASE RxEnds(Mounted(fs, FALSE))
  <2> DEFINE m == Mounted(fs, FALSE)
  <2>1. /\ m \in Volumes /\ m.lfs = "off" /\ m.file # "live" /\ (m.bMount <=> fs.bMount)
        /\ m.bFileIsOpen = fs.bFileIsOpen /\ m.pFile = fs.pFile /\ m.broken = fs.broken
    BY <1>2, MountedFacts
  <2> HIDE DEF m
  <2>2. Ready(m)
    BY <1>2, <1>3, <1>4, <2>1 DEF Ready
  <2>3. RxEnds(m)
    BY <1>5 DEF m
  <2> QED BY <2>1, <2>2, <2>3, RxEndsKeeps
<1>6. ASSUME NEW ok \in BOOLEAN, ~Open(fs, ok).ret, RxEnds(Open(fs, ok).fs)
      PROVE  IInv' /\ ~fs'.broken
  <2> DEFINE w == Open(fs, ok).fs
  <2>1. /\ w \in Volumes /\ ~w.broken /\ w.pLfs /\ w.bInit /\ w.bMount /\ w.lfs = "mounted"
        /\ w.pFile = fs.pFile /\ (w.bFileIsOpen <=> fs.bFileIsOpen) /\ w.file # "live"
    BY <1>2, <1>6, OpenedFacts
  <2>2. RxEnds(w)
    BY <1>6
  <2> HIDE DEF w
  <2>3. w.bFileIsOpen = before[1]
    BY <1>2, <1>3, <2>1 DEF Volumes, VolumeRecords
  <2>4. Ready(w)
    BY <1>2, <2>1, <2>3 DEF Ready
  <2> QED BY <2>1, <2>2, <2>4, RxEndsKeeps
<1>7. ASSUME NEW ok \in BOOLEAN, Open(fs, ok).ret, rxPc' = "packet",
             fs' = [Open(fs, ok).fs EXCEPT !.pFile = TRUE],
             rxSize' \in 1..MaxSize, file_len' = 0, packets_received' = 1
      PROVE  IInv' /\ ~fs'.broken
  <2> DEFINE w == Open(fs, ok).fs
  <2>1. /\ w \in Volumes /\ ~w.stray /\ ~w.broken /\ w.pLfs /\ w.bInit /\ w.bMount /\ w.lfs = "mounted"
        /\ ~fs.bFileIsOpen /\ w.bFileIsOpen /\ w.file = "live" /\ w.pos = 0
    BY <1>2, <1>7, OpenedFacts
  <2>2. fs' = [w EXCEPT !.pFile = TRUE]
    BY <1>7
  <2> HIDE DEF w
  <2>3. fs' \in Volumes /\ Owned(fs') /\ fs'.pos = 0
    BY <2>1, <2>2 DEF Volumes, VolumeRecords, Owned
  <2>4. ~before[1]
    BY <1>3, <2>1
  <2>5. Types'
    BY <1>1, <1>7, <2>3 DEF IInv, Types, Receiving
  <2>6. Roles' /\ Owning' /\ Keeping' /\ Unannounced'
    BY <1>1, <1>2, <1>7, <2>3, <2>4 DEF Roles, Owning, Keeping, Unannounced, Owned, Receiving, Opened
  <2>7. Living' /\ Careful_user' /\ FlagsTellTheTruth' /\ Leftover'
    BY <1>1, <2>3 DEF IInv, Living, Alive, Careful_user, FlagsTellTheTruth, Leftover, Owned
  <2>8. Stored'
    <3>1. (packets_received' - 1) * PACKET_1K_SIZE = 0
      BY <1>7, PacketAssumption
    <3> QED BY <1>7, <2>3, <3>1, ReceiveAssumption DEF Stored
  <2> QED BY <2>3, <2>5, <2>6, <2>7, <2>8 DEF IInv, Owned
<1> QED BY <1>5, <1>6, <1>7 DEF RxFilename

(* The numbers of a file's packets do not wrap, so that a good packet with *)
(* the expected number is the data packet of that number.                  *)
LEMMA ProductFacts ==
    ASSUME NEW n \in Nat
    PROVE  /\ n * PACKET_1K_SIZE = (n - 1) * PACKET_1K_SIZE + PACKET_1K_SIZE
           /\ n * PACKET_1K_SIZE < 255 * PACKET_1K_SIZE => n < 255
<1>1. PACKET_1K_SIZE \in Nat /\ PACKET_1K_SIZE > 0
  BY PacketAssumption
<1>2. n * PACKET_1K_SIZE = (n - 1) * PACKET_1K_SIZE + PACKET_1K_SIZE
  BY <1>1
<1>3. ASSUME n >= 255 PROVE n * PACKET_1K_SIZE >= 255 * PACKET_1K_SIZE
  <2>1. PICK d \in Nat : n = 255 + d
    BY <1>3
  <2>2. n * PACKET_1K_SIZE = 255 * PACKET_1K_SIZE + d * PACKET_1K_SIZE
    BY <1>1, <2>1
  <2>3. d * PACKET_1K_SIZE \in Nat
    BY <1>1
  <2> QED BY <1>1, <2>2, <2>3
<1>4. n * PACKET_1K_SIZE \in Nat /\ 255 * PACKET_1K_SIZE \in Nat
  BY <1>1
<1> QED BY <1>2, <1>3, <1>4

(* A good packet with the expected number is the data packet of that       *)
(* number.                                                                 *)
LEMMA ExpectedFacts ==
    ASSUME Heard, packets_received \in Nat, packets_received > 0, packets_received < 256,
           R!IsNormal(out), R!Expected
    PROVE  out.packet.data = UnitsOf(packets_received) /\ out.length = PACKET_1K_SIZE
<1>1. out.packet.seq = packets_received
  BY DEF R!Expected
<1>2. out.packet \in Utterances /\ out.packet.ch \in {SOH, STX} /\ out.packet.sound
  BY DEF Heard, R!IsNormal, R!IsPacket, SOH, STX, R!SOH, R!STX
<1>3. out.packet.ch = STX
  BY <1>1, <1>2, UtteranceFacts
<1>4. out.packet.data = UnitsOf(packets_received)
  BY <1>1, <1>2, <1>3, UtteranceFacts
<1>5. out.length = Len(out.packet.data)
  BY DEF Heard
<1>6. Len(UnitsOf(packets_received)) = PACKET_1K_SIZE
  BY PacketAssumption DEF UnitsOf
<1> QED BY <1>4, <1>5, <1>6

(* A data packet is written behind those before it, up to the size         *)
(* announced.                                                              *)
LEMMA RxDataKeeps ==
    ASSUME IInv, Ymodem_Receive, Heard', RxData, rxPc = "handle"
    PROVE  IInv' /\ ~fs'.broken
<1>1. /\ role = "receive" /\ role' = "receive" /\ packets_received > 0
      /\ R!IsNormal(out) /\ R!Expected
      /\ UNCHANGED <<txPc, txSize, careless, refused, before>>
  BY DEF Ymodem_Receive, RxData, txLocals, history
<1>2. ~fs.broken /\ fs \in Volumes /\ txPc = "off" /\ packets_received \in Nat
  BY <1>1 DEF IInv, Living, Types, Roles
<1>3. PICK ok \in BOOLEAN :
          \/ Write(ok).ret # Wanted /\ RxEnds(Write(ok).fs) /\ rxSize' = -6
          \/ /\ Write(ok).ret = Wanted
             /\ rxPc = "handle" /\ rxPc' = "packet"
             /\ fs' = Write(ok).fs
             /\ file_len' = file_len + Wanted
             /\ packets_received' = packets_received + 1 /\ UNCHANGED rxSize
  BY DEF RxData
<1>4. CASE ~(file_len < rxSize)
  <2>1. Wanted = 0 /\ Write(ok).ret = 0 /\ Write(ok).fs = fs
    BY <1>4 DEF Wanted, Write, Returned
  <2>2. /\ rxPc' = "packet" /\ fs' = fs /\ file_len' = file_len + 0
        /\ packets_received' = packets_received + 1 /\ rxSize' = rxSize
    BY <1>3, <2>1
  <2>3. fs.pFile => file_len \in Nat /\ file_len = rxSize
    BY <1>1, <1>4 DEF IInv, Stored
  <2>4. ~fs.pFile => rxSize = 0 /\ file_len = 0
    BY <1>1 DEF IInv, Unannounced
  <2>5. file_len' = file_len
    BY <2>2, <2>3, <2>4
  <2>6. Types'
    BY <1>1, <1>2, <2>2 DEF IInv, Types, Receiving
  <2>7. Roles' /\ Owning' /\ Keeping' /\ Unannounced'
    BY <1>1, <1>2, <2>2, <2>4, <2>5 DEF IInv, Roles, Owning, Owned, Keeping, Unannounced, Receiving,
       Opened
  <2>8. Living' /\ Careful_user' /\ FlagsTellTheTruth' /\ Leftover'
    BY <1>1, <2>2 DEF IInv, Living, Alive, Careful_user, FlagsTellTheTruth, Leftover
  <2>9. Stored'
    BY <1>1, <2>2, <2>3, <2>5 DEF IInv, Stored
  <2> QED BY <1>2, <2>2, <2>6, <2>7, <2>8, <2>9 DEF IInv
<1>5. CASE file_len < rxSize
  <2>1. fs.pFile
    <3>1. ~fs.pFile => rxSize = 0 /\ file_len = 0
      BY <1>1 DEF IInv, Unannounced
    <3> QED BY <1>5, <3>1
  <2>2. Owned(fs) /\ ~before[1]
    BY <2>1 DEF IInv, Owning
  <2>3. /\ rxSize \in 1..MaxSize /\ fs.pos = file_len /\ file_len \in 0..rxSize
        /\ file_len = (packets_received - 1) * PACKET_1K_SIZE
        /\ packets_received < 256
        /\ \A k \in 1..file_len : fs.cache[k] = k
    BY <1>1, <1>5, <2>1 DEF IInv, Stored
  <2>4. out.packet.data = UnitsOf(packets_received) /\ out.length = PACKET_1K_SIZE
    BY <1>1, <1>2, <2>3, ExpectedFacts DEF IInv
  <2>5. /\ Wanted \in 1..PACKET_1K_SIZE /\ file_len + Wanted \in 1..rxSize
        /\ Wanted = PACKET_1K_SIZE \/ file_len + Wanted = rxSize
    BY <1>5, <2>3, <2>4, PacketAssumption, ReceiveAssumption DEF Wanted, R!write_len
  <2> DEFINE chunk == SubSeq(out.packet.data, 1, Wanted)
             w == Write(ok).fs
  <2>6. /\ chunk \in Seq(Int) /\ Len(chunk) = Wanted
        /\ \A k \in 1..Wanted : chunk[k] = file_len + k
    <3>1. /\ chunk = [k \in 1..Wanted |-> out.packet.data[k]]
          /\ Wanted \in Nat
      BY <2>4, <2>5, PacketAssumption DEF UnitsOf
    <3>2. \A k \in 1..Wanted : out.packet.data[k] = file_len + k
      BY <2>3, <2>4, <2>5, PacketAssumption DEF UnitsOf
    <3>3. \A k \in 1..Wanted : file_len + k \in Int
      BY <2>3, ReceiveAssumption
    <3> HIDE DEF chunk
    <3> QED BY <3>1, <3>2, <3>3
  <2>7. Write(ok) = lfs_c2000_fwrite(fs, chunk, ok)
    BY <1>5 DEF Write
  <2> HIDE DEF chunk
  <2>8. /\ w \in Volumes /\ FlagsStay(fs, w)
        /\ w.broken <=> (fs.broken \/ fs.lfs # "mounted" \/ fs.stray \/ fs.file # "live")
        /\ Write(ok).ret = IF ok THEN Len(chunk) ELSE -1
        /\ ok => /\ w.pos = fs.pos + Len(chunk)
                 /\ \A k \in 1..fs.pos : w.cache[k] = fs.cache[k]
                 /\ \A k \in 1..Len(chunk) : w.cache[fs.pos + k] = chunk[k]
    BY <1>2, <2>2, <2>6, <2>7, WriteFacts DEF Owned
  <2> HIDE DEF w
  <2>9. Owned(w)
    BY <2>2, <2>8 DEF Owned, FlagsStay
  <2>10. CASE Write(ok).ret # Wanted
    <3>1. RxEnds(w)
      BY <1>3, <2>10 DEF w
    <3>2. Ready(w)
      BY <2>2, <2>9 DEF Ready
    <3> QED BY <2>8, <3>1, <3>2, RxEndsKeeps
  <2>11. CASE Write(ok).ret = Wanted
    <3>1. ok
      BY <2>5, <2>8, <2>11
    <3>2. /\ rxPc' = "packet" /\ fs' = w /\ file_len' = file_len + Wanted
          /\ packets_received' = packets_received + 1 /\ rxSize' = rxSize
      BY <1>3, <2>11 DEF w
    <3>3. Types'
      BY <1>1, <1>2, <2>8, <3>2 DEF IInv, Types, Receiving
    <3>4. Roles' /\ Owning' /\ Keeping' /\ Unannounced'
      BY <1>1, <1>2, <2>2, <2>9, <3>2
         DEF IInv, Roles, Owning, Owned, Keeping, Unannounced, Receiving, Opened
    <3>5. Living' /\ Careful_user' /\ FlagsTellTheTruth' /\ Leftover'
      BY <1>1, <2>9, <3>2
         DEF IInv, Living, Alive, Careful_user, FlagsTellTheTruth, Leftover, Owned
    <3>6. Stored'
      <4>1. rxSize' \in 1..MaxSize /\ fs'.pos = file_len' /\ file_len' \in 0..rxSize'
        BY <2>3, <2>5, <2>6, <2>8, <3>1, <3>2
      <4>2. \/ file_len' = (packets_received' - 1) * PACKET_1K_SIZE
            \/ file_len' = rxSize'
        <5>1. packets_received' - 1 = packets_received
          BY <1>2, <3>2
        <5> QED BY <1>2, <2>3, <2>5, <3>2, <5>1, ProductFacts
      <4>3. file_len' < rxSize' => packets_received' < 256
        <5>1. ASSUME file_len' < rxSize'
              PROVE  packets_received * PACKET_1K_SIZE < 255 * PACKET_1K_SIZE
          <6>1. packets_received' - 1 = packets_received
            BY <1>2, <3>2
          <6>2. file_len' = packets_received * PACKET_1K_SIZE
            BY <4>1, <4>2, <5>1, <6>1, ReceiveAssumption
          <6> QED BY <4>1, <5>1, <6>2, NumbersAssumption, ReceiveAssumption, PacketAssumption
        <5> QED BY <1>2, <3>2, <5>1, ProductFacts
      <4>4. \A k \in 1..file_len' : fs'.cache[k] = k
        <5> SUFFICES ASSUME NEW k \in 1..file_len'
                     PROVE  w.cache[k] = k
          BY <3>2
        <5>1. CASE k <= file_len
          BY <2>3, <2>8, <3>1, <5>1, ReceiveAssumption
        <5>2. CASE k > file_len
          <6>1. k - file_len \in 1..Wanted /\ k = file_len + (k - file_len)
            BY <2>3, <2>5, <3>2, <5>2, ReceiveAssumption, PacketAssumption
          <6>2. w.cache[file_len + (k - file_len)] = chunk[k - file_len]
            BY <2>3, <2>6, <2>8, <3>1, <6>1
          <6> QED BY <2>6, <6>1, <6>2
        <5> QED BY <2>3, <5>1, <5>2, ReceiveAssumption
      <4> QED BY <4>1, <4>2, <4>3, <4>4 DEF Stored
    <3> QED BY <2>9, <3>2, <3>3, <3>4, <3>5, <3>6 DEF IInv, Owned
  <2> QED BY <2>10, <2>11
<1> QED BY <1>4, <1>5

(* Every step of Ymodem_Receive keeps the invariant.                       *)
LEMMA ReceiveKeeps ==
    ASSUME IInv, Ymodem_Receive
    PROVE  IInv' /\ ~fs'.broken
<1>1. (RxQuiet \/ RxEnds(fs) \/ RxFilename \/ RxData) /\ Heard'
  BY ReceiveFacts DEF IInv
<1>2. CASE RxQuiet
  BY <1>1, <1>2, RxQuietKeeps
<1>3. CASE RxEnds(fs)
  <2>1. role # "user" /\ ~("done" \in {rxPc, txPc}) /\ fs \in Volumes
    BY <1>3 DEF IInv, Types, Roles, Ymodem_Receive, RxEnds
  <2> QED BY <1>1, <1>3, <2>1, ReadyAsItIs, RxEndsKeeps
<1>4. CASE RxFilename
  BY <1>1, <1>4, RxFilenameKeeps DEF RxFilename, RxEnds
<1>5. CASE RxData
  BY <1>1, <1>5, RxDataKeeps DEF RxData, RxEnds
<1> QED BY <1>1, <1>2, <1>3, <1>4, <1>5

------------------------------------------------------------------------------
(* The steps of Ymodem_Transmit.                                           *)
LEMMA TxEndedKeeps ==
    ASSUME IInv, Ymodem_Transmit, txPc' = "done", Back(fs'), txSize' \in Nat,
           fs'.pLfs => refused'
    PROVE  IInv' /\ ~fs'.broken
<1>1. /\ role = "transmit" /\ role' = role /\ UNCHANGED <<rxLocals, careless, before>>
      /\ refused' = (refused \/ ret' = -12)
  BY DEF Ymodem_Transmit
<1>2. Heard'
  BY <1>1 DEF IInv, Heard, rxLocals
<1>3. /\ refused \in BOOLEAN /\ packets_received' \in Nat
      /\ rxPc' = rxPc /\ UNCHANGED <<file_len, rxSize>>
  BY <1>1 DEF rxLocals, IInv, Types
<1>4. refused' \in BOOLEAN
  BY <1>1, <1>3
<1> QED BY <1>1, <1>2, <1>3, <1>4, EndedKeeps

(* The file is open, and stays open.                                       *)
LEMMA TxOwnedKeeps ==
    ASSUME IInv, Ymodem_Transmit, txPc' \in Opened, fs' \in Volumes, Owned(fs'), ~before[1],
           txSize' \in Nat
    PROVE  IInv' /\ ~fs'.broken
<1>1. /\ role = "transmit" /\ role' = role /\ UNCHANGED <<rxLocals, careless, before>>
      /\ refused' = (refused \/ ret' = -12)
  BY DEF Ymodem_Transmit
<1>2. Heard'
  BY <1>1 DEF IInv, Heard, rxLocals
<1>3. Types'
  <2>1. refused' \in BOOLEAN
    BY <1>1 DEF IInv, Types
  <2> QED BY <1>1, <2>1 DEF IInv, Types, rxLocals
<1>4. Roles' /\ Owning' /\ Keeping' /\ Unannounced'
  BY <1>1 DEF IInv, Roles, Owning, Keeping, Unannounced, Owned, rxLocals
<1>5. Living' /\ Careful_user' /\ FlagsTellTheTruth' /\ Leftover' /\ Stored'
  BY <1>1 DEF IInv, Living, Alive, Careful_user, FlagsTellTheTruth, Leftover, Owned, Stored
<1> QED BY <1>2, <1>3, <1>4, <1>5 DEF IInv, Owned

(* It waits for the receiver.                                              *)
LEMMA TxQuietKeeps ==
    ASSUME IInv, Ymodem_Transmit, TxQuiet, txSize' \in Nat
    PROVE  IInv' /\ ~fs'.broken
<1>1. /\ role = "transmit" /\ role' = role /\ UNCHANGED <<rxLocals, careless, before, fs>>
      /\ refused' = (refused \/ ret' = -12)
      /\ txPc \in Unopened \ {"done"} /\ txPc' \in Unopened \ {"done"}
  BY DEF Ymodem_Transmit, TxQuiet
<1>2. ~fs.pFile /\ ~fs.broken /\ rxPc = "off"
  BY <1>1 DEF IInv, Owning, Living, Roles, Opened, Unopened
<1>3. Heard'
  BY <1>1 DEF IInv, Heard, rxLocals
<1>4. Types'
  <2>1. refused' \in BOOLEAN
    BY <1>1 DEF IInv, Types
  <2> QED BY <1>1, <2>1 DEF IInv, Types, rxLocals
<1>5. Roles' /\ Owning' /\ Keeping' /\ Unannounced'
  BY <1>1, <1>2 DEF IInv, Roles, Owning, Keeping, Unannounced, Opened, Unopened, rxLocals
<1>6. Living' /\ Careful_user' /\ FlagsTellTheTruth' /\ Leftover' /\ Stored'
  BY <1>1, <1>2 DEF IInv, Living, Alive, Careful_user, FlagsTellTheTruth, Leftover, Stored
<1> QED BY <1>1, <1>2, <1>3, <1>4, <1>5, <1>6 DEF IInv

(* It opens its file, or fails to.                                         *)
LEMMA TxOpenKeeps ==
    ASSUME IInv, Ymodem_Transmit, TxOpen, txSize' \in Nat
    PROVE  IInv' /\ ~fs'.broken
<1>1. /\ role = "transmit" /\ txPc = "open" /\ UNCHANGED <<careless, before>>
      /\ refused' = (refused \/ ret' = -12)
  BY DEF Ymodem_Transmit, TxOpen
<1>2. ~fs.pFile /\ ~fs.broken /\ fs \in Volumes /\ rxPc = "off"
  BY <1>1 DEF IInv, Owning, Living, Types, Roles, Opened
<1>3. fs.bFileIsOpen = before[1] /\ fs.bMount = before[2]
  BY <1>1, <1>2 DEF IInv, Keeping
<1>4. ~careless => ~before[1] /\ ~before[2]
  <2>1. ~careless => before = <<FALSE, FALSE>>
    BY <1>1 DEF IInv, Careful_user
  <2>2. before = <<FALSE, FALSE>> => before[1] = FALSE /\ before[2] = FALSE
    OBVIOUS
  <2> QED BY <2>1, <2>2
<1>5. CASE txPc' = "done" /\ fs' = Mounted(fs, FALSE)
  <2> DEFINE m == Mounted(fs, FALSE)
  <2>1. /\ m \in Volumes /\ m.lfs = "off" /\ m.file # "live" /\ (m.bMount <=> fs.bMount)
        /\ m.bFileIsOpen = fs.bFileIsOpen /\ m.pFile = fs.pFile /\ m.broken = fs.broken
        /\ ~m.pLfs
    BY <1>2, MountedFacts
  <2> HIDE DEF m
  <2>2. Back(m)
    BY <1>2, <1>3, <1>4, <2>1 DEF Back, Alive, Truthful
  <2>3. fs' = m
    BY <1>5 DEF m
  <2> QED BY <1>5, <2>1, <2>2, <2>3, TxEndedKeeps
<1>6. ASSUME NEW ok \in BOOLEAN, ~Open(fs, ok).ret, txPc' = "done", ret' = -12,
             fs' = lfs_c2000_umount(OpenAndKept(fs, ok))
      PROVE  IInv' /\ ~fs'.broken
  <2> DEFINE k == OpenAndKept(fs, ok)
             w == lfs_c2000_umount(k)
  <2>1. /\ k \in Volumes /\ ~k.pFile /\ ~k.broken /\ k.bInit /\ k.bMount
        /\ (k.bFileIsOpen <=> fs.bFileIsOpen)
    BY <1>2, <1>6, KeptFacts
  <2> HIDE DEF k
  <2>2. /\ w \in Volumes /\ ~w.bMount /\ w.lfs = "off" /\ w.file # "live"
        /\ w.bFileIsOpen = k.bFileIsOpen /\ w.pFile = k.pFile /\ w.broken = k.broken
    BY <2>1, UmountFacts
  <2>3. fs' = w
    BY <1>6 DEF k
  <2> HIDE DEF w
  <2>4. w.bFileIsOpen = before[1]
    BY <1>2, <1>3, <2>1, <2>2 DEF Volumes, VolumeRecords
  <2>5. Back(w)
    BY <1>4, <2>1, <2>2, <2>4 DEF Back, Alive, Truthful
  <2>6. refused'
    BY <1>1, <1>6
  <2> QED BY <1>6, <2>3, <2>5, <2>6, TxEndedKeeps
<1>7. ASSUME NEW ok \in BOOLEAN, Open(fs, ok).ret
      PROVE  OpenAndKept(fs, ok) \in Volumes /\ Owned(OpenAndKept(fs, ok)) /\ ~before[1]
  BY <1>2, <1>3, <1>7, KeptFacts
<1>8. ASSUME NEW ok \in BOOLEAN, NEW okClose \in BOOLEAN, Open(fs, ok).ret, txPc' = "done",
             fs' = lfs_cleanup(OpenAndKept(fs, ok), okClose)
      PROVE  IInv' /\ ~fs'.broken
  <2>1. OpenAndKept(fs, ok) \in Volumes /\ Ready(OpenAndKept(fs, ok))
    BY <1>7, <1>8 DEF Ready
  <2>2. Back(fs') /\ ~fs'.pLfs
    BY <1>1, <1>8, <2>1, EndsFacts DEF IInv
  <2> QED BY <1>8, <2>2, TxEndedKeeps
<1>9. ASSUME NEW ok \in BOOLEAN, Open(fs, ok).ret, txPc' = "name", fs' = OpenAndKept(fs, ok)
      PROVE  IInv' /\ ~fs'.broken
  BY <1>7, <1>9, TxOwnedKeeps DEF Opened
<1> QED BY <1>5, <1>6, <1>8, <1>9 DEF TxOpen

(* Every step of Ymodem_Transmit keeps the invariant.                      *)
LEMMA TransmitKeeps ==
    ASSUME IInv, Ymodem_Transmit
    PROVE  IInv' /\ ~fs'.broken
<1>1. /\ TxQuiet \/ TxGoesOn \/ TxGivesUp \/ TxEnds \/ TxOpen
      /\ txSize' \in Nat
  BY TransmitFacts DEF IInv, Ymodem_Transmit
<1>2. role = "transmit" /\ rxPc = "off" /\ ~fs.broken /\ fs \in Volumes
      /\ refused \in BOOLEAN /\ refused' = (refused \/ ret' = -12)
  BY DEF Ymodem_Transmit, IInv, Roles, Living, Types
<1>3. txPc \in Opened => fs.pFile /\ Owned(fs) /\ ~before[1]
  BY DEF IInv, Owning
<1>4. CASE TxQuiet
  BY <1>1, <1>4, TxQuietKeeps
<1>5. CASE TxGoesOn
  <2>1. fs' \in Volumes /\ Owned(fs')
    <3>1. CASE fs' = fs
      BY <1>2, <1>3, <1>5, <3>1 DEF TxGoesOn
    <3>2. CASE \E n \in Nat : fs' = lfs_file_read(fs, n).fs
      BY <1>2, <1>3, <1>5, <3>2, ReadFacts DEF TxGoesOn, Owned, FlagsStay
    <3> QED BY <1>5, <3>1, <3>2 DEF TxGoesOn
  <2> QED BY <1>1, <1>3, <1>5, <2>1, TxOwnedKeeps DEF TxGoesOn
<1>6. CASE TxGivesUp
  <2>1. ~fs.pFile
    BY <1>2, <1>6 DEF IInv, Owning, TxGivesUp, Opened, Unopened
  <2>2. Back(fs)
    BY <1>2, <1>6, <2>1, ReadyAsItIs DEF TxGivesUp
  <2>3. fs' = fs /\ txPc' = "done"
    BY <1>6 DEF TxGivesUp
  <2>4. fs'.pLfs => refused'
    BY <1>2, <2>1, <2>3 DEF IInv, Leftover
  <2> QED BY <1>1, <2>2, <2>3, <2>4, TxEndedKeeps
<1>7. CASE TxEnds
  <2>1. Ready(fs)
    BY <1>3, <1>7 DEF TxEnds, Ready
  <2>2. Back(fs') /\ ~fs'.pLfs
    BY <1>2, <1>7, <2>1, EndsFacts DEF TxEnds, IInv
  <2> QED BY <1>1, <1>7, <2>2, TxEndedKeeps DEF TxEnds
<1>8. CASE TxOpen
  BY <1>1, <1>8, TxOpenKeeps
<1> QED BY <1>1, <1>4, <1>5, <1>6, <1>7, <1>8
------------------------------------------------------------------------------
(* The invariant holds at the start and is kept by every step.             *)
LEMMA InitIInv == Init => IInv
<1> SUFFICES ASSUME Init PROVE IInv
  OBVIOUS
<1>1. /\ role = "user" /\ fs = NewVolume(OldFile) /\ toRx = <<>>
      /\ rxPc = "off" /\ txPc = "off" /\ out = R!Outcome(0, 0, R!NoPacket)
      /\ packets_received = 0 /\ file_len = 0 /\ rxSize = 0 /\ txSize = 0
      /\ careless = FALSE /\ refused = FALSE /\ before = <<FALSE, FALSE>>
  BY DEF Init, R!Init, T!Init
<1>2. fs \in Volumes
  <2>1. OldFile \in Seq(Int)
    BY DEF OldFile
  <2> QED BY <1>1, <2>1, EmptyFacts DEF NewVolume, Volumes, VolumeRecords
<1>3. /\ ~fs.pFile /\ ~fs.pLfs /\ ~fs.broken /\ ~fs.bMount /\ ~fs.bFileIsOpen
      /\ fs.file = "none" /\ fs.lfs = "off"
  BY <1>1 DEF NewVolume
<1>4. Types
  BY <1>1, <1>2 DEF Types, Receiving, Opened, Unopened
<1>5. Heard
  <2>1. out.packet = Control(JUNK)
    BY <1>1 DEF R!Outcome, R!NoPacket, R!Control, R!JUNK, Control, JUNK
  <2>2. Control(JUNK) \in Utterances
    BY DEF Utterances
  <2>3. ~R!IsPacket(Control(JUNK))
    BY DEF R!IsPacket, Control, JUNK, R!SOH, R!STX
  <2>4. toRx \in Seq(Utterances)
    BY <1>1
  <2> QED BY <2>1, <2>2, <2>3, <2>4 DEF Heard, R!IsNormal
<1>6. Roles /\ Keeping /\ Unannounced /\ Careful_user /\ Stored /\ Leftover
  BY <1>1, <1>3 DEF Roles, Keeping, Unannounced, Careful_user, Stored, Leftover
<1>7. Owning /\ Living /\ FlagsTellTheTruth
  BY <1>1, <1>3 DEF Owning, Opened, Living, Alive, FlagsTellTheTruth
<1> QED BY <1>4, <1>5, <1>6, <1>7 DEF IInv

(* Every step of a transfer, and its beginning and end, leaves littlefs    *)
(* whole; so does a command given while a file is open.                    *)
LEMMA NextIInv ==
    ASSUME IInv, Next
    PROVE  IInv' /\ (fs.file = "live" /\ ~fs.stray => ~fs'.broken)
<1>1. CASE User
  BY <1>1, UserKeeps
<1>2. CASE FuncYmodemRx \/ FuncYmodemSend
  BY <1>2, BeginKeeps
<1>3. CASE Ymodem_Receive
  BY <1>3, ReceiveKeeps
<1>4. CASE Ymodem_Transmit
  BY <1>4, TransmitKeeps
<1>5. CASE Over
  BY <1>5, OverKeeps
<1>6. CASE Peer
  BY <1>6, PeerKeeps
<1> QED BY <1>1, <1>2, <1>3, <1>4, <1>5, <1>6 DEF Next, Transfer

(* A step of nothing keeps the invariant.                                  *)
LEMMA StutterIInv ==
    ASSUME IInv, UNCHANGED vars
    PROVE  IInv'
<1>1. UNCHANGED <<role, fs, toRx, rxPc, out, packets_received, file_len, rxSize, txPc, txSize,
                  careless, refused, before>>
  BY DEF vars, line, rxLocals, txLocals, history
<1>2. Types' /\ Heard'
  BY <1>1 DEF IInv, Types, Heard
<1>3. Roles' /\ Owning' /\ Keeping' /\ Unannounced'
  BY <1>1 DEF IInv, Roles, Owning, Owned, Keeping, Unannounced
<1>4. Living' /\ Careful_user' /\ FlagsTellTheTruth' /\ Leftover'
  BY <1>1 DEF IInv, Living, Alive, Careful_user, FlagsTellTheTruth, Leftover
<1>5. Stored'
  BY <1>1 DEF IInv, Stored
<1> QED BY <1>2, <1>3, <1>4, <1>5 DEF IInv

(* The invariant holds in every state.                                     *)
LEMMA Invariance == Spec => []IInv
<1>1. Init => IInv
  BY InitIInv
<1>2. IInv /\ [Next]_vars => IInv'
  BY NextIInv, StutterIInv
<1> QED BY <1>1, <1>2, PTL DEF Spec
------------------------------------------------------------------------------
(* What a transfer has opened and mounted it gives back, however it ends.  *)
THEOREM GivesBackHolds == Spec => []GivesBack
<1>1. IInv => GivesBack
  <2> SUFFICES ASSUME IInv, "done" \in {rxPc, txPc}
               PROVE  /\ ~fs.pFile
                      /\ fs.bFileIsOpen = before[1]
                      /\ fs.bMount => before[2]
    BY DEF GivesBack
  <2>1. role # "user" /\ ~fs.pFile
    BY DEF IInv, Roles, Owning, Receiving, Opened
  <2> QED BY <2>1 DEF IInv, Keeping
<1> QED BY <1>1, Invariance, PTL

(* To a careful user bFileIsOpen and bMount tell what littlefs has, and    *)
(* littlefs is called by its rules.                                        *)
THEOREM FlagsTellTheTruthHolds == Spec => []FlagsTellTheTruth
<1>1. IInv => FlagsTellTheTruth
  BY DEF IInv
<1> QED BY <1>1, Invariance, PTL

(* While a file is open in littlefs no command or transfer breaks it,      *)
(* whether its user is careful or not.                                     *)
THEOREM LiveIsSafeHolds == Spec => LiveIsSafe
<1>1. IInv /\ [Next]_vars => [fs.file = "live" /\ ~fs.stray => ~fs'.broken]_vars
  BY NextIInv
<1> QED BY <1>1, Invariance, PTL DEF Spec, LiveIsSafe

(* The file received holds the packets' units in order, without a hole or  *)
(* a repetition, whatever the sender repeats, leaves out or damages.       *)
THEOREM OnlyInOrderHolds == Spec => []OnlyInOrder
<1>1. IInv => OnlyInOrder
  <2> SUFFICES ASSUME IInv, role = "receive", fs.pFile
               PROVE  /\ SubSeq(fs.cache, 1, fs.pos) = [k \in 1..fs.pos |-> k]
                      /\ fs.pos = file_len
                      /\ file_len <= rxSize
    BY DEF OnlyInOrder
  <2>1. /\ fs.pos = file_len /\ file_len \in 0..rxSize /\ rxSize \in Nat
        /\ \A k \in 1..fs.pos : fs.cache[k] = k
    BY ReceiveAssumption DEF IInv, Stored
  <2>2. fs.cache \in Seq(Int) /\ fs.pos \in Nat /\ fs.pos <= Len(fs.cache)
    BY DEF IInv, Types, Volumes, VolumeRecords
  <2>3. SubSeq(fs.cache, 1, fs.pos) = [k \in 1..fs.pos |-> fs.cache[k]]
    BY <2>2
  <2> QED BY <2>1, <2>3
<1> QED BY <1>1, Invariance, PTL

(* A receive that ends before it has mounted unmounts nothing, unless a    *)
(* refused ymodem_send has left pLfs standing.                             *)
THEOREM UnmountsOnlyItsOwnHolds == Spec => UnmountsOnlyItsOwn
<1> DEFINE Step == rxPc = "handle" /\ rxPc' = "done" /\ ~fs.pFile /\ rxSize' \notin {-11, -12}
                   /\ ~refused => fs'.bMount = fs.bMount
<1>1. IInv /\ [Next]_vars => [Step]_vars
  <2> SUFFICES ASSUME IInv, Next, rxPc = "handle", rxPc' = "done", ~fs.pFile,
                      rxSize' \notin {-11, -12}, ~refused
               PROVE  fs'.bMount = fs.bMount
    OBVIOUS
  <2>1. role = "receive" /\ ~fs.pLfs /\ fs \in Volumes
    BY DEF IInv, Roles, Leftover, Types
  <2>2. Ymodem_Receive
    BY <2>1 DEF Next, User, FuncLfsFormat, FuncLfsMount, FuncLfsUmount, FuncLfsLs, FuncLfsMkdir,
       FuncLfsMv, FuncLfsRm, FuncLfsFopen, FuncLfsWrite, FuncLfsRead, FuncLfsFclose, Command,
       FuncYmodemRx, FuncYmodemSend, Begin, Transfer, Ymodem_Transmit, Over, Peer,
       SenderSays, HostSays, rxLocals
  <2>3. RxQuiet \/ RxEnds(fs) \/ RxFilename \/ RxData
    BY <2>2, ReceiveFacts DEF IInv
  <2>4. ~RxQuiet /\ ~RxFilename
    BY DEF RxQuiet, RxFilename, Receiving
  <2>5. ~RxData
    <3>1. rxSize = 0 /\ file_len = 0
      BY DEF IInv, Unannounced
    <3>2. \A ok : Write(ok).ret = Wanted
      BY <3>1 DEF Write, Wanted, Returned
    <3> QED BY <3>2 DEF RxData
  <2>6. PICK ok \in BOOLEAN : fs' = lfs_cleanup(fs, ok)
    BY <2>3, <2>4, <2>5 DEF RxEnds
  <2>7. fs' = fs
    BY <2>1, <2>6, CleanupFacts
  <2> QED BY <2>7
<1> QED BY <1>1, Invariance, PTL DEF Spec, UnmountsOnlyItsOwn
------------------------------------------------------------------------------
(* What is counted.                                                        *)

(* A packet or an end of transmission has been taken from the line and is  *)
(* not acted on yet.                                                       *)
Pending == IF rxPc \in {"consume", "handle"} /\ out.ret = 0 THEN 1 ELSE 0

(* The errors are below one of the limits until one has been passed; the   *)
(* polls are until the wait for the receiver is over.  Nothing is counted  *)
(* of a sender that it has not said.                                       *)
Counts ==
    /\ faults \in 0..MaxFaults /\ events \in 0..MaxEvents /\ answers \in 0..MaxAnswers
    /\ waited \in 0..(Tries - 1)
    /\ err \in 0..(Polls + 1) /\ (txPc \in {"off", "poll", "pollWait"} => err <= Polls)
    /\ errors \in 0..(MaxErrors + 1) \cup 0..(PacketErrors + 1)
    /\ rxPc # "done" => errors <= MaxErrors \/ errors <= PacketErrors
    /\ file_len \in 0..MaxSize /\ eof_cnt \in Nat
    /\ rxPc = "off" => eof_cnt = 0 /\ packets_received = 0
    /\ role = "user" => toRx = <<>>
    /\ role = "receive" => eof_cnt + packets_received + Pending + Len(toRx) <= events

(* What is said on the line, and the faults that may take.                 *)
LEMMA ArrivalFaults ==
    ASSUME NEW n \in 0..MaxFaults, NEW f \in {0, 1}, n + f <= MaxFaults
    PROVE  n + f \in 0..MaxFaults
BY MaxFaultsAssumption

(* An answer of the receiver.                                              *)
LEMMA AnswerFaults ==
    ASSUME Counts, NEW bytes, R!Answer(bytes)
    PROVE  faults' \in 0..MaxFaults
<1>1. PICK a \in R!Arrivals(R!Controls(bytes)) : faults' = faults + a[2] /\ faults' <= MaxFaults
  BY DEF R!Answer
<1>2. a[2] \in {0, 1}
  BY <1>1 DEF R!Arrivals
<1> QED BY <1>1, <1>2, ArrivalFaults DEF Counts

(* A message of the transmitter.                                           *)
LEMMA SayFaults ==
    ASSUME Counts, NEW message, T!Say(message)
    PROVE  faults' \in 0..MaxFaults
<1>1. PICK a \in T!Arrivals(message) : faults' = faults + a[2] /\ faults' <= MaxFaults
  BY DEF T!Say
<1>2. a[2] \in {0, 1}
  BY <1>1 DEF T!Arrivals
<1> QED BY <1>1, <1>2, ArrivalFaults DEF Counts

(* Handling what was taken: an error more at most, and as many packets and *)
(* ends of transmission more as were pending.                              *)
HandleCounted ==
    /\ faults' \in 0..MaxFaults
    /\ errors' \in Nat
    /\ \/ errors' = errors \/ errors' = 0
       \/ errors' = errors + 1 /\ rxPc' = "done"
       \/ errors' = errors + 1 /\ (errors' <= MaxErrors \/ errors' <= PacketErrors)
    /\ rxPc' \in {"packet", "done"}
    /\ \/ UNCHANGED <<eof_cnt, packets_received>>
       \/ Pending = 1 /\ eof_cnt' = eof_cnt + 1 /\ UNCHANGED packets_received
       \/ Pending = 1 /\ packets_received' = packets_received + 1 /\ UNCHANGED eof_cnt

(* An error more, and the end if that is one too many.                     *)
LEMMA ErrorCounted ==
    ASSUME IInv, Counts, NEW limit \in {MaxErrors, PacketErrors}, NEW result, NEW bytes,
           R!CountError(limit, result, bytes)
    PROVE  HandleCounted
<1>1. errors \in Nat
  BY ReceiveAssumption DEF Counts
<1>2. limit \in Nat
  BY ReceiveAssumption
<1>3. errors' = errors + 1
  BY DEF R!CountError
<1>4. CASE errors + 1 > limit
  <2>1. R!Answer(<<R!CA, R!CA>>) /\ rxPc' = "done" /\ UNCHANGED <<eof_cnt, packets_received>>
    BY <1>4 DEF R!CountError, R!Exit
  <2> QED BY <1>1, <1>3, <2>1, AnswerFaults DEF HandleCounted
<1>5. CASE ~(errors + 1 > limit)
  <2>1. R!Answer(bytes) /\ rxPc' = "packet" /\ UNCHANGED <<eof_cnt, packets_received>>
    BY <1>5 DEF R!CountError, R!Go
  <2>2. errors' <= MaxErrors \/ errors' <= PacketErrors
    BY <1>1, <1>2, <1>3, <1>5
  <2> QED BY <1>1, <1>3, <2>1, <2>2, AnswerFaults DEF HandleCounted
<1> QED BY <1>4, <1>5

(* What is done with an outcome counts as HandleCounted says.              *)
LEMMA HandleCounts ==
    ASSUME IInv, Counts, R!Handle
    PROVE  HandleCounted
<1>1. errors \in Nat /\ rxPc = "handle"
  BY ReceiveAssumption DEF Counts, R!Handle
<1>2. out.ret = 0 => Pending = 1
  BY <1>1 DEF Pending
<1>3. CASE R!SenderAborts
  BY <1>1, <1>3, AnswerFaults DEF R!SenderAborts, R!Exit, HandleCounted
<1>4. CASE R!BadPacket
  BY <1>4, ErrorCounted DEF R!BadPacket
<1>5. CASE R!EndOfTransmission
  BY <1>1, <1>2, <1>5, AnswerFaults DEF R!EndOfTransmission, R!Go, HandleCounted
<1>6. CASE R!LastPacket
  BY <1>1, <1>6, AnswerFaults DEF R!LastPacket, R!Go, R!counters, HandleCounted
<1>7. CASE R!WrongSequence
  BY <1>7, ErrorCounted DEF R!WrongSequence
<1>8. CASE R!EmptyFilename
  <2>1. out.ret = 0 /\ errors' = errors + 1
    BY <1>8 DEF R!EmptyFilename, R!FirstPacket, R!IsNormal
  <2>2. CASE errors + 1 > PacketErrors
    BY <1>1, <1>8, <2>1, <2>2, AnswerFaults DEF R!EmptyFilename, R!Exit, HandleCounted
  <2>3. CASE ~(errors + 1 > PacketErrors)
    <3>1. /\ R!Answer(<<R!NAK>>) /\ rxPc' = "packet"
          /\ packets_received' = packets_received + 1 /\ UNCHANGED eof_cnt
      BY <1>8, <2>3 DEF R!EmptyFilename, R!Go
    <3>2. errors' <= PacketErrors
      BY <1>1, <2>1, <2>3, ReceiveAssumption
    <3> QED BY <1>1, <1>2, <2>1, <3>1, <3>2, AnswerFaults DEF HandleCounted
  <2> QED BY <2>2, <2>3
<1>9. CASE R!Filename
  <2>1. out.ret = 0 /\ errors' = 0 /\ UNCHANGED eof_cnt
    BY <1>9 DEF R!Filename, R!FirstPacket, R!IsNormal, R!Exit
  <2>2. /\ \E bytes : R!Answer(bytes)
        /\ \/ rxPc' = "done" /\ UNCHANGED packets_received
           \/ rxPc' = "packet" /\ packets_received' = packets_received + 1
    BY <1>9 DEF R!Filename, R!Exit, R!Go
  <2> QED BY <1>1, <1>2, <2>1, <2>2, AnswerFaults DEF HandleCounted
<1>10. CASE R!Data
  <2>1. out.ret = 0 /\ errors' \in {0, errors} /\ UNCHANGED eof_cnt
    BY <1>10 DEF R!Data, R!IsNormal, R!Exit
  <2>2. /\ \E bytes : R!Answer(bytes)
        /\ \/ rxPc' = "done" /\ UNCHANGED packets_received
           \/ rxPc' = "packet" /\ packets_received' = packets_received + 1
    BY <1>10 DEF R!Data, R!Exit, R!Go
  <2> QED BY <1>1, <1>2, <2>1, <2>2, AnswerFaults DEF HandleCounted
<1>11. CASE R!UserAborts
  BY <1>1, <1>11, AnswerFaults DEF R!UserAborts, R!Exit, HandleCounted
<1>12. CASE R!SessionDone
  BY <1>1, <1>12 DEF R!SessionDone, R!Exit, HandleCounted, Counts
<1>13. CASE R!NoPacketInTime
  BY <1>13, ErrorCounted DEF R!NoPacketInTime
<1> QED BY <1>3, <1>4, <1>5, <1>6, <1>7, <1>8, <1>9, <1>10, <1>11, <1>12, <1>13 DEF R!Handle

(* What is taken from the line leaves at least one item less on it.        *)
LEMMA TakenShorter ==
    ASSUME NEW S, toRx \in Seq(S), R!Complete
    PROVE  /\ Len(R!Taken) \in Nat /\ Len(toRx) \in Nat
           /\ Len(R!Taken) + 1 <= Len(toRx)
<1>1. toRx # <<>> /\ Len(toRx) \in Nat /\ (toRx[1].ch = R!CA => Len(toRx) > 1)
  BY DEF R!Complete
<1>2. Tail(toRx) \in Seq(S) /\ Len(Tail(toRx)) = Len(toRx) - 1
  BY <1>1
<1>3. CASE toRx[1].ch # R!CA
  <2>1. R!Taken = Tail(toRx)
    BY <1>3 DEF R!Taken
  <2> QED BY <1>1, <1>2, <2>1
<1>4. CASE toRx[1].ch = R!CA
  <2> DEFINE rest == Tail(Tail(toRx))
  <2>1. Tail(toRx) # <<>>
    <3>1. Len(toRx) > 1
      BY <1>1, <1>4
    <3>2. PICK t \in Seq(S) : t = Tail(toRx) /\ Len(t) = Len(toRx) - 1
      BY <1>2
    <3>3. t # <<>>
      BY <1>1, <3>1, <3>2
    <3> QED BY <3>2, <3>3
  <2>2. rest \in Seq(S) /\ Len(rest) = Len(toRx) - 2 /\ Len(rest) \in Nat
    BY <1>1, <1>2, <2>1
  <2> HIDE DEF rest
  <2>3. Len(<<R!Control(R!JUNK)>> \o rest) = Len(rest) + 1
    <3>1. PICK item : item = R!Control(R!JUNK)
      OBVIOUS
    <3>2. <<item>> \in Seq(S \cup {item}) /\ rest \in Seq(S \cup {item})
      BY <2>2
    <3>3. Len(<<item>> \o rest) = Len(rest) + 1
      BY <3>2
    <3> QED BY <3>1, <3>3
  <2>4. R!Taken = rest \/ R!Taken = <<R!Control(R!JUNK)>> \o rest
    BY <1>4 DEF R!Taken, rest
  <2> QED BY <1>1, <2>2, <2>3, <2>4
<1> QED BY <1>3, <1>4

(* A step of Ymodem_Receive leaves the other transfer's counts, and        *)
(* file_len in its range.                                                  *)
LEMMA ReceiveFrame ==
    ASSUME IInv, Counts, Ymodem_Receive
    PROVE  /\ role = "receive" /\ role' = "receive" /\ rxPc' # "off"
           /\ UNCHANGED <<events, answers, err, waited, txPc>>
           /\ file_len' \in 0..MaxSize
<1>1. role = "receive" /\ role' = "receive" /\ UNCHANGED <<events, answers, err, waited, txPc>>
  BY DEF Ymodem_Receive, counts, txLocals
<1>2. IInv' /\ (RxQuiet \/ RxEnds(fs) \/ RxFilename \/ RxData)
  BY ReceiveKeeps, ReceiveFacts DEF IInv
<1>3. rxPc' # "off" /\ (rxPc' = "done" => file_len' = file_len)
  BY <1>2 DEF RxQuiet, RxEnds, RxFilename, RxData, Receiving
<1>4. CASE rxPc' = "done"
  BY <1>1, <1>3, <1>4 DEF Counts
<1>5. CASE rxPc' # "done" /\ ~fs'.pFile
  <2>1. file_len' = 0
    BY <1>2, <1>5 DEF IInv, Unannounced
  <2> QED BY <1>1, <1>3, <2>1, ReceiveAssumption
<1>6. CASE rxPc' # "done" /\ fs'.pFile
  <2>1. rxSize' \in 1..MaxSize /\ file_len' \in 0..rxSize'
    BY <1>1, <1>2, <1>6 DEF IInv, Stored
  <2> QED BY <1>1, <1>3, <2>1, ReceiveAssumption
<1> QED BY <1>4, <1>5, <1>6

(* What has been taken from the line is counted once.                      *)
LEMMA TakeCounts ==
    ASSUME IInv, Counts, Ymodem_Receive, R!Take
    PROVE  eof_cnt + packets_received + Pending' + Len(toRx') <= events
<1>1. toRx \in Seq(Utterances)
  BY DEF IInv, Heard, Ymodem_Receive
<1>2. Len(toRx') \in Nat /\ Len(toRx) \in Nat /\ Len(toRx') + 1 <= Len(toRx)
  BY <1>1, TakenShorter DEF R!Take
<1>3. Pending = 0 /\ Pending' \in {0, 1}
  BY DEF R!Take, Pending
<1>4. /\ eof_cnt \in Nat /\ packets_received \in Nat /\ events \in Nat
      /\ eof_cnt + packets_received + Pending + Len(toRx) <= events
  BY BoundsAssumption DEF IInv, Types, Counts, Ymodem_Receive
<1> QED BY ONLY <1>2, <1>3, <1>4

(* Every step of Ymodem_Receive keeps the counts.                          *)
LEMMA ReceiveCounts ==
    ASSUME IInv, Counts, Ymodem_Receive
    PROVE  Counts'
<1>1. /\ role = "receive" /\ role' = "receive" /\ rxPc' # "off"
      /\ UNCHANGED <<events, answers, err, waited, txPc>>
      /\ file_len' \in 0..MaxSize
  BY ReceiveFrame
<1>2. /\ eof_cnt \in Nat /\ packets_received \in Nat /\ events \in Nat
      /\ Len(toRx) \in Nat /\ Pending \in {0, 1} /\ toRx \in Seq(Utterances)
      /\ eof_cnt + packets_received + Pending + Len(toRx) <= events
  BY <1>1, BoundsAssumption DEF IInv, Types, Heard, Counts, Pending
<1>3. ASSUME UNCHANGED <<faults, errors, eof_cnt, packets_received>>, rxPc' # "done", rxPc # "done",
             eof_cnt + packets_received + Pending' + Len(toRx') <= events
      PROVE  Counts'
  BY <1>1, <1>3 DEF Counts
<1>4. CASE R!Start
  <2>1. Pending' = 0 /\ Pending = 0 /\ toRx' = toRx
    BY <1>4 DEF R!Start, Pending
  <2>2. eof_cnt + packets_received + Pending' + Len(toRx') <= events
    BY <1>2, <2>1
  <2> QED BY <1>3, <1>4, <2>2 DEF R!Start, R!counters
<1>5. CASE R!Take
  BY <1>3, <1>5, TakeCounts DEF R!Take, R!counters
<1>6. CASE R!Timeout
  <2>1. Pending' = 0 /\ toRx' = <<>>
    BY <1>6 DEF R!Timeout, R!Outcome, Pending
  <2>2. Len(toRx') = 0
    BY <2>1
  <2>3. eof_cnt + packets_received + Pending' + Len(toRx') <= events
    BY ONLY <1>2, <2>1, <2>2
  <2> QED BY <1>3, <1>6, <2>3 DEF R!Timeout, R!counters
<1>7. CASE R!uart_consume
  <2>1. Pending' = Pending /\ (toRx' = <<>> \/ toRx' = toRx)
    BY <1>7 DEF R!uart_consume, Pending
  <2>2. Len(toRx') \in {0, Len(toRx)}
    BY <2>1
  <2>3. eof_cnt + packets_received + Pending' + Len(toRx') <= events
    BY ONLY <1>2, <2>1, <2>2
  <2> QED BY <1>3, <1>7, <2>3 DEF R!uart_consume, R!counters
<1>8. CASE R!Handle
  <2>1. HandleCounted /\ toRx' = toRx /\ rxPc = "handle"
    BY <1>8, HandleCounts, HandleFacts DEF IInv, R!Handle
  <2>2. Pending' = 0
    BY <2>1 DEF HandleCounted, Pending
  <2>3. eof_cnt' \in Nat /\ eof_cnt' + packets_received' + Pending' + Len(toRx') <= events
    <3>1. \/ UNCHANGED <<eof_cnt, packets_received>>
          \/ Pending = 1 /\ eof_cnt' = eof_cnt + 1 /\ UNCHANGED packets_received
          \/ Pending = 1 /\ packets_received' = packets_received + 1 /\ UNCHANGED eof_cnt
      BY <2>1 DEF HandleCounted
    <3> QED BY ONLY <1>2, <2>1, <2>2, <3>1
  <2>4. /\ errors' \in 0..(MaxErrors + 1) \cup 0..(PacketErrors + 1)
        /\ rxPc' # "done" => errors' <= MaxErrors \/ errors' <= PacketErrors
    <3>1. errors \in Nat /\ (errors <= MaxErrors \/ errors <= PacketErrors)
      BY <2>1, ReceiveAssumption DEF Counts
    <3>2. /\ errors' \in Nat
          /\ \/ errors' = errors \/ errors' = 0
             \/ errors' = errors + 1 /\ rxPc' = "done"
             \/ errors' = errors + 1 /\ (errors' <= MaxErrors \/ errors' <= PacketErrors)
      BY <2>1 DEF HandleCounted
    <3> QED BY ONLY <3>1, <3>2, ReceiveAssumption
  <2>5. faults' \in 0..MaxFaults
    BY <2>1 DEF HandleCounted
  <2> QED BY <1>1, <2>3, <2>4, <2>5 DEF Counts
<1> QED BY <1>4, <1>5, <1>6, <1>7, <1>8 DEF Ymodem_Receive, R!Next

(* What an answer does, or none, damages at most as much as is allowed.    *)
LEMMA ActFaults ==
    ASSUME Counts, NEW response, T!Act(response)
    PROVE  faults' \in 0..MaxFaults
<1>1. ASSUME NEW code, T!Fail(code, response)
      PROVE  faults' \in 0..MaxFaults
  BY <1>1, SayFaults DEF T!Fail
<1>2. CASE UNCHANGED faults
  BY <1>2 DEF Counts
<1> QED BY <1>1, <1>2 DEF T!Act, T!GoOn, T!SendAgain

(* Every step of Ymodem_Transmit keeps the counts.                         *)
LEMMA TransmitCounts ==
    ASSUME IInv, Counts, Ymodem_Transmit
    PROVE  Counts'
<1>1. /\ role = "transmit" /\ role' = "transmit"
      /\ UNCHANGED <<events, answers, errors, eof_cnt, packets_received, file_len, rxPc>>
  BY DEF Ymodem_Transmit, counts, rxLocals
<1>2. err \in Nat /\ err <= Polls + 1 /\ waited \in Nat /\ waited < Tries
      /\ (txPc \in {"off", "poll", "pollWait"} => err <= Polls) /\ faults \in 0..MaxFaults
  BY TransmitAssumption DEF Counts
<1>3. ASSUME faults' \in 0..MaxFaults, waited' \in Nat, waited' < Tries,
             err' \in Nat, err' <= Polls + 1,
             txPc' \in {"off", "poll", "pollWait"} => err' <= Polls
      PROVE  Counts'
  <2>1. waited' \in 0..(Tries - 1) /\ err' \in 0..(Polls + 1)
    BY <1>3, TransmitAssumption
  <2> QED BY <1>1, <1>3, <2>1 DEF Counts
<1>4. ASSUME txPc' \notin {"off", "poll", "pollWait"}, UNCHANGED <<err, waited>>,
             faults' \in 0..MaxFaults
      PROVE  Counts'
  BY <1>2, <1>3, <1>4
<1>5. CASE T!Start
  BY <1>2, <1>3, <1>5 DEF T!Start
<1>6. CASE T!Poll
  BY <1>2, <1>3, <1>6, SayFaults DEF T!Poll
<1>7. CASE T!PollTimeout
  <2>1. err' = err + 1 /\ waited' = waited /\ err <= Polls
    BY <1>2, <1>7 DEF T!PollTimeout
  <2>2. CASE err < Polls
    BY <1>2, <1>3, <1>7, <2>1, <2>2, TransmitAssumption DEF T!PollTimeout
  <2>3. CASE ~(err < Polls)
    BY <1>2, <1>3, <1>7, <2>1, <2>3, SayFaults, TransmitAssumption DEF T!PollTimeout, T!Return
  <2> QED BY <2>2, <2>3
<1>8. CASE T!PollAnswer
  BY <1>2, <1>4, <1>8, SayFaults DEF T!PollAnswer, T!Return
<1>9. CASE T!OpenFile
  <2>1. UNCHANGED <<err, waited>> /\ txPc' \in {"done", "name"}
    BY <1>9 DEF T!OpenFile, T!Return
  <2>2. faults' \in 0..MaxFaults
    <3>1. (\E message : T!Say(message)) \/ UNCHANGED faults
      BY <1>9 DEF T!OpenFile
    <3> QED BY <1>2, <3>1, SayFaults
  <2> QED BY <1>4, <2>1, <2>2
<1>10. CASE T!Ymodem_PreparePacket
  BY <1>2, <1>4, <1>10 DEF T!Ymodem_PreparePacket
<1>11. CASE T!Send_Packet
  BY <1>2, <1>4, <1>11, SayFaults, AwaitedFacts DEF T!Send_Packet
<1>12. ASSUME NEW response, T!Act(response), txPc \in DOMAIN T!Awaited, err' = err, waited' = 0
       PROVE  Counts'
  <2>1. txPc' \in Opened \cup {"done"}
    BY <1>12, ActFacts DEF IInv, TxGoesOn, TxEnds
  <2>2. waited' \in Nat /\ waited' < Tries
    BY <1>12, TransmitAssumption
  <2> QED BY <1>2, <1>3, <1>12, <2>1, <2>2, ActFaults DEF Opened
<1>13. CASE T!Answered
  BY <1>12, <1>13 DEF T!Answered
<1>14. CASE T!Unanswered
  <2>1. CASE waited + 1 < Tries
    BY <1>2, <1>3, <1>14, <2>1 DEF T!Unanswered
  <2>2. CASE ~(waited + 1 < Tries)
    BY <1>12, <1>14, <2>2 DEF T!Unanswered
  <2> QED BY <2>1, <2>2
<1> QED BY <1>5, <1>6, <1>7, <1>8, <1>9, <1>10, <1>11, <1>13, <1>14 DEF Ymodem_Transmit, T!Next

(* The user, the other end, and the beginning and end of a transfer: an    *)
(* event more for each command and for each message of a sender.           *)
LEMMA OthersCount ==
    ASSUME IInv, Counts, User \/ FuncYmodemRx \/ FuncYmodemSend \/ Over \/ Peer
    PROVE  Counts'
<1>1. events \in Nat /\ answers \in Nat /\ packets_received \in Nat /\ eof_cnt \in Nat
  BY BoundsAssumption DEF IInv, Types, Counts
<1>2. Event => events' \in 0..MaxEvents /\ answers' = answers /\ events' = events + 1
  BY <1>1, BoundsAssumption DEF Event, Counts
<1>3. CASE User
  <2>1. PICK volume : Command(volume)
    BY <1>3 DEF User, FuncLfsFormat, FuncLfsMount, FuncLfsUmount, FuncLfsLs, FuncLfsMkdir,
       FuncLfsMv, FuncLfsRm, FuncLfsFopen, FuncLfsWrite, FuncLfsRead, FuncLfsFclose
  <2> QED BY <1>2, <2>1 DEF Command, Counts, rxLocals, txLocals, line
<1>4. CASE FuncYmodemRx
  <2>1. /\ toRx = <<>> /\ rxPc = "off" /\ eof_cnt = 0 /\ packets_received = 0 /\ Len(toRx) = 0
    BY <1>4 DEF FuncYmodemRx, Begin, Counts, IInv, Roles
  <2>2. /\ rxPc' = "packet" /\ role' = "receive" /\ Event
        /\ UNCHANGED <<toRx, faults, errors, eof_cnt, packets_received, file_len,
                       txPc, err, waited>>
    BY <1>4 DEF FuncYmodemRx, Begin, R!Start, R!counters, txLocals
  <2>3. eof_cnt' + packets_received' + Pending' + Len(toRx') <= events'
    BY <1>1, <1>2, <2>1, <2>2 DEF Pending
  <2> QED BY <1>2, <2>1, <2>2, <2>3 DEF Counts
<1>5. CASE FuncYmodemSend
  BY <1>2, <1>5 DEF FuncYmodemSend, Begin, T!Start, rxLocals, Counts
<1>6. CASE Over
  BY <1>1, <1>6, ReceiveAssumption, TransmitAssumption DEF Over, Counts, counts
<1>7. CASE \E item \in Utterances : SenderSays(item)
  <2>1. PICK item \in Utterances : SenderSays(item)
    BY <1>7
  <2>2. toRx \in Seq(Utterances) /\ Len(toRx) \in Nat /\ Len(toRx') = Len(toRx) + 1
    BY <2>1 DEF SenderSays, IInv, Heard
  <2>3. eof_cnt' + packets_received' + Pending' + Len(toRx') <= events'
    <3>1. eof_cnt + packets_received + Pending + Len(toRx) <= events /\ Pending \in {0, 1}
      BY <2>1 DEF SenderSays, Counts, Pending
    <3>2. Pending' = Pending /\ UNCHANGED <<eof_cnt, packets_received>> /\ events' = events + 1
      BY <1>2, <2>1 DEF SenderSays, Pending, rxLocals
    <3> QED BY ONLY <1>1, <2>2, <3>1, <3>2
  <2> QED BY <1>2, <2>1, <2>3 DEF SenderSays, Counts, rxLocals, txLocals
<1>8. CASE \E c \in Answers : HostSays(c)
  BY <1>1, <1>8, BoundsAssumption DEF HostSays, Counts, rxLocals, txLocals
<1> QED BY <1>3, <1>4, <1>5, <1>6, <1>7, <1>8 DEF Peer

(* The counts hold in every state.                                         *)
LEMMA Counted == Spec => []Counts
<1>1. Init => Counts
  BY ReceiveAssumption, TransmitAssumption, BoundsAssumption, MaxFaultsAssumption
     DEF Init, R!Init, T!Init, Counts, Pending
<1>2. IInv /\ Counts /\ [Next]_vars => Counts'
  <2>1. Counts /\ UNCHANGED vars => Counts'
    BY DEF vars, line, rxLocals, txLocals, counts, Counts, Pending
  <2>2. IInv /\ Counts /\ Next => Counts'
    BY ReceiveCounts, TransmitCounts, OthersCount DEF Next, Transfer
  <2> QED BY <2>1, <2>2
<1> QED BY <1>1, <1>2, Invariance, PTL DEF Spec
------------------------------------------------------------------------------
(* The counts of both transfers stay in their bounds, whatever the other   *)
(* end says and however long it is silent: errors one above its limit at   *)
(* most (ymodem.c:457-468), polls and waits as often as they are tried     *)
(* (:628, :568), file_len up to the size that may be announced (:424-449), *)
(* and no more packets and ends of transmission than were sent.            *)
THEOREM TypeCorrect == Spec => []TypeOK
<1>1. IInv /\ Counts => TypeOK
  <2> SUFFICES ASSUME IInv, Counts PROVE TypeOK
    OBVIOUS
  <2>1. /\ role \in {"user", "receive", "transmit"}
        /\ rxPc \in {"off", "packet", "consume", "handle", "done"}
        /\ role # "receive" => rxPc = "off"
        /\ role # "transmit" => txPc = "off"
    BY DEF IInv, Types, Roles, Receiving
  <2>2. txPc \in {"off", "poll", "pollWait", "open", "prepare", "done"}
                   \cup DOMAIN T!AwaitedBy \cup DOMAIN T!Awaited
    BY AwaitedFacts DEF IInv, Types, Opened, Unopened
  <2>3. fs.lfs \in {"off", "mounted"} /\ fs.file \in {"none", "live", "dead"}
    BY DEF IInv, Types, Volumes, VolumeRecords
  <2>4. eof_cnt \in 0..MaxEvents /\ packets_received \in 0..MaxEvents
    <3>1. CASE role = "receive"
      <4>1. /\ eof_cnt \in Nat /\ packets_received \in Nat /\ Len(toRx) \in Nat
            /\ Pending \in {0, 1} /\ events \in 0..MaxEvents
            /\ eof_cnt + packets_received + Pending + Len(toRx) <= events
        BY <3>1 DEF IInv, Types, Heard, Counts, Pending
      <4> QED BY ONLY <4>1, BoundsAssumption
    <3>2. CASE role # "receive"
      <4>1. eof_cnt = 0 /\ packets_received = 0
        BY <2>1, <3>2 DEF Counts
      <4> QED BY <4>1, BoundsAssumption
    <3> QED BY <3>1, <3>2
  <2>5. /\ faults \in 0..MaxFaults /\ file_len \in 0..MaxSize
        /\ errors \in 0..(MaxErrors + 1) \cup 0..(PacketErrors + 1)
        /\ err \in 0..(Polls + 1) /\ waited \in 0..(Tries - 1)
        /\ events \in 0..MaxEvents /\ answers \in 0..MaxAnswers
    BY DEF Counts
  <2> QED BY <2>1, <2>2, <2>3, <2>4, <2>5 DEF TypeOK
<1> QED BY <1>1, Invariance, Counted, PTL
------------------------------------------------------------------------------
(* A set of naturals has a least one.                                      *)
LEMMA LeastOf ==
    ASSUME NEW U, U \subseteq Nat, U # {}
    PROVE  \E n \in U : \A m \in U : n <= m
<1> DEFINE Smaller == OpToRel(<, Nat)
<1>1. IsWellFoundedOn(Smaller, Nat)
  BY NatLessThanWellFounded
<1>2. \A a, b \in Nat : <<a, b>> \in Smaller <=> a < b
  BY DEF OpToRel
<1> HIDE DEF Smaller
<1>3. PICK n \in U : \A m \in U : ~(<<m, n>> \in Smaller)
  BY <1>1, WFMin
<1>4. ASSUME NEW m \in U PROVE n <= m
  <2>1. ~(<<m, n>> \in Smaller) /\ m \in Nat /\ n \in Nat
    BY <1>3
  <2> QED BY <1>2, <2>1
<1> QED BY <1>4

(* The greatest of a set of naturals up to some bound.                     *)
LEMMA MaxFacts ==
    ASSUME NEW n \in Nat, NEW S, S \subseteq 1..n, S # {}
    PROVE  Max(S) \in S /\ \A m \in S : m <= Max(S)
<1> DEFINE U == {b \in Nat : \A m \in S : m <= b}
<1>1. n \in U
  OBVIOUS
<1>2. PICK b \in U : \A c \in U : b <= c
  <2>1. U \subseteq Nat /\ U # {}
    BY <1>1
  <2> QED BY <2>1, LeastOf
<1>3. b \in S
  <2>1. SUFFICES ASSUME b \notin S PROVE FALSE
    OBVIOUS
  <2>2. b > 0
    <3>1. PICK m \in S : m \in 1..n
      OBVIOUS
    <3>2. b \in Nat /\ m <= b
      BY <1>2, <3>1
    <3> QED BY <3>1, <3>2
  <2>3. b - 1 \in U
    BY <1>2, <2>1, <2>2
  <2> QED BY <1>2, <2>3
<1>4. \A m \in S : b >= m
  BY <1>2
<1>5. Max(S) \in S /\ \A m \in S : Max(S) >= m
  BY <1>3, <1>4 DEF Max
<1> QED BY <1>5
------------------------------------------------------------------------------
(* What has been sent.                                                     *)
Items == [ch : Nat, seq : Nat, data : Seq(Int), sound : BOOLEAN]

Places(s) == {n \in DOMAIN s : s[n].ch = STX}
LastIn(s, places) == IF places = {} THEN 0 ELSE s[Max(places)].seq

(* The units of the block with this number. *)
Block_of(stored, number, data) ==
    \A k \in 1..PACKET_1K_SIZE :
        LET unit == (number - 1) * PACKET_1K_SIZE + k
        IN  data[k] = IF unit <= Len(stored) THEN stored[unit] ELSE 0

Fits(stored, number, data) == "read" \notin FailingCalls => Block_of(stored, number, data)

Ordered(s, stored) ==
    \A n \in Places(s) :
        LET last == LastIn(s, {m \in Places(s) : m < n})
        IN  /\ s[n].seq \in {last, last + 1} \ {0}
            /\ Fits(stored, s[n].seq, s[n].data)

(* Sequences that begin alike have the same last block in their beginning. *)
LEMMA SameLast ==
    ASSUME NEW n \in Nat, NEW s, NEW t, \A i \in 1..n : t[i] = s[i]
    PROVE  \A S \in SUBSET (1..n) : LastIn(t, S) = LastIn(s, S)
<1> TAKE S \in SUBSET (1..n)
<1>1. CASE S = {}
  BY <1>1 DEF LastIn
<1>2. CASE S # {}
  <2>1. Max(S) \in S
    BY <1>2, MaxFacts
  <2>2. PICK x : x = Max(S)
    OBVIOUS
  <2>3. x \in 1..n
    BY <2>1, <2>2
  <2>4. t[x] = s[x]
    BY <2>3
  <2>5. LastIn(t, S) = t[x].seq /\ LastIn(s, S) = s[x].seq
    BY <1>2, <2>2 DEF LastIn
  <2> QED BY <2>4, <2>5
<1> QED BY <1>1, <1>2

(* What is no block leaves the blocks as they are.                         *)
LEMMA QuietAppend ==
    ASSUME NEW s \in Seq(Items), NEW m \in Seq(Items), \A i \in DOMAIN m : m[i].ch # STX
    PROVE  /\ s \o m \in Seq(Items)
           /\ Places(s \o m) = Places(s)
           /\ LastIn(s \o m, Places(s \o m)) = LastIn(s, Places(s))
           /\ \A stored : Ordered(s, stored) => Ordered(s \o m, stored)
<1> DEFINE t == s \o m
<1>1. /\ t \in Seq(Items) /\ Len(t) = Len(s) + Len(m) /\ Len(s) \in Nat /\ Len(m) \in Nat
      /\ DOMAIN s = 1..Len(s) /\ DOMAIN t = 1..Len(t) /\ DOMAIN m = 1..Len(m)
      /\ \A n \in 1..Len(s) : t[n] = s[n]
      /\ \A n \in 1..Len(m) : t[Len(s) + n] = m[n]
  OBVIOUS
<1> HIDE DEF t
<1>2. Places(t) = Places(s)
  <2>1. ASSUME NEW n \in Places(t) PROVE n \in Places(s)
    <3>1. n \in 1..Len(t) /\ t[n].ch = STX
      BY <1>1 DEF Places
    <3>2. n <= Len(s)
      <4>1. SUFFICES ASSUME n > Len(s) PROVE FALSE
        BY <1>1, <3>1
      <4>2. PICK i \in 1..Len(m) : n = Len(s) + i
        <5>1. n - Len(s) \in 1..Len(m) /\ n = Len(s) + (n - Len(s))
          BY <1>1, <3>1, <4>1
        <5> QED BY <5>1
      <4> QED BY <1>1, <3>1, <4>2
    <3>3. n \in 1..Len(s)
      BY <1>1, <3>1, <3>2
    <3> QED BY <1>1, <3>1, <3>3 DEF Places
  <2>2. ASSUME NEW n \in Places(s) PROVE n \in Places(t)
    <3>1. n \in 1..Len(s) /\ n \in 1..Len(t)
      BY <1>1 DEF Places
    <3> QED BY <1>1, <3>1 DEF Places
  <2> QED BY <2>1, <2>2
<1>3. \A n \in Places(s) : n \in 1..Len(s) /\ t[n] = s[n]
  BY <1>1 DEF Places
<1>4. ASSUME NEW S, S \subseteq Places(s) PROVE LastIn(t, S) = LastIn(s, S)
  <2>1. Places(s) \subseteq 1..Len(s)
    BY <1>1 DEF Places
  <2>2. S \subseteq 1..Len(s)
    BY <1>4, <2>1
  <2>3. Len(s) \in Nat /\ \A i \in 1..Len(s) : t[i] = s[i]
    BY <1>1
  <2>4. \A Z \in SUBSET (1..Len(s)) : LastIn(t, Z) = LastIn(s, Z)
    BY ONLY <2>3, SameLast
  <2> QED BY <2>2, <2>4
<1>5. LastIn(t, Places(t)) = LastIn(s, Places(s))
  BY <1>2, <1>4
<1>6. ASSUME NEW stored, Ordered(s, stored) PROVE Ordered(t, stored)
  <2> SUFFICES ASSUME NEW n \in Places(s)
               PROVE  LET last == LastIn(t, {k \in Places(s) : k < n})
                      IN  /\ t[n].seq \in {last, last + 1} \ {0}
                          /\ Fits(stored, t[n].seq, t[n].data)
    BY <1>2 DEF Ordered
  <2>1. LastIn(t, {k \in Places(s) : k < n}) = LastIn(s, {k \in Places(s) : k < n})
    <3>1. {k \in Places(s) : k < n} \subseteq Places(s)
      OBVIOUS
    <3> QED BY <1>4, <3>1
  <2> QED BY <1>3, <1>6, <2>1 DEF Ordered
<1> QED BY <1>1, <1>2, <1>5, <1>6 DEF t

(* A block more, the last one again or the next.                           *)
LEMMA BlockAppend ==
    ASSUME NEW s \in Seq(Items), NEW item \in Items, item.ch = STX, NEW stored,
           item.seq \in {LastIn(s, Places(s)), LastIn(s, Places(s)) + 1} \ {0},
           Fits(stored, item.seq, item.data), Ordered(s, stored)
    PROVE  /\ s \o <<item>> \in Seq(Items)
           /\ LastIn(s \o <<item>>, Places(s \o <<item>>)) = item.seq
           /\ Ordered(s \o <<item>>, stored)
<1> DEFINE t == s \o <<item>>
           new == Len(s) + 1
<1>1. /\ t \in Seq(Items) /\ Len(t) = new /\ Len(s) \in Nat
      /\ DOMAIN s = 1..Len(s) /\ DOMAIN t = 1..new
      /\ \A n \in 1..Len(s) : t[n] = s[n]
      /\ t[new] = item
  OBVIOUS
<1> HIDE DEF t
<1>2. Places(t) = Places(s) \cup {new} /\ Places(s) \subseteq 1..Len(s)
  <2>1. Places(s) \subseteq 1..Len(s) /\ Places(t) \subseteq 1..new
    BY <1>1 DEF Places
  <2>2. \A n \in 1..Len(s) : n \in Places(t) <=> n \in Places(s)
    BY <1>1 DEF Places
  <2>3. new \in Places(t)
    BY <1>1 DEF Places
  <2>4. \A n \in 1..new : n \in 1..Len(s) \/ n = new
    BY <1>1
  <2> QED BY <2>1, <2>2, <2>3, <2>4
<1>3. \A n \in Places(s) : t[n] = s[n]
  BY <1>1, <1>2
<1>4. ASSUME NEW S, S \subseteq Places(s) PROVE LastIn(t, S) = LastIn(s, S)
  <2>1. S \subseteq 1..Len(s)
    BY <1>2, <1>4
  <2>3. Len(s) \in Nat /\ \A i \in 1..Len(s) : t[i] = s[i]
    BY <1>1
  <2>4. \A Z \in SUBSET (1..Len(s)) : LastIn(t, Z) = LastIn(s, Z)
    BY ONLY <2>3, SameLast
  <2> QED BY <2>1, <2>4
<1>5. LastIn(t, Places(t)) = item.seq
  <2>1. Places(t) \subseteq 1..new /\ new \in Places(t) /\ new \in Nat
    BY <1>1, <1>2
  <2>2. Max(Places(t)) \in Places(t) /\ new <= Max(Places(t))
    BY <2>1, MaxFacts
  <2>3. Max(Places(t)) = new
    BY <2>1, <2>2
  <2> QED BY <1>1, <2>1, <2>3 DEF LastIn
<1>6. Ordered(t, stored)
  <2> SUFFICES ASSUME NEW n \in Places(t)
               PROVE  LET last == LastIn(t, {k \in Places(t) : k < n})
                      IN  /\ t[n].seq \in {last, last + 1} \ {0}
                          /\ Fits(stored, t[n].seq, t[n].data)
    BY DEF Ordered
  <2>1. CASE n = new
    <3>1. {k \in Places(t) : k < n} = Places(s)
      BY <1>1, <1>2, <2>1
    <3> QED BY <1>1, <1>4, <2>1, <3>1
  <2>2. CASE n \in Places(s)
    <3>1. {k \in Places(t) : k < n} = {k \in Places(s) : k < n}
      BY <1>1, <1>2, <2>2
    <3>2. {k \in Places(s) : k < n} \subseteq Places(s)
      OBVIOUS
    <3>3. LastIn(t, {k \in Places(t) : k < n}) = LastIn(s, {k \in Places(s) : k < n})
      BY <1>4, <3>1, <3>2
    <3> QED BY <1>3, <2>2, <3>3 DEF Ordered
  <2> QED BY <1>2, <2>1, <2>2
<1> QED BY <1>1, <1>5, <1>6 DEF t
------------------------------------------------------------------------------
(* What the file of a transmission has.                                    *)

(* lfs_file_read goes on in the file and leaves what it has.               *)
LEMMA ReadStored ==
    ASSUME NEW v \in Volumes, NEW n \in Nat
    PROVE  LET w == lfs_file_read(v, n).fs
           IN /\ w.stored = v.stored /\ w.cache = v.cache
              /\ w.pos = IF v.pos + n > Len(v.cache) THEN Len(v.cache) ELSE v.pos + n
<1> DEFINE o == OnFile(v)
           last == IF v.pos + n > Len(v.cache) THEN Len(v.cache) ELSE v.pos + n
<1>1. o \in Volumes /\ o.cache = v.cache /\ o.stored = v.stored
  <2>1. o \in Volumes /\ o.cache = v.cache
    BY OnFileFacts
  <2>2. o.stored = v.stored
    BY DEF OnFile, Volumes, VolumeRecords
  <2> QED BY <2>1, <2>2
<1>2. lfs_file_read(v, n).fs = [o EXCEPT !.pos = last]
  BY DEF lfs_file_read, Returned
<1> HIDE DEF o
<1> QED BY <1>1, <1>2 DEF Volumes, VolumeRecords

(* A file that has not been written keeps what it had.                     *)
LEMMA CleanupStored ==
    ASSUME NEW v \in Volumes, NEW ok \in BOOLEAN, v.cache = v.stored
    PROVE  lfs_cleanup(v, ok).stored = v.stored
<1>1. ASSUME NEW w \in Volumes
      PROVE  lfs_c2000_umount(w).stored = w.stored /\ lfs_c2000_umount(w) \in Volumes
  <2>1. lfs_c2000_umount(w) \in Volumes
    BY UmountFacts
  <2>2. lfs_c2000_umount(w).stored = w.stored
    BY <1>1 DEF lfs_c2000_umount, Restarted, Volumes, VolumeRecords
  <2> QED BY <2>1, <2>2
<1> DEFINE c == lfs_c2000_fclose(v, ok)
           closed == IF v.pFile THEN [c EXCEPT !.pFile = FALSE] ELSE v
           u == lfs_c2000_umount(closed)
<1>2. c \in Volumes /\ c.stored = v.stored
  <2>1. c \in Volumes
    BY CloseFacts
  <2>2. CASE ~v.bMount \/ ~v.bFileIsOpen
    BY <2>1, <2>2 DEF lfs_c2000_fclose
  <2>3. CASE ~(~v.bMount \/ ~v.bFileIsOpen)
    <3> DEFINE o == OnFile(v)
               kept == IF ok /\ v.exists THEN v.cache ELSE o.stored
    <3>1. o \in Volumes /\ o.stored = v.stored
      BY DEF OnFile, Volumes, VolumeRecords
    <3>2. c = [o EXCEPT !.bFileIsOpen = FALSE, !.file = "none", !.stored = kept,
                        !.cache = <<>>, !.pos = 0]
      BY <2>3, <3>1 DEF lfs_c2000_fclose, Volumes, VolumeRecords
    <3>3. kept = v.stored
      BY <3>1
    <3> HIDE DEF o, kept, c
    <3>4. c.stored = kept
      BY <3>1, <3>2 DEF Volumes, VolumeRecords
    <3> QED BY <2>1, <3>3, <3>4
  <2> QED BY <2>2, <2>3
<1>3. closed \in Volumes /\ closed.stored = v.stored
  <2> HIDE DEF c
  <2> QED BY <1>2 DEF Volumes, VolumeRecords
<1>4. lfs_cleanup(v, ok) = IF closed.pLfs THEN [u EXCEPT !.pLfs = FALSE] ELSE closed
  BY DEF lfs_cleanup
<1>5. u \in Volumes /\ u.stored = v.stored
  <2> HIDE DEF closed
  <2> QED BY <1>1, <1>3
<1> HIDE DEF closed, u
<1> QED BY <1>3, <1>4, <1>5 DEF Volumes, VolumeRecords

(* A file that has been opened has what was stored, from the first unit.   *)
LEMMA KeptStored ==
    ASSUME NEW v \in Volumes, NEW ok \in BOOLEAN, Open(v, ok).ret, ~v.broken
    PROVE  LET w == OpenAndKept(v, ok)
           IN  w \in Volumes /\ w.cache = w.stored /\ w.pos = 0
<1> DEFINE m == Mounted(v, TRUE)
           u == lfs_c2000_fopen(m, ok).fs
<1>1. m \in Volumes
  BY MountedFacts
<1>2. u = Open(v, ok).fs /\ lfs_c2000_fopen(m, ok).ret
  BY DEF Open
<1>3. u \in Volumes /\ u.cache = u.stored
  <2> HIDE DEF m
  <2>1. u \in Volumes
    BY <1>1, OpenFacts
  <2>2. m.bMount /\ ~m.bFileIsOpen /\ ok
    BY <1>1, <1>2, OpenFacts
  <2>3. u = [[OnVolume(m) EXCEPT !.bFileIsOpen = ok] EXCEPT
                 !.broken = @ \/ m.file = "live", !.file = "live",
                 !.exists = TRUE, !.cache = m.stored, !.pos = 0]
    BY <2>2 DEF lfs_c2000_fopen, Returned
  <2>4. OnVolume(m) \in Volumes /\ OnVolume(m).stored = m.stored
    BY <1>1 DEF OnVolume, Volumes, VolumeRecords
  <2>5. u.cache = m.stored /\ u.stored = m.stored
    <3> DEFINE o == OnVolume(m)
    <3> HIDE DEF o
    <3>1. o \in Volumes /\ o.stored = m.stored
      BY <2>4 DEF o
    <3>2. u = [[o EXCEPT !.bFileIsOpen = ok] EXCEPT
                 !.broken = @ \/ m.file = "live", !.file = "live",
                 !.exists = TRUE, !.cache = m.stored, !.pos = 0]
      BY <2>3 DEF o
    <3> HIDE DEF u
    <3> QED BY <3>1, <3>2 DEF Volumes, VolumeRecords
  <2> QED BY <2>1, <2>5
<1>4. OpenAndKept(v, ok) = [u EXCEPT !.pFile = Open(v, ok).ret] /\ Open(v, ok).ret \in BOOLEAN
  BY <1>2, OpenReturns DEF OpenAndKept, Open
<1>5. OpenAndKept(v, ok) \in Volumes /\ OpenAndKept(v, ok).pos = 0
  BY KeptFacts
<1> HIDE DEF u
<1> QED BY <1>3, <1>4, <1>5 DEF Volumes, VolumeRecords
------------------------------------------------------------------------------
Clean == role = "transmit" /\ faults = 0
Small == Len(fs.stored) <= 255 * PACKET_1K_SIZE
LastSent == LastIn(toRx, Places(toRx))

(* The file is as it was stored, and the places up to which it is read. *)
OnFileData ==
    /\ packet_data \in Seq(Int) /\ blkNumber \in Nat
    /\ txPc \in Opened => fs.cache = fs.stored

OnLine ==
    Clean =>
        /\ toRx \in Seq(Items)
        /\ txPc \in {"off", "poll", "pollWait", "open", "name", "nameAck", "nameC"} =>
               Places(toRx) = {}
        /\ Small => Ordered(toRx, fs.stored)

OnName ==
    Clean /\ txPc \in {"name", "nameAck", "nameC"} => txSize = Len(fs.stored) /\ fs.pos = 0

(* The block under way: blkNumber counts what has been acknowledged, size  *)
(* is the rest.                                                            *)
OnBlock ==
    Clean /\ Small /\ txPc \in {"prepare", "block", "blockAck"} =>
        /\ txSize > 0 /\ blkNumber \in 1..255
        /\ (blkNumber - 1) * PACKET_1K_SIZE + txSize = Len(fs.stored)
        /\ txPc = "prepare" => LastSent = blkNumber - 1
        /\ txPc = "block" => LastSent \in {blkNumber - 1, blkNumber}
        /\ txPc = "blockAck" => LastSent = blkNumber
        /\ "read" \notin FailingCalls =>
               IF txPc = "prepare"
               THEN fs.pos = (blkNumber - 1) * PACKET_1K_SIZE
               ELSE /\ Block_of(fs.stored, blkNumber, packet_data)
                    /\ txSize > PACKET_1K_SIZE => fs.pos = blkNumber * PACKET_1K_SIZE

Sent == OnFileData /\ OnLine /\ OnName /\ OnBlock

(* Nothing is said, or nothing that is a block.                            *)
Chat ==
    faults' = 0 =>
        /\ faults = 0
        /\ toRx \in Seq(Items) =>
               /\ toRx' \in Seq(Items)
               /\ Places(toRx') = Places(toRx) /\ LastSent' = LastSent
               /\ \A stored : Ordered(toRx, stored) => Ordered(toRx', stored)

(* A line that damages nothing passes on what is said.                     *)
LEMMA SaidClean ==
    ASSUME NEW message, T!Say(message), faults \in 0..MaxFaults, faults' = 0
    PROVE  faults = 0 /\ toRx' = toRx \o message
<1>1. PICK a \in T!Arrivals(message) : toRx' = toRx \o a[1] /\ faults' = faults + a[2]
  BY DEF T!Say
<1>2. a[2] \in {0, 1} /\ (a[2] = 0 => a[1] = message)
  BY <1>1 DEF T!Arrivals
<1>3. faults = 0 /\ a[2] = 0
  BY <1>1, <1>2, MaxFaultsAssumption
<1> QED BY <1>1, <1>2, <1>3

(* A message without a block leaves the blocks as they are.                *)
LEMMA SaidChat ==
    ASSUME NEW message \in Seq(Items), \A i \in DOMAIN message : message[i].ch # STX,
           T!Say(message), faults \in 0..MaxFaults
    PROVE  Chat
<1> SUFFICES ASSUME faults' = 0, toRx \in Seq(Items)
             PROVE  /\ toRx' \in Seq(Items)
                    /\ Places(toRx') = Places(toRx) /\ LastSent' = LastSent
                    /\ \A stored : Ordered(toRx, stored) => Ordered(toRx', stored)
  BY SaidClean DEF Chat
<1>1. toRx' = toRx \o message
  BY SaidClean
<1> QED BY <1>1, QuietAppend DEF LastSent

(* So do control bytes,                                                    *)
LEMMA ControlsChat ==
    ASSUME NEW bytes \in Seq({T!EOT, T!CA, T!CRC16}), T!Say(T!Controls(bytes)),
           faults \in 0..MaxFaults
    PROVE  Chat
<1> DEFINE message == T!Controls(bytes)
<1>1. message = [n \in 1..Len(bytes) |-> T!Control(bytes[n])] /\ Len(bytes) \in Nat
  BY DEF T!Controls
<1>2. \A c \in {T!EOT, T!CA, T!CRC16} : T!Control(c) \in Items /\ T!Control(c).ch # STX
  BY EmptyFacts DEF T!EOT, T!CA, T!CRC16, T!Control, Items, STX
<1>3. \A n \in 1..Len(bytes) : bytes[n] \in {T!EOT, T!CA, T!CRC16}
  OBVIOUS
<1>4. DOMAIN message = 1..Len(bytes)
      /\ \A n \in 1..Len(bytes) : message[n] \in Items /\ message[n].ch # STX
  BY <1>1, <1>2, <1>3
<1>5. message \in Seq(Items)
  BY <1>1, <1>2, <1>3
<1> HIDE DEF message
<1>6. T!Say(message)
  BY DEF message
<1> QED BY <1>4, <1>5, <1>6, SaidChat

(* and silence.                                                            *)
LEMMA SilentChat ==
    ASSUME UNCHANGED <<toRx, faults>>
    PROVE  Chat
BY DEF Chat, LastSent

(* The two CAs that end a transmission.                                    *)
LEMMA AbortChat ==
    ASSUME T!Say(T!Controls(<<T!CA, T!CA>>)), faults \in 0..MaxFaults
    PROVE  Chat
<1>1. <<T!CA, T!CA>> \in Seq({T!EOT, T!CA, T!CRC16})
  OBVIOUS
<1> QED BY <1>1, ControlsChat

(* The end of a transmission leaves the blocks and the file as they are.   *)
LEMMA ChatKeeps ==
    ASSUME Sent, role = "transmit", Chat, packet_data' \in Seq(Int), blkNumber' \in Nat,
           txPc' \in Opened => fs'.cache = fs'.stored,
           \/ fs'.stored = fs.stored
           \/ txPc \in {"off", "poll", "pollWait", "open", "name", "nameAck", "nameC"},
           txPc' \in {"off", "poll", "pollWait", "open", "name", "nameAck", "nameC"} =>
               txPc \in {"off", "poll", "pollWait", "open", "name", "nameAck", "nameC"}
    PROVE  OnFileData' /\ OnLine'
<1>1. OnFileData'
  BY DEF OnFileData
<1>2. OnLine'
  <2> SUFFICES ASSUME role' = "transmit", faults' = 0
               PROVE  /\ toRx' \in Seq(Items)
                      /\ txPc' \in {"off", "poll", "pollWait", "open", "name", "nameAck", "nameC"}
                             => Places(toRx') = {}
                      /\ Small' => Ordered(toRx', fs'.stored)
    BY DEF OnLine, Clean
  <2>1. Clean /\ toRx \in Seq(Items)
    BY DEF Chat, Clean, Sent, OnLine
  <2>2. /\ toRx' \in Seq(Items) /\ Places(toRx') = Places(toRx)
        /\ \A stored : Ordered(toRx, stored) => Ordered(toRx', stored)
    BY <2>1 DEF Chat
  <2>3. txPc \in {"off", "poll", "pollWait", "open", "name", "nameAck", "nameC"}
            => Places(toRx) = {}
    BY <2>1 DEF Sent, OnLine
  <2>4. CASE fs'.stored = fs.stored
    BY <2>1, <2>2, <2>3, <2>4 DEF Sent, OnLine, Small
  <2>5. CASE txPc \in {"off", "poll", "pollWait", "open", "name", "nameAck", "nameC"}
    BY <2>2, <2>3, <2>5 DEF Ordered
  <2> QED BY <2>4, <2>5
<1> QED BY <1>1, <1>2

(* The buffer is always a sequence of units.                               *)
LEMMA BlockType ==
    ASSUME NEW data \in Seq(Int)
    PROVE  T!Block(data) \in Seq(Int)
<1>1. \A n \in 1..PACKET_1K_SIZE : (IF n <= Len(data) THEN data[n] ELSE 0) \in Int
  <2> TAKE n \in 1..PACKET_1K_SIZE
  <2>1. n <= Len(data) => n \in 1..Len(data)
    BY PacketAssumption
  <2> QED BY <2>1
<1>2. PACKET_1K_SIZE \in Nat
  BY PacketAssumption
<1> QED BY <1>1, <1>2 DEF T!Block

(* What is read from the place of a block is that block.                   *)
LEMMA ReadBlock ==
    ASSUME fs \in Volumes, fs.cache = fs.stored, txSize \in Nat \ {0}, blkNumber \in 1..255,
           (blkNumber - 1) * PACKET_1K_SIZE + txSize = Len(fs.stored),
           fs.pos = (blkNumber - 1) * PACKET_1K_SIZE
    PROVE  LET n == IF txSize < PACKET_1K_SIZE THEN txSize ELSE PACKET_1K_SIZE
               read == lfs_file_read(fs, n)
           IN  /\ Block_of(fs.stored, blkNumber, T!Block(read.ret))
               /\ txSize > PACKET_1K_SIZE => read.fs.pos = blkNumber * PACKET_1K_SIZE
               /\ read.ret \in Seq(Int)
<1> DEFINE n == IF txSize < PACKET_1K_SIZE THEN txSize ELSE PACKET_1K_SIZE
           base == (blkNumber - 1) * PACKET_1K_SIZE
           data == lfs_file_read(fs, n).ret
<1>1. /\ PACKET_1K_SIZE \in Nat /\ base \in Nat /\ n \in Nat /\ n <= txSize /\ n <= PACKET_1K_SIZE
      /\ (n = txSize \/ n = PACKET_1K_SIZE) /\ (txSize > PACKET_1K_SIZE => n = PACKET_1K_SIZE)
  <2>1. PACKET_1K_SIZE \in Nat /\ blkNumber - 1 \in Nat
    BY PacketAssumption
  <2>2. base \in Nat
    BY <2>1
  <2> QED BY <2>1, <2>2
<1>2. fs.cache \in Seq(Int) /\ fs.pos = base /\ base + txSize = Len(fs.cache)
      /\ Len(fs.cache) \in Nat /\ fs.cache = fs.stored
  BY DEF Volumes, VolumeRecords
<1>3. blkNumber * PACKET_1K_SIZE = base + PACKET_1K_SIZE
  BY ProductFacts
<1> HIDE DEF base, n
<1>4. ~(fs.pos + n > Len(fs.cache)) /\ base + n <= Len(fs.cache) /\ base + n \in Nat
  BY <1>1, <1>2
<1>5. data = SubSeq(fs.cache, base + 1, base + n) /\ lfs_file_read(fs, n).fs.pos = base + n
  <2>1. lfs_file_read(fs, n).fs.pos = fs.pos + n
    BY <1>1, <1>4, ReadStored
  <2>2. data = SubSeq(fs.cache, fs.pos + 1, fs.pos + n)
    BY <1>4 DEF lfs_file_read, Returned
  <2> QED BY <1>2, <2>1, <2>2
<1>6. /\ data \in Seq(Int) /\ Len(data) = n
      /\ \A k \in 1..n : data[k] = fs.cache[base + k]
  <2>1. base + 1 \in Nat /\ base + 1 >= 1 /\ base + n - (base + 1) + 1 = n
    BY <1>1
  <2>2. \A k \in 1..n : base + k \in 1..Len(fs.cache) /\ base + 1 + k - 1 = base + k
    BY <1>1, <1>4
  <2>3. data = [k \in 1..n |-> fs.cache[base + 1 + k - 1]]
    BY <1>1, <1>2, <1>4, <1>5, <2>1
  <2>4. \A k \in 1..n : data[k] = fs.cache[base + k] /\ fs.cache[base + k] \in Int
    BY <1>2, <2>2, <2>3
  <2> QED BY <1>1, <2>3, <2>4
<1>7. Block_of(fs.stored, blkNumber, T!Block(data))
  <2> HIDE DEF data
  <2> SUFFICES ASSUME NEW k \in 1..PACKET_1K_SIZE
               PROVE  T!Block(data)[k] =
                          IF base + k <= Len(fs.stored) THEN fs.stored[base + k] ELSE 0
    BY DEF Block_of, base
  <2>1. T!Block(data)[k] = IF k <= n THEN data[k] ELSE 0
    BY <1>6 DEF T!Block
  <2>2. CASE k <= n
    <3>1. k \in 1..n /\ base + k <= Len(fs.cache)
      BY <1>1, <1>4, <2>2
    <3> QED BY <1>2, <1>6, <2>1, <2>2, <3>1
  <2>3. CASE ~(k <= n)
    <3>1. n = txSize /\ base + k > Len(fs.cache)
      BY <1>1, <1>2, <2>3
    <3> QED BY <1>1, <1>2, <2>1, <2>3, <3>1
  <2> QED BY <2>2, <2>3
<1>8. txSize > PACKET_1K_SIZE => lfs_file_read(fs, n).fs.pos = blkNumber * PACKET_1K_SIZE
  BY <1>1, <1>3, <1>5
<1> QED BY <1>6, <1>7, <1>8 DEF n, data

(* A block is prepared.                                                    *)
LEMMA PrepareSent ==
    ASSUME IInv, Counts, Sent, Ymodem_Transmit, T!Ymodem_PreparePacket
    PROVE  Sent'
<1> DEFINE n == IF txSize < PACKET_1K_SIZE THEN txSize ELSE PACKET_1K_SIZE
           read == lfs_file_read(fs, n)
<1>1. /\ role = "transmit" /\ txPc = "prepare" /\ txPc' = "block" /\ fs \in Volumes
      /\ UNCHANGED <<toRx, faults, blkNumber, txSize>>
  BY DEF Ymodem_Transmit, T!Ymodem_PreparePacket, IInv, Types
<1>2. fs.cache = fs.stored /\ packet_data \in Seq(Int) /\ blkNumber \in Nat
  BY <1>1 DEF Sent, OnFileData, Opened
<1>3. PICK ok \in T!Outcomes("read") :
          IF ok
          THEN fs' = read.fs /\ packet_data' = T!Block(read.ret)
          ELSE UNCHANGED fs /\ packet_data' = T!Block(packet_data)
  BY SameRead DEF T!Ymodem_PreparePacket
<1>4. n \in Nat
  BY PacketAssumption DEF IInv, Types
<1>5. fs'.cache = fs.cache /\ fs'.stored = fs.stored
  <2> HIDE DEF n
  <2> QED BY <1>1, <1>3, <1>4, ReadStored
<1>6. packet_data' \in Seq(Int)
  <2>1. read.ret \in Seq(Int)
    <3> HIDE DEF n
    <3>1. fs.cache \in Seq(Int) /\ fs.pos \in Nat /\ Len(fs.cache) \in Nat
      BY <1>1 DEF Volumes, VolumeRecords
    <3> DEFINE last == IF fs.pos + n > Len(fs.cache) THEN Len(fs.cache) ELSE fs.pos + n
    <3>2. last \in Nat /\ last <= Len(fs.cache) /\ fs.pos + 1 >= 1
      BY <1>4, <3>1
    <3>3. read.ret = SubSeq(fs.cache, fs.pos + 1, last)
      BY DEF lfs_file_read, Returned
    <3> HIDE DEF last
    <3>4. \A i \in (fs.pos + 1)..last : fs.cache[i] \in Int
      BY <3>1, <3>2
    <3> QED BY <3>1, <3>2, <3>3, <3>4
  <2> HIDE DEF read
  <2> QED BY <1>2, <1>3, <2>1, BlockType
<1>7. OnFileData' /\ OnLine'
  <2>1. Chat
    BY <1>1, SilentChat
  <2> QED BY <1>1, <1>2, <1>5, <1>6, <2>1, ChatKeeps
<1>8. OnName'
  BY <1>1 DEF OnName
<1>9. OnBlock'
  <2> SUFFICES ASSUME role' = "transmit", faults' = 0, Small'
               PROVE  /\ txSize > 0 /\ blkNumber \in 1..255
                      /\ (blkNumber - 1) * PACKET_1K_SIZE + txSize = Len(fs'.stored)
                      /\ LastSent' \in {blkNumber - 1, blkNumber}
                      /\ "read" \notin FailingCalls =>
                            /\ Block_of(fs'.stored, blkNumber, packet_data')
                            /\ txSize > PACKET_1K_SIZE => fs'.pos = blkNumber * PACKET_1K_SIZE
    BY <1>1 DEF OnBlock, Clean
  <2>1. Clean /\ Small
    BY <1>1, <1>5 DEF Clean, Small
  <2>2. /\ txSize > 0 /\ blkNumber \in 1..255
        /\ (blkNumber - 1) * PACKET_1K_SIZE + txSize = Len(fs.stored)
        /\ LastSent = blkNumber - 1
        /\ "read" \notin FailingCalls => fs.pos = (blkNumber - 1) * PACKET_1K_SIZE
    BY <1>1, <2>1 DEF Sent, OnBlock
  <2>3. LastSent' = LastSent
    BY <1>1 DEF LastSent
  <2>4. ASSUME "read" \notin FailingCalls
        PROVE  /\ Block_of(fs'.stored, blkNumber, packet_data')
               /\ txSize > PACKET_1K_SIZE => fs'.pos = blkNumber * PACKET_1K_SIZE
    <3>1. ok
      BY <1>3, <2>4 DEF T!Outcomes
    <3>2. txSize \in Nat \ {0}
      BY <2>2 DEF IInv, Types
    <3>3. /\ Block_of(fs.stored, blkNumber, T!Block(read.ret))
          /\ txSize > PACKET_1K_SIZE => read.fs.pos = blkNumber * PACKET_1K_SIZE
      BY <1>1, <1>2, <2>2, <2>4, <3>2, ReadBlock
    <3> HIDE DEF read
    <3> QED BY <1>3, <1>5, <3>1, <3>3
  <2> QED BY <1>5, <2>2, <2>3, <2>4
<1> QED BY <1>7, <1>8, <1>9 DEF Sent

(* A packet is sent: a block is the last one again or the next, the others *)
(* are none.                                                               *)
LEMMA SendSent ==
    ASSUME IInv, Counts, Sent, Ymodem_Transmit, T!Send_Packet
    PROVE  Sent'
<1>1. /\ role = "transmit" /\ txPc \in {"name", "block", "eot", "last"} /\ txPc' = T!AwaitedBy[txPc]
      /\ T!Say(T!Message[txPc])
      /\ UNCHANGED <<blkNumber, txSize, packet_data, fs>>
      /\ faults \in 0..MaxFaults
  BY AwaitedFacts DEF Ymodem_Transmit, T!Send_Packet, Counts
<1>2. fs.cache = fs.stored /\ packet_data \in Seq(Int) /\ blkNumber \in Nat
  BY <1>1 DEF Sent, OnFileData, Opened
<1>3. CASE txPc # "block"
  <2>1. txPc' \in {"nameAck", "eotAck", "lastAck"} /\ (txPc' = "nameAck" => txPc = "name")
    BY <1>1, <1>3 DEF T!AwaitedBy
  <2>2. Chat
    <3>1. CASE txPc = "eot"
      <4>1. T!Say(T!Controls(<<T!EOT>>))
        BY <1>1, <3>1 DEF T!Message
      <4>2. <<T!EOT>> \in Seq({T!EOT, T!CA, T!CRC16})
        OBVIOUS
      <4> QED BY <1>1, <4>1, <4>2, ControlsChat
    <3>2. ASSUME NEW data \in Seq(Int), T!Message[txPc] = <<T!Packet(T!SOH, 0, data)>>
          PROVE  Chat
      <4>1. PICK item : item = T!Packet(T!SOH, 0, data)
        OBVIOUS
      <4>2. item \in Items /\ item.ch # STX
        BY <4>1 DEF T!Packet, T!SOH, Items, STX
      <4>3. <<item>> \in Seq(Items) /\ \A i \in DOMAIN <<item>> : <<item>>[i].ch # STX
        BY <4>2
      <4>4. T!Say(<<item>>)
        BY <1>1, <3>2, <4>1
      <4> QED BY <1>1, <4>3, <4>4, SaidChat
    <3>3. CASE txPc = "name"
      BY <1>2, <3>2, <3>3 DEF T!Message
    <3>4. CASE txPc = "last"
      <4>1. PICK data \in Seq(Int) : data = <<>>
        BY EmptyFacts
      <4>2. T!Message[txPc] = <<T!Packet(T!SOH, 0, data)>>
        BY <3>4, <4>1 DEF T!Message
      <4> QED BY <3>2, <4>2
    <3> QED BY <1>1, <1>3, <3>1, <3>3, <3>4
  <2>3. OnFileData' /\ OnLine'
    BY <1>1, <1>2, <2>1, <2>2, ChatKeeps
  <2>4. OnName'
    BY <1>1, <2>1, <2>2 DEF OnName, Sent, Clean, Chat
  <2>5. OnBlock'
    BY <2>1 DEF OnBlock
  <2> QED BY <2>3, <2>4, <2>5 DEF Sent
<1>4. CASE txPc = "block"
  <2>1. txPc' = "blockAck" /\ T!Message[txPc] = <<T!Packet(T!STX, blkNumber, packet_data)>>
    BY <1>1, <1>4 DEF T!AwaitedBy, T!Message
  <2>2. PICK item : item = T!Packet(T!STX, blkNumber, packet_data)
    OBVIOUS
  <2>3. /\ item \in Items /\ item.ch = STX /\ item.data = packet_data
        /\ (blkNumber \in 1..255 => item.seq = blkNumber)
    <3>1. /\ blkNumber % 256 \in Nat
          /\ blkNumber \in 1..255 => blkNumber % 256 = blkNumber
      BY <1>2
    <3>2. item = [ch |-> 2, seq |-> blkNumber % 256, data |-> packet_data, sound |-> TRUE]
      BY <2>2 DEF T!Packet, T!STX
    <3> QED BY <1>2, <3>1, <3>2 DEF STX, Items
  <2>4. OnFileData' /\ OnName'
    BY <1>1, <1>2, <2>1 DEF OnFileData, OnName
  <2>5. ASSUME faults' = 0
        PROVE  /\ Clean /\ toRx \in Seq(Items) /\ toRx' = toRx \o <<item>>
               /\ toRx' \in Seq(Items)
               /\ Small => /\ Ordered(toRx', fs.stored) /\ LastSent' = blkNumber
                           /\ txSize > 0 /\ blkNumber \in 1..255
                           /\ (blkNumber - 1) * PACKET_1K_SIZE + txSize = Len(fs.stored)
                           /\ "read" \notin FailingCalls =>
                                 /\ Block_of(fs.stored, blkNumber, packet_data)
                                 /\ txSize > PACKET_1K_SIZE
                                        => fs.pos = blkNumber * PACKET_1K_SIZE
    <3>1. faults = 0 /\ toRx' = toRx \o <<item>>
      BY <1>1, <2>1, <2>2, <2>5, SaidClean
    <3>2. Clean /\ toRx \in Seq(Items)
      BY <1>1, <3>1 DEF Clean, Sent, OnLine
    <3>3. <<item>> \in Seq(Items)
      BY <2>3
    <3>4. toRx' \in Seq(Items)
      BY <3>1, <3>2, <3>3
    <3>5. ASSUME Small
          PROVE  /\ Ordered(toRx', fs.stored) /\ LastSent' = blkNumber
                 /\ txSize > 0 /\ blkNumber \in 1..255
                 /\ (blkNumber - 1) * PACKET_1K_SIZE + txSize = Len(fs.stored)
                 /\ "read" \notin FailingCalls =>
                       /\ Block_of(fs.stored, blkNumber, packet_data)
                       /\ txSize > PACKET_1K_SIZE => fs.pos = blkNumber * PACKET_1K_SIZE
      <4>1. /\ txSize > 0 /\ blkNumber \in 1..255
            /\ (blkNumber - 1) * PACKET_1K_SIZE + txSize = Len(fs.stored)
            /\ LastSent \in {blkNumber - 1, blkNumber}
            /\ "read" \notin FailingCalls =>
                  /\ Block_of(fs.stored, blkNumber, packet_data)
                  /\ txSize > PACKET_1K_SIZE => fs.pos = blkNumber * PACKET_1K_SIZE
        BY <1>4, <3>2, <3>5 DEF Sent, OnBlock
      <4>2. item.seq = blkNumber
        BY <2>3, <4>1
      <4>3. item.seq \in {LastIn(toRx, Places(toRx)), LastIn(toRx, Places(toRx)) + 1} \ {0}
        <5>1. PICK last \in {blkNumber - 1, blkNumber} : last = LastSent
          BY <4>1
        <5>2. blkNumber \in {last, last + 1} \ {0}
          BY <4>1, <5>1
        <5> QED BY <4>2, <5>1, <5>2 DEF LastSent
      <4>4. Fits(fs.stored, item.seq, item.data)
        BY <2>3, <4>1, <4>2 DEF Fits
      <4>5. Ordered(toRx, fs.stored)
        BY <3>2, <3>5 DEF Sent, OnLine
      <4>6. Ordered(toRx', fs.stored) /\ LastSent' = item.seq
        BY <2>3, <3>1, <3>2, <4>3, <4>4, <4>5, BlockAppend DEF LastSent
      <4> QED BY <4>1, <4>2, <4>6
    <3> QED BY <3>1, <3>2, <3>4, <3>5
  <2>6. OnLine'
    BY <1>1, <2>1, <2>5 DEF OnLine, Clean, Small
  <2>7. OnBlock'
    BY <1>1, <2>1, <2>5 DEF OnBlock, Clean, Small
  <2> QED BY <2>4, <2>6, <2>7 DEF Sent
<1> QED BY <1>3, <1>4

(* What an answer does, or none.                                           *)
LEMMA ActSent ==
    ASSUME IInv, Counts, Sent, Ymodem_Transmit, txPc \in DOMAIN T!Awaited,
           NEW response, T!Act(response)
    PROVE  Sent'
<1>1. /\ role = "transmit" /\ fs \in Volumes /\ faults \in 0..MaxFaults /\ txSize \in Nat
      /\ txPc \in {"nameAck", "nameC", "blockAck", "eotAck", "eotC", "lastAck"}
  BY AwaitedFacts DEF Ymodem_Transmit, IInv, Types, Counts
<1>2. fs.cache = fs.stored /\ packet_data \in Seq(Int) /\ blkNumber \in Nat
  BY <1>1 DEF Sent, OnFileData, Opened
<1>3. ASSUME txPc' = "done", Chat, UNCHANGED <<blkNumber, packet_data>>,
             NEW ok \in BOOLEAN, fs' = lfs_cleanup(fs, ok)
      PROVE  Sent'
  <2>1. fs'.stored = fs.stored
    BY <1>1, <1>2, <1>3, CleanupStored
  <2>2. OnFileData' /\ OnLine'
    BY <1>1, <1>2, <1>3, <2>1, ChatKeeps DEF Opened
  <2>3. OnName' /\ OnBlock'
    BY <1>3 DEF OnName, OnBlock
  <2> QED BY <2>2, <2>3 DEF Sent
<1>4. ASSUME NEW code, T!Fail(code, response)
      PROVE  Sent'
  <2>1. T!LastWords(response) \in Seq({T!EOT, T!CA, T!CRC16})
    <3>1. <<T!CA, T!CA, T!CA, T!CA>> \in Seq({T!EOT, T!CA, T!CRC16})
      OBVIOUS
    <3>2. <<T!CA, T!CA>> \in Seq({T!EOT, T!CA, T!CRC16})
      OBVIOUS
    <3> QED BY <3>1, <3>2 DEF T!LastWords
  <2>2. Chat
    BY <1>1, <1>4, <2>1, ControlsChat DEF T!Fail
  <2>3. PICK ok \in BOOLEAN : T!Return(code, lfs_cleanup(fs, ok))
    BY <1>4, SameCleanup, OutcomesFacts DEF T!Fail
  <2> QED BY <1>3, <2>2, <2>3 DEF T!Return
<1>5. ASSUME UNCHANGED <<toRx, faults, fs, packet_data>>, blkNumber' \in Nat,
             txPc' \in {"nameC", "name"} => txPc = "nameAck" /\ UNCHANGED txSize,
             txPc' \notin {"nameAck", "blockAck", "done", "off", "poll", "pollWait", "open"},
             OnBlock'
      PROVE  Sent'
  <2>1. Chat
    BY <1>5, SilentChat
  <2>2. OnFileData' /\ OnLine'
    BY <1>1, <1>2, <1>5, <2>1, ChatKeeps
  <2>3. OnName'
    BY <1>1, <1>5 DEF OnName, Sent, Clean
  <2> QED BY <1>5, <2>2, <2>3 DEF Sent
<1>6. CASE T!GoOn
  <2>1. UNCHANGED <<toRx, faults, packet_data>>
    BY <1>6 DEF T!GoOn
  <2>2. CASE txPc \in {"nameAck", "eotAck", "eotC"}
    <3>1. txPc' \in {"nameC", "eotC", "last"} /\ UNCHANGED <<fs, blkNumber, txSize>>
          /\ (txPc' = "nameC" => txPc = "nameAck")
      BY <1>6, <2>2 DEF T!GoOn
    <3> QED BY <1>2, <1>5, <2>1, <3>1 DEF OnBlock
  <2>3. CASE txPc = "nameC"
    <3>1. blkNumber' = 1 /\ txPc' = (IF txSize = 0 THEN "eot" ELSE "prepare")
          /\ UNCHANGED <<txSize, fs>>
      BY <1>6, <2>3 DEF T!GoOn
    <3>2. OnBlock'
      <4> SUFFICES ASSUME txPc' = "prepare", faults' = 0
                   PROVE  /\ txSize > 0 /\ blkNumber' \in 1..255
                          /\ (blkNumber' - 1) * PACKET_1K_SIZE + txSize = Len(fs.stored)
                          /\ LastSent' = blkNumber' - 1
                          /\ fs.pos = (blkNumber' - 1) * PACKET_1K_SIZE
        BY <3>1 DEF OnBlock, Clean
      <4>1. Clean
        BY <1>1, <2>1 DEF Clean
      <4>2. Places(toRx) = {} /\ txSize = Len(fs.stored) /\ fs.pos = 0
        BY <2>3, <4>1 DEF Sent, OnLine, OnName
      <4>3. LastSent' = 0
        BY <2>1, <4>2 DEF LastSent, LastIn
      <4>4. (1 - 1) * PACKET_1K_SIZE = 0 /\ txSize > 0
        BY <1>1, <3>1, PacketAssumption
      <4> QED BY <1>1, <3>1, <4>2, <4>3, <4>4
    <3> QED BY <1>5, <2>1, <3>1, <3>2
  <2>4. CASE txPc = "blockAck"
    <3>1. blkNumber' = blkNumber + 1 /\ txSize' = T!Left
          /\ txPc' = (IF T!Left = 0 THEN "eot" ELSE "prepare")
          /\ UNCHANGED fs
      BY <1>6, <2>4 DEF T!GoOn
    <3>2. OnBlock'
      <4> SUFFICES ASSUME txPc' = "prepare", faults' = 0, Small
                   PROVE  /\ txSize' > 0 /\ blkNumber' \in 1..255
                          /\ (blkNumber' - 1) * PACKET_1K_SIZE + txSize' = Len(fs.stored)
                          /\ LastSent' = blkNumber' - 1
                          /\ "read" \notin FailingCalls =>
                                 fs.pos = (blkNumber' - 1) * PACKET_1K_SIZE
        BY <3>1 DEF OnBlock, Clean, Small
      <4>1. Clean
        BY <1>1, <2>1 DEF Clean
      <4>2. /\ blkNumber \in 1..255
            /\ (blkNumber - 1) * PACKET_1K_SIZE + txSize = Len(fs.stored)
            /\ LastSent = blkNumber
            /\ "read" \notin FailingCalls =>
                  (txSize > PACKET_1K_SIZE => fs.pos = blkNumber * PACKET_1K_SIZE)
        BY <2>4, <4>1 DEF Sent, OnBlock
      <4>3. PACKET_1K_SIZE \in Nat /\ PACKET_1K_SIZE > 0
        BY PacketAssumption
      <4>4. txSize > PACKET_1K_SIZE /\ txSize' = txSize - PACKET_1K_SIZE
        BY <1>1, <3>1, <4>3 DEF T!Left
      <4>5. blkNumber' - 1 = blkNumber /\ LastSent' = blkNumber' - 1
        <5>1. LastSent' = LastSent
          BY <2>1 DEF LastSent
        <5> QED BY <1>2, <3>1, <4>2, <5>1
      <4>6. blkNumber * PACKET_1K_SIZE + txSize' = Len(fs.stored)
        <5>1. /\ blkNumber * PACKET_1K_SIZE = (blkNumber - 1) * PACKET_1K_SIZE + PACKET_1K_SIZE
              /\ (blkNumber - 1) * PACKET_1K_SIZE \in Int
          BY <1>2, <4>3, ProductFacts
        <5> QED BY <1>1, <4>2, <4>3, <4>4, <5>1
      <4>7. blkNumber < 255
        <5>1. blkNumber * PACKET_1K_SIZE \in Nat /\ 255 * PACKET_1K_SIZE \in Nat
          BY <1>2, <4>3
        <5>2. Len(fs.stored) <= 255 * PACKET_1K_SIZE /\ txSize' > 0 /\ txSize' \in Int
          BY <1>1, <4>3, <4>4 DEF Small
        <5>3. blkNumber * PACKET_1K_SIZE < 255 * PACKET_1K_SIZE
          BY <4>6, <5>1, <5>2
        <5> QED BY <1>2, <5>3, ProductFacts
      <4>8. txSize' > 0 /\ blkNumber' \in 1..255
        BY <1>1, <3>1, <4>2, <4>3, <4>4, <4>7
      <4> QED BY <4>2, <4>4, <4>5, <4>6, <4>8
    <3> QED BY <1>2, <1>5, <2>1, <3>1, <3>2
  <2>5. CASE txPc = "lastAck"
    <3>1. PICK ok \in BOOLEAN : fs' = lfs_cleanup(fs, ok)
      BY <1>6, <2>5, SameCleanup, OutcomesFacts DEF T!GoOn
    <3>2. txPc' = "done" /\ UNCHANGED blkNumber
      BY <1>6, <2>5 DEF T!GoOn
    <3> QED BY <1>3, <2>1, <3>1, <3>2, SilentChat
  <2> QED BY <1>1, <2>2, <2>3, <2>4, <2>5
<1>7. CASE txPc \in T!Resendable /\ T!SendAgain
  <2>1. UNCHANGED <<toRx, faults, blkNumber, txSize, packet_data, fs>>
        /\ txPc' = CHOOSE m \in DOMAIN T!AwaitedBy : T!AwaitedBy[m] = txPc
    BY <1>7 DEF T!SendAgain
  <2>2. \E m \in DOMAIN T!AwaitedBy : T!AwaitedBy[m] = txPc
    BY <1>7 DEF T!Resendable
  <2>3. txPc' \in DOMAIN T!AwaitedBy /\ T!AwaitedBy[txPc'] = txPc
    BY <2>1, <2>2
  <2>4. /\ txPc' \in {"name", "block", "eot", "last"}
        /\ txPc' = "name" => txPc = "nameAck"
        /\ txPc' = "block" => txPc = "blockAck"
    BY <2>3 DEF T!AwaitedBy
  <2>5. OnBlock'
    <3>1. CASE txPc' # "block"
      BY <2>4, <3>1 DEF OnBlock
    <3>2. CASE txPc' = "block"
      <4>1. txPc = "blockAck" /\ LastSent' = LastSent
        BY <2>1, <2>4, <3>2 DEF LastSent
      <4> QED BY <1>1, <2>1, <3>2, <4>1 DEF Sent, OnBlock, Clean, Small
    <3> QED BY <3>1, <3>2
  <2> QED BY <1>2, <1>5, <2>1, <2>4, <2>5
<1> QED BY <1>4, <1>6, <1>7 DEF T!Act

(* The file is opened, or the transmission ends without it.                *)
LEMMA OpenSent ==
    ASSUME IInv, Counts, Sent, Ymodem_Transmit, T!OpenFile
    PROVE  Sent'
<1>1. /\ role = "transmit" /\ txPc = "open" /\ faults \in 0..MaxFaults /\ fs \in Volumes /\ ~fs.broken
      /\ packet_data \in Seq(Int) /\ blkNumber \in Nat
  BY DEF Ymodem_Transmit, T!OpenFile, Counts, Sent, OnFileData, IInv, Living, Types
<1>2. CASE txPc' = "done"
  <2>1. T!Say(T!Controls(<<T!CA, T!CA>>)) /\ UNCHANGED <<blkNumber, packet_data>>
    BY <1>2 DEF T!OpenFile, T!Return
  <2>2. OnFileData' /\ OnLine'
    BY <1>1, <1>2, <2>1, AbortChat, ChatKeeps DEF Opened
  <2>3. OnName' /\ OnBlock'
    BY <1>2 DEF OnName, OnBlock
  <2> QED BY <2>2, <2>3 DEF Sent
<1>3. CASE txPc' # "done"
  <2>1. TxOpen
    BY OpenFileFacts DEF IInv
  <2>2. PICK ok \in BOOLEAN :
            /\ Open(fs, ok).ret /\ txPc' = "name"
            /\ fs' = OpenAndKept(fs, ok) /\ txSize' = Len(fs'.stored)
    BY <1>3, <2>1 DEF TxOpen
  <2>3. UNCHANGED <<toRx, faults, blkNumber>> /\ packet_data' = <<txSize'>>
    BY <2>2 DEF T!OpenFile, T!Return
  <2>4. fs'.cache = fs'.stored /\ fs'.pos = 0
    BY <1>1, <2>2, KeptStored
  <2>5. packet_data' \in Seq(Int)
    <3>1. txSize' \in Nat
      BY TransmitFacts DEF IInv, Ymodem_Transmit
    <3> QED BY <2>3, <3>1
  <2>6. OnFileData' /\ OnLine'
    BY <1>1, <2>2, <2>3, <2>4, <2>5, SilentChat, ChatKeeps
  <2>7. OnName' /\ OnBlock'
    BY <2>2, <2>4 DEF OnName, OnBlock
  <2> QED BY <2>6, <2>7 DEF Sent
<1> QED BY <1>2, <1>3

(* Every step of Ymodem_Transmit.                                          *)
LEMMA TransmitSent ==
    ASSUME IInv, Counts, Sent, Ymodem_Transmit
    PROVE  Sent'
<1>1. /\ role = "transmit" /\ faults \in 0..MaxFaults
      /\ packet_data \in Seq(Int) /\ blkNumber \in Nat
  BY DEF Ymodem_Transmit, Counts, Sent, OnFileData
<1>2. ASSUME Chat, txPc \in {"off", "poll", "pollWait"},
             txPc' \in {"off", "poll", "pollWait", "open", "done"},
             UNCHANGED <<packet_data, blkNumber>>
      PROVE  Sent'
  <2>1. OnFileData' /\ OnLine'
    BY <1>1, <1>2, ChatKeeps DEF Opened
  <2>2. OnName' /\ OnBlock'
    BY <1>2 DEF OnName, OnBlock
  <2> QED BY <2>1, <2>2 DEF Sent
<1>3. CASE T!Start
  BY <1>2, <1>3, SilentChat DEF T!Start
<1>4. CASE T!Poll
  <2>1. <<T!CRC16>> \in Seq({T!EOT, T!CA, T!CRC16})
    OBVIOUS
  <2>2. Chat
    BY <1>1, <1>4, <2>1, ControlsChat DEF T!Poll
  <2> QED BY <1>2, <1>4, <2>2 DEF T!Poll
<1>5. CASE T!PollTimeout
  BY <1>1, <1>2, <1>5, SilentChat, AbortChat DEF T!PollTimeout, T!Return
<1>6. CASE T!PollAnswer
  BY <1>1, <1>2, <1>6, SilentChat, AbortChat DEF T!PollAnswer, T!Return
<1>7. CASE T!Unanswered /\ waited + 1 < Tries
  <2>1. UNCHANGED <<toRx, faults, txPc, blkNumber, txSize, packet_data, fs>> /\ role' = role
    BY <1>7 DEF T!Unanswered, Ymodem_Transmit
  <2> QED BY <2>1 DEF Sent, OnFileData, OnLine, OnName, OnBlock, Clean, Small, LastSent
<1>8. CASE T!Answered
  BY <1>8, ActSent DEF T!Answered
<1>9. CASE T!Unanswered /\ ~(waited + 1 < Tries)
  BY <1>9, ActSent DEF T!Unanswered
<1> QED BY <1>3, <1>4, <1>5, <1>6, <1>7, <1>8, <1>9, OpenSent, PrepareSent, SendSent
        DEF Ymodem_Transmit, T!Next

(* The other steps: nothing is on the line when a transmission begins.     *)
LEMMA OthersSent ==
    ASSUME IInv, Counts, Sent,
           User \/ FuncYmodemRx \/ FuncYmodemSend \/ Ymodem_Receive \/ Over \/ Peer
    PROVE  Sent'
<1>1. packet_data \in Seq(Int) /\ blkNumber \in Nat
  BY DEF Sent, OnFileData
<1>2. ASSUME role' # "transmit", txPc' = "off" \/ txPc' = "done",
             packet_data' \in Seq(Int), blkNumber' \in Nat
      PROVE  Sent'
  BY <1>2 DEF Sent, OnFileData, OnLine, OnName, OnBlock, Clean, Opened
<1>3. CASE User
  <2>1. PICK volume : Command(volume)
    BY <1>3 DEF User, FuncLfsFormat, FuncLfsMount, FuncLfsUmount, FuncLfsLs, FuncLfsMkdir,
       FuncLfsMv, FuncLfsRm, FuncLfsFopen, FuncLfsWrite, FuncLfsRead, FuncLfsFclose
  <2>2. role' = "user" /\ txPc' = "off" /\ UNCHANGED <<packet_data, blkNumber>>
    BY <2>1 DEF Command, txLocals, IInv, Roles
  <2> QED BY <1>1, <1>2, <2>2
<1>4. CASE FuncYmodemRx
  <2>1. role' = "receive" /\ txPc' = "off" /\ UNCHANGED <<packet_data, blkNumber>>
    BY <1>4 DEF FuncYmodemRx, Begin, txLocals, IInv, Roles
  <2> QED BY <1>1, <1>2, <2>1
<1>5. CASE FuncYmodemSend
  <2>1. /\ role' = "transmit" /\ txPc' = "poll" /\ toRx' = <<>>
        /\ UNCHANGED <<packet_data, blkNumber>>
    BY <1>5 DEF FuncYmodemSend, Begin, T!Start, Counts
  <2>2. toRx' \in Seq(Items) /\ Places(toRx') = {}
    BY <2>1 DEF Places
  <2> QED BY <1>1, <2>1, <2>2 DEF Sent, OnFileData, OnLine, OnName, OnBlock, Opened, Ordered
<1>6. CASE Ymodem_Receive
  <2>1. role' = "receive" /\ txPc' = "off" /\ UNCHANGED <<packet_data, blkNumber>>
    BY <1>6 DEF Ymodem_Receive, txLocals, IInv, Roles
  <2> QED BY <1>1, <1>2, <2>1
<1>7. CASE Over
  <2>1. role' = "user" /\ txPc' = "off" /\ packet_data' = <<>> /\ blkNumber' = 0
    BY <1>7 DEF Over
  <2> QED BY <1>2, <2>1, EmptyFacts
<1>8. CASE \E item \in Utterances : SenderSays(item)
  <2>1. role' = "receive" /\ txPc' = "off" /\ UNCHANGED <<packet_data, blkNumber>>
    BY <1>8 DEF SenderSays, txLocals, IInv, Roles
  <2> QED BY <1>1, <1>2, <2>1
<1>9. CASE \E c \in Answers : HostSays(c)
  <2>1. /\ role' = role
        /\ UNCHANGED <<toRx, faults, txPc, blkNumber, txSize, packet_data, fs>>
    BY <1>9 DEF HostSays, txLocals
  <2> QED BY <2>1 DEF Sent, OnFileData, OnLine, OnName, OnBlock, Clean, Small, LastSent
<1> QED BY <1>3, <1>4, <1>5, <1>6, <1>7, <1>8, <1>9 DEF Peer

(* What has been sent, in every state.                                     *)
LEMMA SentInvariance == Spec => []Sent
<1>1. Init => Sent
  BY EmptyFacts DEF Init, T!Init, Sent, OnFileData, OnLine, OnName, OnBlock, Clean, Opened
<1>2. IInv /\ Counts /\ Sent /\ [Next]_vars => Sent'
  <2>1. Sent /\ UNCHANGED vars => Sent'
    BY DEF vars, line, txLocals, Sent, OnFileData, OnLine, OnName, OnBlock, Clean, Small, LastSent
  <2>2. IInv /\ Counts /\ Sent /\ Next => Sent'
    BY TransmitSent, OthersSent DEF Next, Transfer
  <2> QED BY <2>1, <2>2
<1> QED BY <1>1, <1>2, Invariance, Counted, PTL DEF Spec

(* Whatever is answered, repeated or refused, as long as the line has      *)
(* damaged nothing: a block is sent again or the next one is sent, none is *)
(* passed over, and each has its own units of the file (ymodem.c:699-727). *)
THEOREM BlocksInOrderHolds == Spec => []BlocksInOrder
<1>1. IInv /\ Sent => BlocksInOrder
  <2> SUFFICES ASSUME IInv, Sent, role = "transmit", faults = 0,
                      Len(fs.stored) <= 255 * PACKET_1K_SIZE
               PROVE  BlocksInOrder
    BY DEF BlocksInOrder
  <2>1. Ordered(toRx, fs.stored)
    BY DEF Sent, OnLine, Clean, Small
  <2>2. DataPlaces = Places(toRx)
    BY DEF DataPlaces, Places
  <2> QED BY <2>1, <2>2 DEF BlocksInOrder, Ordered, LastIn, Fits, Block_of
<1> QED BY <1>1, Invariance, SentInvariance, PTL
===============================================================================
