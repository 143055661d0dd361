---------------------------- MODULE DiskMgrProofs ----------------------------
(***************************************************************************)
(* Theorems about DiskMgr, for any drives, any layout, any buttons and any *)
(* faults, except where a theorem names an assumption.                     *)
(***************************************************************************)
EXTENDS DiskMgr, SequenceTheorems, WellFoundedInduction, TLAPS

-----------------------------------------------------------------------------
(* Slots and sectors.                                                      *)

\* The loops that look for the first free slot find one if there is one.
LEMMA MinOfNats ==
  ASSUME NEW T \in SUBSET Nat, T # {}
  PROVE  Min(T) \in T /\ \A y \in T : Min(T) <= y
<1> DEFINE Less == {ss \in Nat \X Nat : ss[1] < ss[2]}
<1>1. IsWellFoundedOn(Less, Nat)
  BY NatLessThanWellFounded DEF OpToRel
<1> HIDE DEF Less
<1>2. PICK x \in T : \A y \in T : ~ (<<y, x>> \in Less)
  BY <1>1, WFMin
<1>3. ASSUME NEW a \in Nat, NEW b \in Nat, b < a PROVE <<b, a>> \in Less
  BY <1>3 DEF Less
<1>4. ASSUME NEW y \in T PROVE x <= y
  <2>1. x \in Nat /\ y \in Nat
    OBVIOUS
  <2>2. ~ (y < x)
    BY <1>2, <1>3, <2>1
  <2> QED
    BY <2>1, <2>2
<1>5. \E m \in T : \A y \in T : m <= y
  BY <1>4
<1> QED
  BY <1>5 DEF Min

\* The slot a handler takes is one of the directory, and free.
LEMMA SlotIsFree ==
  ASSUME NEW entries, NEW n \in 1 .. NumSlots, Free(entries, n) # {}
  PROVE  /\ Min(Free(entries, n)) \in Slots
         /\ entries[Min(Free(entries, n))].type = 0
<1>1. Free(entries, n) \in SUBSET Nat /\ Free(entries, n) \subseteq Slots
  BY LayoutAssumption DEF Free, Slots
<1>2. Min(Free(entries, n)) \in Free(entries, n)
  BY <1>1, MinOfNats
<1> QED
  BY <1>1, <1>2 DEF Free

\* The layout: the blocks of PASTE end before the sector of APP.BIN, and what
\* SAVE AS writes lies inside them.
LEMMA LayoutFits ==
  ASSUME NEW s \in Slots
  PROVE  /\ SaveLba(s) \in Nat /\ PasteLba(s) \in Nat
         /\ SaveBase <= PasteLba(s) /\ SaveBase <= SaveLba(s)
         /\ PasteLba(s) + FileSectors <= AppLba
         /\ SaveLba(s) + FileSectors <= AppLba
         /\ AppLba + FileSectors <= LastSector + 1
         /\ LastSector \in Nat /\ AppLba \in Nat /\ PkgBase \in Nat /\ SaveBase \in Nat
<1>1. s \in Nat /\ s <= NumSlots - 1 /\ NumSlots \in Nat /\ FileSectors \in Nat
      /\ FileSectors >= 1 /\ SaveBase \in Nat /\ AppLba \in Nat
      /\ LastSector \in Nat /\ PkgBase \in Nat
  BY LayoutAssumption DEF Slots
<1>2. s * FileSectors + FileSectors <= NumSlots * FileSectors
  <2>1. PICK d \in Nat : NumSlots = s + 1 + d
    BY <1>1
  <2>2. NumSlots * FileSectors = s * FileSectors + FileSectors + d * FileSectors
    BY <1>1, <2>1
  <2>3. d * FileSectors >= 0 /\ d * FileSectors \in Nat /\ s * FileSectors \in Nat
    BY <1>1
  <2> QED
    BY <1>1, <2>2, <2>3
<1>3. s <= s * FileSectors /\ s * FileSectors \in Nat
  BY <1>1
<1> QED
  BY <1>1, <1>2, <1>3, LayoutAssumption DEF SaveLba, PasteLba

\* Package sectors: the loop of INSTALL computes a number for every directory,
\* at or behind the first package sector.
LEMMA NextLbaIsSector ==
  ASSUME cfs_files \in [Slots -> Entries]
  PROVE  NextLba \in Nat /\ PkgBase <= NextLba
<1> DEFINE f(i) == cfs_files[i - 1]
           Body(g) == [i \in 0 .. NumSlots |->
                         IF i = 0 THEN PkgBase
                         ELSE IF f(i).type # 0 /\ f(i).start >= g[i - 1]
                              THEN PkgEnd(f(i)) ELSE g[i - 1]]
           next == CHOOSE g : g = Body(g)
<1>1. NextLba = next[NumSlots]
  BY DEF NextLba
<1>2. NumSlots \in Nat /\ PkgBase \in Nat
  BY LayoutAssumption
<1>3. \A i \in 1 .. NumSlots : f(i).start \in Nat /\ f(i).size \in Nat /\ f(i).type \in 0 .. 2
  BY <1>2 DEF Slots, Entries, Sectors
<1> DEFINE Good(n, g) == \A i \in 0 .. n :
             g[i] = IF i = 0 THEN PkgBase
                    ELSE IF f(i).type # 0 /\ f(i).start >= g[i - 1]
                         THEN PkgEnd(f(i)) ELSE g[i - 1]
           Bad == {n \in 0 .. NumSlots : ~ \E g \in [0 .. NumSlots -> Nat] : Good(n, g)}
<1>4. Bad = {}
  <2> SUFFICES ASSUME Bad # {} PROVE FALSE
    OBVIOUS
  <2> DEFINE n == Min(Bad)
  <2>1. n \in Bad /\ (\A m \in Bad : n <= m) /\ n \in 0 .. NumSlots
    <3>1. Bad \in SUBSET Nat /\ Bad \subseteq 0 .. NumSlots
      BY <1>2
    <3> HIDE DEF Bad
    <3> QED
      BY <3>1, MinOfNats
  <2> HIDE DEF n
  <2>2. n # 0
    <3>1. Good(0, [i \in 0 .. NumSlots |-> PkgBase])
      BY <1>2
    <3>2. [i \in 0 .. NumSlots |-> PkgBase] \in [0 .. NumSlots -> Nat]
      BY <1>2
    <3> QED
      BY <2>1, <3>1, <3>2
  <2>3. n - 1 \in 0 .. NumSlots /\ n - 1 \notin Bad
    <3> HIDE DEF Bad
    <3>1. n \in Nat /\ n - 1 \in 0 .. NumSlots /\ ~ (n <= n - 1)
      BY <1>2, <2>1, <2>2
    <3> QED
      BY <2>1, <3>1
  <2>4. PICK g \in [0 .. NumSlots -> Nat] : Good(n - 1, g)
    BY <2>3
  <2> DEFINE v == IF f(n).type # 0 /\ f(n).start >= g[n - 1] THEN PkgEnd(f(n)) ELSE g[n - 1]
             h == [g EXCEPT ![n] = v]
  <2>5. v \in Nat
    <3>1. g[n - 1] \in Nat /\ n \in 1 .. NumSlots
      BY <1>2, <2>1, <2>2, <2>3
    <3>2. f(n).start \in Nat /\ f(n).size \in Nat
      BY <1>3, <3>1
    <3> HIDE DEF f
    <3> QED
      BY <3>1, <3>2 DEF PkgEnd
  <2> HIDE DEF v
  <2>6. h \in [0 .. NumSlots -> Nat] /\ h[n] = v /\ \A i \in 0 .. n - 1 : h[i] = g[i]
    BY <2>1, <2>5
  <2> HIDE DEF h
  <2>7. Good(n, h)
    <3> SUFFICES ASSUME NEW i \in 0 .. n
                 PROVE  h[i] = IF i = 0 THEN PkgBase
                               ELSE IF f(i).type # 0 /\ f(i).start >= h[i - 1]
                                    THEN PkgEnd(f(i)) ELSE h[i - 1]
      OBVIOUS
    <3>1. CASE i = n
      BY <2>1, <2>2, <2>6, <3>1 DEF v
    <3>2. CASE i \in 0 .. n - 1
      <4>1. h[i] = g[i] /\ (i # 0 => h[i - 1] = g[i - 1])
        BY <2>1, <2>6, <3>2
      <4> QED
        BY <2>4, <3>2, <4>1
    <3> QED
      BY <2>1, <3>1, <3>2
  <2> QED
    BY <2>1, <2>6, <2>7
<1>5. next = Body(next)
  <2>1. PICK g \in [0 .. NumSlots -> Nat] : Good(NumSlots, g)
    <3>1. NumSlots \in 0 .. NumSlots
      BY <1>2
    <3> QED
      BY <1>4, <3>1
  <2>2. g = Body(g)
    BY <2>1
  <2> QED
    BY <2>2, Zenon
<1>6. Good(NumSlots, next)
  <2> SUFFICES ASSUME NEW i \in 0 .. NumSlots
               PROVE  next[i] = IF i = 0 THEN PkgBase
                                ELSE IF f(i).type # 0 /\ f(i).start >= next[i - 1]
                                     THEN PkgEnd(f(i)) ELSE next[i - 1]
    OBVIOUS
  <2> HIDE DEF next, f
  <2>1. Body(next)[i] = IF i = 0 THEN PkgBase
                        ELSE IF f(i).type # 0 /\ f(i).start >= next[i - 1]
                             THEN PkgEnd(f(i)) ELSE next[i - 1]
    OBVIOUS
  <2> QED
    BY <1>5, <2>1
<1> HIDE DEF next
<1> DEFINE Wrong == {i \in 0 .. NumSlots : ~ (next[i] \in Nat /\ PkgBase <= next[i])}
<1>7. Wrong = {}
  <2> SUFFICES ASSUME Wrong # {} PROVE FALSE
    OBVIOUS
  <2> DEFINE n == Min(Wrong)
  <2>1. n \in Wrong /\ (\A m \in Wrong : n <= m) /\ n \in 0 .. NumSlots
    <3>1. Wrong \in SUBSET Nat /\ Wrong \subseteq 0 .. NumSlots
      BY <1>2
    <3> HIDE DEF Wrong
    <3> QED
      BY <3>1, MinOfNats
  <2> HIDE DEF n
  <2>2. n # 0
    BY <1>2, <1>6, <2>1
  <2>3. next[n - 1] \in Nat /\ PkgBase <= next[n - 1]
    BY <1>2, <2>1, <2>2
  <2>4. next[n] \in Nat /\ PkgBase <= next[n]
    BY <1>2, <1>3, <1>6, <2>1, <2>2, <2>3 DEF PkgEnd
  <2> QED
    BY <2>1, <2>4
<1> QED
  BY <1>1, <1>2, <1>7

-----------------------------------------------------------------------------
(* The queue of a handler.                                                 *)

\* Directories whose files lie on the disk, FileSectors from their first
\* sector on: what COPY relies on.
Values      == Texts \cup {Blank}
Directories == {e \in [Slots -> Entries] : \A s \in Slots :
                  e[s].type = 1 => e[s].start + FileSectors <= LastSector + 1}

Handlers == {"FORMAT", "PASTE", "+ FILE", "SAVE", "SAVE AS", "NEW FOLDER", "MKDIR",
             "INSTALL"}
Request(what, lbas, values) == [by : Handlers, what : what, lba : lbas, value : values]
Boots    == [by : {"FORMAT"}, what : {"boot"}, lba : {0}, value : {"cfs"}]
Requests == Boots \cup Request({"dir"}, {0}, Directories)
              \cup Request({"data", "said"}, Sectors, Values)

\* A queue of one handler that writes the directory at most once.
NoDir(q, h) == \A i \in DOMAIN q : q[i].by = h /\ q[i].what # "dir"
Carries(q, h, new) ==
  /\ \A i \in DOMAIN q : q[i].by = h /\ (q[i].what = "dir" => q[i].value = new)
  /\ \A i, j \in DOMAIN q : q[i].what = "dir" /\ q[j].what = "dir" => i = j
HasDir(q) == \E i \in DOMAIN q : q[i].what = "dir"

\* Every write is a request.
LEMMA WriteIsRequest ==
  ASSUME NEW h \in Handlers
  PROVE  /\ Write("FORMAT", "boot", 0, "cfs") \in Seq(Requests)
         /\ NoDir(Write("FORMAT", "boot", 0, "cfs"), "FORMAT")
         /\ \A new \in Directories : WriteDir(h, new) \in Seq(Requests)
         /\ \A what \in {"data", "said"}, lba \in Sectors, v \in Values :
              /\ Write(h, what, lba, v) \in Seq(Requests)
              /\ Write(h, what, lba, v)[1] \in Requests
              /\ NoDir(Write(h, what, lba, v), h)
<1>1. [by |-> "FORMAT", what |-> "boot", lba |-> 0, value |-> "cfs"] \in Requests
  BY DEF Requests, Boots
<1>2. \A new \in Directories :
        [by |-> h, what |-> "dir", lba |-> 0, value |-> new] \in Requests
  BY DEF Requests, Request
<1>3. \A what \in {"data", "said"}, lba \in Sectors, v \in Values :
        [by |-> h, what |-> what, lba |-> lba, value |-> v] \in Requests
  BY DEF Requests, Request
<1>4. \A what \in {"data", "said"}, lba \in Sectors, v \in Values :
        /\ Write(h, what, lba, v) \in Seq(Requests)
        /\ Write(h, what, lba, v)[1] \in Requests
        /\ NoDir(Write(h, what, lba, v), h)
  BY <1>3 DEF Write, NoDir
<1> HIDE DEF Requests
<1> QED
  BY <1>1, <1>2, <1>4 DEF Write, WriteDir, NoDir

\* Writes before the directory and after it keep it the only one.
LEMMA Around ==
  ASSUME NEW h \in Handlers, NEW new \in Directories,
         NEW a \in Seq(Requests), NEW c \in Seq(Requests), NoDir(a, h), NoDir(c, h)
  PROVE  /\ a \o WriteDir(h, new) \o c \in Seq(Requests)
         /\ Carries(a \o WriteDir(h, new) \o c, h, new)
         /\ HasDir(a \o WriteDir(h, new) \o c)
<1> DEFINE r == [by |-> h, what |-> "dir", lba |-> 0, value |-> new]
           b == WriteDir(h, new)
           q == (a \o b) \o c
<1>1. b = <<r>> /\ b \in Seq(Requests) /\ Len(b) = 1 /\ b[1] = r
  BY WriteIsRequest DEF WriteDir, Write
<1>2. r.by = h /\ r.what = "dir" /\ r.value = new
  OBVIOUS
<1> HIDE DEF b, r
<1>3. /\ a \o b \in Seq(Requests) /\ Len(a \o b) = Len(a) + 1
      /\ \A i \in 1 .. Len(a) + 1 : (a \o b)[i] = IF i <= Len(a) THEN a[i] ELSE b[i - Len(a)]
  BY <1>1, ConcatProperties
<1> DEFINE ab == a \o b
<1>4. ab \in Seq(Requests) /\ Len(ab) = Len(a) + 1
  BY <1>3
<1> HIDE DEF ab
<1>5. /\ ab \o c \in Seq(Requests) /\ Len(ab \o c) = Len(ab) + Len(c)
      /\ \A i \in 1 .. Len(ab) + Len(c) :
           (ab \o c)[i] = IF i <= Len(ab) THEN ab[i] ELSE c[i - Len(ab)]
  BY <1>4, ConcatProperties
<1>6. q = ab \o c
  BY DEF ab
<1> HIDE DEF q
<1>7. Len(a) \in Nat /\ Len(c) \in Nat /\ DOMAIN q = 1 .. Len(a) + 1 + Len(c)
      /\ DOMAIN a = 1 .. Len(a) /\ DOMAIN c = 1 .. Len(c)
  BY <1>4, <1>5, <1>6, LenProperties
<1>8. \A i \in DOMAIN q : IF i <= Len(a) THEN q[i] = a[i] /\ i \in DOMAIN a
                          ELSE IF i = Len(a) + 1 THEN q[i] = r
                          ELSE q[i] = c[i - (Len(a) + 1)] /\ i - (Len(a) + 1) \in DOMAIN c
  <2> SUFFICES ASSUME NEW i \in DOMAIN q
               PROVE  IF i <= Len(a) THEN q[i] = a[i] /\ i \in DOMAIN a
                      ELSE IF i = Len(a) + 1 THEN q[i] = r
                      ELSE q[i] = c[i - (Len(a) + 1)] /\ i - (Len(a) + 1) \in DOMAIN c
    OBVIOUS
  <2>1. q[i] = IF i <= Len(a) + 1 THEN ab[i] ELSE c[i - (Len(a) + 1)]
    BY <1>4, <1>5, <1>6, <1>7
  <2>2. i <= Len(a) + 1 => ab[i] = IF i <= Len(a) THEN a[i] ELSE b[i - Len(a)]
    BY <1>3, <1>7 DEF ab
  <2> QED
    BY <1>1, <1>7, <2>1, <2>2
<1>9. \A i \in DOMAIN q : q[i].by = h /\ (q[i].what = "dir" <=> i = Len(a) + 1)
  BY <1>2, <1>7, <1>8 DEF NoDir
<1>10. Len(a) + 1 \in DOMAIN q /\ q[Len(a) + 1] = r
  BY <1>7, <1>8
<1> QED
  BY <1>2, <1>5, <1>6, <1>9, <1>10 DEF Carries, HasDir, q, b

\* A directory alone, behind a boot sector or data, or before them.
LEMMA AroundNothing ==
  ASSUME NEW h \in Handlers, NEW new \in Directories,
         NEW a \in Seq(Requests), NoDir(a, h)
  PROVE  /\ WriteDir(h, new) \in Seq(Requests) /\ Carries(WriteDir(h, new), h, new)
         /\ HasDir(WriteDir(h, new))
         /\ a \o WriteDir(h, new) \in Seq(Requests)
         /\ Carries(a \o WriteDir(h, new), h, new)
         /\ HasDir(a \o WriteDir(h, new))
         /\ WriteDir(h, new) \o a \in Seq(Requests)
         /\ Carries(WriteDir(h, new) \o a, h, new)
         /\ HasDir(WriteDir(h, new) \o a)
<1> DEFINE b == WriteDir(h, new)
<1>1. <<>> \in Seq(Requests) /\ NoDir(<<>>, h)
  BY DEF NoDir
<1>2. b \in Seq(Requests)
  BY WriteIsRequest
<1>3. /\ <<>> \o b \o <<>> \in Seq(Requests) /\ Carries(<<>> \o b \o <<>>, h, new)
      /\ a \o b \o <<>> \in Seq(Requests) /\ Carries(a \o b \o <<>>, h, new)
      /\ <<>> \o b \o a \in Seq(Requests) /\ Carries(<<>> \o b \o a, h, new)
      /\ HasDir(<<>> \o b \o <<>>) /\ HasDir(a \o b \o <<>>) /\ HasDir(<<>> \o b \o a)
  BY <1>1, Around
<1>4. a \o b \in Seq(Requests)
  BY <1>2, ConcatProperties
<1> HIDE DEF b
<1>5. <<>> \o b = b /\ b \o <<>> = b /\ (a \o b) \o <<>> = a \o b
  BY <1>2, <1>4, ConcatEmptySeq
<1> QED
  BY <1>3, <1>5 DEF b

\* Writes of sectors one after the other.
LEMMA SectorsThenSectors ==
  ASSUME NEW h, NEW a \in Seq(Requests), NEW c \in Seq(Requests), NoDir(a, h), NoDir(c, h)
  PROVE  a \o c \in Seq(Requests) /\ NoDir(a \o c, h)
<1>1. /\ a \o c \in Seq(Requests) /\ Len(a \o c) = Len(a) + Len(c)
      /\ \A i \in 1 .. Len(a) + Len(c) :
           (a \o c)[i] = IF i <= Len(a) THEN a[i] ELSE c[i - Len(a)]
  BY ConcatProperties
<1>2. /\ DOMAIN (a \o c) = 1 .. Len(a) + Len(c)
      /\ Len(a) \in Nat /\ Len(c) \in Nat
      /\ DOMAIN a = 1 .. Len(a) /\ DOMAIN c = 1 .. Len(c)
  BY <1>1, LenProperties
<1> DEFINE q == a \o c
<1>3. \A i \in DOMAIN q : \/ i \in DOMAIN a /\ q[i] = a[i]
                          \/ i - Len(a) \in DOMAIN c /\ q[i] = c[i - Len(a)]
  BY <1>1, <1>2
<1> HIDE DEF q
<1>4. NoDir(q, h)
  BY <1>3 DEF NoDir
<1> QED
  BY <1>1, <1>4 DEF q

\* A run of sectors.
LEMMA RunOfSectors ==
  ASSUME NEW h \in Handlers, NEW what \in {"data", "said"}, NEW n \in Nat,
         NEW lba \in Nat, lba + n <= LastSector + 1, NEW v \in [1 .. n -> Values]
  PROVE  LET q == [k \in 1 .. n |-> Write(h, what, lba + k - 1, v[k])[1]]
         IN  q \in Seq(Requests) /\ NoDir(q, h)
<1> DEFINE q == [k \in 1 .. n |-> Write(h, what, lba + k - 1, v[k])[1]]
<1>1. ASSUME NEW k \in 1 .. n
      PROVE  /\ q[k] \in Requests
             /\ q[k].by = h /\ q[k].what = what
  <2>1. lba + k - 1 \in Sectors
    BY LayoutAssumption DEF Sectors
  <2>2. q[k] \in Requests
    BY <2>1, WriteIsRequest
  <2> QED
    BY <2>2 DEF Write
<1> HIDE DEF q
<1>2. q \in [1 .. n -> Requests] /\ DOMAIN q = 1 .. n
  BY <1>1 DEF q
<1>3. q \in Seq(Requests)
  BY <1>2, SeqDef
<1>4. NoDir(q, h)
  BY <1>1, <1>2 DEF NoDir
<1> QED
  BY <1>3, <1>4 DEF q

-----------------------------------------------------------------------------
(* Types.                                                                  *)

\* The queue is one handler's and writes the directory once, and every
\* directory on a disk, in RAM or on its way lies on the disk.
QueueOK == /\ writes \in Seq(Requests)
           /\ \E h, new : Carries(writes, h, new)
DirsOK  == /\ dir \in [Drives -> Directories]
           /\ cfs_files \in Directories /\ buf_dir \in Directories
TypeInv == TypeOK /\ QueueOK /\ DirsOK

\* What the handlers that make an entry write: the directory they read, with the
\* entry x in a slot that was free in it, or nothing.
Puts(h, entries, slot, x) ==
  /\ here # NoDrive /\ slot \in Slots /\ entries[slot].type = 0
  /\ x \in Entries /\ x.type # 0
  /\ HasDir(writes') /\ Carries(writes', h, [entries EXCEPT ![slot] = x])
PutsNothing == writes' = <<>> /\ (here # NoDrive => UNCHANGED cfs_files)
PutsOnly    == \A i \in DOMAIN writes' : writes'[i].what = "dir"

FileSystems == {"cfs", "fat", "ntfs", "raw"}

\* The entries the handlers make.
LEMMA EntryFits ==
  ASSUME NEW p \in Slots \cup {Root}
  PROVE  /\ Entry(0, 0, 0, p) \in Entries /\ Entry(2, 0, 0, p) \in Entries
         /\ Entry(0, 0, 0, 0) \in Entries
         /\ Entry(1, Foreign, FileSectors, p) \in Entries
         /\ \A s \in Slots : /\ Entry(1, SaveLba(s), FileSectors, p) \in Entries
                             /\ Entry(1, PasteLba(s), FileSectors, p) \in Entries
<1>1. 0 \in Slots /\ FileSectors \in Nat
  BY LayoutAssumption DEF Slots
<1>2. 0 \in Sectors /\ Foreign \in Sectors
  BY <1>1, LayoutFits, LayoutAssumption DEF Sectors, Foreign
<1>3. \A s \in Slots : SaveLba(s) \in Sectors /\ PasteLba(s) \in Sectors
  <2> SUFFICES ASSUME NEW s \in Slots PROVE SaveLba(s) \in Sectors /\ PasteLba(s) \in Sectors
    OBVIOUS
  <2> QED
    BY <1>1, LayoutFits, LayoutAssumption DEF Sectors
<1> QED
  BY <1>1, <1>2, <1>3 DEF Entry, Entries

\* The directories the handlers make.
LEMMA DirectoriesClosed ==
  /\ ZeroDir \in Directories /\ NoFiles \in Directories
  /\ \A e \in Directories : Copied(e) \in Directories
  /\ \A p \in Slots \cup {Root} : \A b : Listing(p, b) \in Directories
  /\ \A e \in Directories, x \in Entries, s \in Slots :
       (x.type = 1 => x.start + FileSectors <= LastSector + 1)
         => [e EXCEPT ![s] = x] \in Directories
<1>1. \A p \in Slots \cup {Root} : Entry(0, 0, 0, p) \in Entries /\ Entry(0, 0, 0, p).type = 0
  BY EntryFits DEF Entry
<1>2. Entry(0, 0, 0, 0) \in Entries /\ Entry(0, 0, 0, 0).type = 0
  BY EntryFits DEF Entry
<1>3. ZeroDir \in Directories /\ NoFiles \in Directories
  BY <1>1, <1>2 DEF ZeroDir, NoFiles, Directories
<1>4. ASSUME NEW e \in Directories PROVE Copied(e) \in Directories
  BY <1>3 DEF Copied, Directories
<1>5. ASSUME NEW p \in Slots \cup {Root}, NEW b PROVE Listing(p, b) \in Directories
  <2>1. Entry(2, 0, 0, p) \in Entries /\ Entry(2, 0, 0, p).type = 2
    BY EntryFits DEF Entry
  <2>2. /\ Entry(1, Foreign, FileSectors, p) \in Entries
        /\ Entry(1, Foreign, FileSectors, p).start + FileSectors <= LastSector + 1
    <3>1. 0 \in Slots
      BY LayoutAssumption DEF Slots
    <3> QED
      BY <3>1, EntryFits, LayoutFits DEF Entry, Foreign
  <2>3. Entry(0, 0, 0, Root) \in Entries /\ Entry(0, 0, 0, Root).type = 0
    BY <1>1
  <2> QED
    BY <1>3, <2>1, <2>2, <2>3 DEF Listing, Directories
<1>6. ASSUME NEW e \in Directories, NEW x \in Entries, NEW s \in Slots,
             x.type = 1 => x.start + FileSectors <= LastSector + 1
      PROVE  [e EXCEPT ![s] = x] \in Directories
  BY <1>6 DEF Directories
<1> QED
  BY <1>3, <1>4, <1>5, <1>6

\* A file that is made where a handler puts it lies on the disk.
LEMMA FilesFit ==
  ASSUME NEW s \in Slots, NEW p \in Slots \cup {Root}
  PROVE  /\ Entry(1, SaveLba(s), FileSectors, p).start + FileSectors <= LastSector + 1
         /\ Entry(1, PasteLba(s), FileSectors, p).start + FileSectors <= LastSector + 1
         /\ Entry(2, 0, 0, p).type = 2
         /\ \A x \in Entries : /\ App(x) \in Entries
                               /\ App(x).start + FileSectors <= LastSector + 1
<1>1. FileSectors \in Nat /\ AppLba \in Sectors /\ AppLba + FileSectors <= LastSector + 1
  BY LayoutFits, LayoutAssumption DEF Sectors
<1>2. /\ SaveLba(s) + FileSectors <= LastSector + 1
      /\ PasteLba(s) + FileSectors <= LastSector + 1
  BY LayoutFits, LayoutAssumption
<1>3. ASSUME NEW x \in Entries
      PROVE  App(x) \in Entries /\ App(x).start + FileSectors <= LastSector + 1
  <2>1. App(x) = [type |-> 1, start |-> AppLba, size |-> FileSectors, parent |-> x.parent]
    BY DEF App, Entry
  <2>2. 1 \in 0 .. 2 /\ x.parent \in Slots \cup {Root}
    BY DEF Entries
  <2>3. App(x) \in Entries
    BY <1>1, <2>1, <2>2 DEF Entries
  <2>4. App(x).start = AppLba
    BY <2>1
  <2> QED
    BY <1>1, <2>3, <2>4
<1>4. /\ Entry(1, SaveLba(s), FileSectors, p).start = SaveLba(s)
      /\ Entry(1, PasteLba(s), FileSectors, p).start = PasteLba(s)
      /\ Entry(2, 0, 0, p).type = 2
  BY DEF Entry
<1> QED
  BY <1>2, <1>3, <1>4

\* Reads of well typed sectors are well typed.
LEMMA ReadsDirectories ==
  ASSUME TypeInv, NEW before \in Directories
  PROVE  Reads(dir, before) \subseteq Directories
  BY DEF TypeInv, TypeOK, DirsOK, Reads, here

\* Power on.
LEMMA InitTypeInv == Kinds \subseteq FileSystems => (Init => TypeInv)
<1> SUFFICES ASSUME Kinds \subseteq FileSystems, Init PROVE TypeInv
  OBVIOUS
<1>1. ZeroDir \in Directories /\ NoFiles \in Directories
  BY DirectoriesClosed
<1>2. DirsOK
  BY <1>1 DEF Init, DirsOK
<1>3. QueueOK
  <2>1. Carries(<<>>, "FORMAT", ZeroDir)
    BY DEF Carries
  <2> QED
    BY <2>1 DEF Init, QueueOK
<1>4. TypeOK
  <2>1. fs \in [Drives -> FileSystems]
    BY DEF Init
  <2>2. dir \in [Drives -> [Slots -> Entries]] /\ cfs_files \in [Slots -> Entries]
        /\ buf_dir \in [Slots -> Entries]
    BY <1>2 DEF DirsOK, Directories
  <2>3. 0 \in Sectors
    BY LayoutAssumption DEF Sectors
  <2>4. file_ram \in [0 .. FileSectors - 1 -> Texts \cup {Blank}]
    BY DEF Init, ZeroFile
  <2>5. /\ data \in [Drives -> [Sectors -> Texts \cup {Blank}]]
        /\ said \in [Drives -> [Sectors -> Texts \cup {Blank}]]
    BY DEF Init, ZeroSectors
  <2> QED
    BY <2>1, <2>2, <2>3, <2>4, <2>5 DEF Init, TypeOK, FileSystems, Idle
<1> QED
  BY <1>2, <1>3, <1>4 DEF TypeInv

-----------------------------------------------------------------------------
(* Types, step by step.                                                    *)

\* One sector less to write.
LEMMA TailOfQueue ==
  ASSUME QueueOK, ~Idle
  PROVE  /\ Head(writes) = writes[1] /\ 1 \in DOMAIN writes /\ Head(writes) \in Requests
         /\ Tail(writes) \in Seq(Requests)
         /\ \A i \in DOMAIN Tail(writes) :
              i + 1 \in DOMAIN writes /\ i + 1 # 1 /\ Tail(writes)[i] = writes[i + 1]
         /\ \A h, new : Carries(writes, h, new) => Carries(Tail(writes), h, new)
<1>1. writes \in Seq(Requests) /\ writes # <<>>
  BY DEF QueueOK, Idle
<1>2. /\ Head(writes) = writes[1] /\ 1 \in DOMAIN writes /\ Head(writes) \in Requests
      /\ Tail(writes) \in Seq(Requests)
      /\ Len(writes) \in Nat /\ Len(Tail(writes)) = Len(writes) - 1
      /\ \A i \in 1 .. Len(Tail(writes)) : Tail(writes)[i] = writes[i + 1]
      /\ DOMAIN writes = 1 .. Len(writes)
      /\ DOMAIN Tail(writes) = 1 .. Len(Tail(writes))
  BY <1>1, HeadTailProperties, LenProperties
<1> DEFINE t == Tail(writes)
<1>3. \A i \in DOMAIN t : /\ i + 1 \in DOMAIN writes /\ i + 1 # 1 /\ t[i] = writes[i + 1]
                          /\ i \in Nat
  BY <1>2
<1> HIDE DEF t
<1>4. ASSUME NEW h, NEW new, Carries(writes, h, new) PROVE Carries(t, h, new)
  BY <1>3, <1>4 DEF Carries
<1> QED
  BY <1>2, <1>3, <1>4 DEF t

\* One sector reaches the disk.
LEMMA WriteSectorType == TypeInv /\ write_sector => TypeInv'
<1> SUFFICES ASSUME TypeInv, write_sector PROVE TypeInv'
  OBVIOUS
<1> DEFINE w == Head(writes)
<1>1. QueueOK /\ ~Idle /\ here \in Drives
  BY DEF TypeInv, TypeOK, write_sector, here
<1>2. w \in Requests /\ QueueOK'
  BY <1>1, TailOfQueue DEF write_sector, QueueOK
<1>3. w.what = "dir" => w.value \in Directories
  BY <1>2 DEF Requests, Request, Boots
<1>4. w.what \in {"data", "said"} => w.lba \in Sectors /\ w.value \in Values
  BY <1>2 DEF Requests, Request, Boots
<1> HIDE DEF w
<1>5. fs' \in [Drives -> FileSystems]
  BY DEF write_sector, w, TypeInv, TypeOK, FileSystems
<1>6. dir' \in [Drives -> Directories]
  BY <1>1, <1>3 DEF write_sector, w, TypeInv, DirsOK
<1>7. data' \in [Drives -> [Sectors -> Values]]
  <2>1. data \in [Drives -> [Sectors -> Values]]
    BY DEF TypeInv, TypeOK, Values
  <2>2. CASE w.what = "data"
    <3>1. data' = [data EXCEPT ![here][w.lba] = w.value]
      BY <2>2 DEF write_sector, w
    <3> QED
      BY <1>1, <1>4, <2>1, <2>2, <3>1
  <2>3. CASE w.what # "data"
    BY <2>1, <2>3 DEF write_sector, w
  <2> QED
    BY <2>2, <2>3
<1>8. said' \in [Drives -> [Sectors -> Values]]
  <2>1. said \in [Drives -> [Sectors -> Values]]
    BY DEF TypeInv, TypeOK, Values
  <2>2. CASE w.what = "said"
    <3>1. said' = [said EXCEPT ![here][w.lba] = w.value]
      BY <2>2 DEF write_sector, w
    <3> QED
      BY <1>1, <1>4, <2>1, <2>2, <3>1
  <2>3. CASE w.what = "boot"
    <3>1. said' = [said EXCEPT ![here] = ZeroSectors]
      BY <2>3 DEF write_sector, w
    <3>2. ZeroSectors \in [Sectors -> Values]
      BY DEF ZeroSectors, Values
    <3> QED
      BY <1>1, <2>1, <3>1, <3>2
  <2>4. CASE w.what = "data" /\ w.by = "SAVE"
    <3>1. said' = [said EXCEPT ![here][w.lba] = Blank]
      BY <2>4 DEF write_sector, w
    <3>2. Blank \in Values
      BY DEF Values
    <3> QED
      BY <1>1, <1>4, <2>1, <2>4, <3>1, <3>2
  <2>5. CASE w.what \notin {"said", "boot"} /\ ~ (w.what = "data" /\ w.by = "SAVE")
    BY <2>1, <2>5 DEF write_sector, w
  <2> QED
    BY <2>2, <2>3, <2>4, <2>5
<1>9. UNCHANGED <<selected_drive_idx, mount, explorer, cfs_files, buf_dir, buffers, notepad>>
  BY DEF write_sector
<1>10. DirsOK'
  BY <1>6, <1>9 DEF TypeInv, DirsOK
<1>11. dir' \in [Drives -> [Slots -> Entries]]
  BY <1>6 DEF Directories
<1> QED
  BY <1>1, <1>2, <1>5, <1>7, <1>8, <1>9, <1>10, <1>11 DEF TypeInv, TypeOK, mount,
     explorer, buffers, notepad, Values, FileSystems, here

\* A sector is lost.
LEMMA LoseSectorType == TypeInv /\ lose_sector => TypeInv'
<1> SUFFICES ASSUME TypeInv, lose_sector PROVE TypeInv'
  OBVIOUS
<1>1. QueueOK /\ ~Idle /\ here \in Drives
  BY DEF TypeInv, TypeOK, lose_sector, here
<1>2. QueueOK'
  <2>1. CASE writes' = <<>>
    <3>1. Carries(<<>>, "FORMAT", ZeroDir)
      BY DEF Carries
    <3> QED
      BY <2>1, <3>1 DEF QueueOK
  <2>2. CASE writes' = Tail(writes)
    BY <1>1, <2>2, TailOfQueue DEF QueueOK
  <2> QED
    BY <2>1, <2>2 DEF lose_sector
<1>3. UNCHANGED <<disk, selected_drive_idx, mount, explorer, cfs_files, buf_dir,
                  buffers, notepad>>
  BY DEF lose_sector
<1> QED
  BY <1>1, <1>2, <1>3 DEF TypeInv, TypeOK, DirsOK, disk, mount, explorer, buffers,
     notepad, here

\* A power failure.
LEMMA CrashType == TypeInv /\ crash => TypeInv'
<1> SUFFICES ASSUME TypeInv, crash PROVE TypeInv'
  OBVIOUS
<1>1. ZeroDir \in Directories /\ NoFiles \in Directories
  BY DirectoriesClosed
<1>2. QueueOK'
  <2>1. Carries(<<>>, "FORMAT", ZeroDir)
    BY DEF Carries
  <2> QED
    BY <2>1 DEF crash, QueueOK
<1>3. DirsOK'
  BY <1>1 DEF crash, TypeInv, DirsOK, disk
<1>4. 0 \in Sectors /\ file_ram' \in [0 .. FileSectors - 1 -> Texts \cup {Blank}]
  BY LayoutAssumption DEF Sectors, crash, ZeroFile
<1>5. /\ dir' \in [Drives -> [Slots -> Entries]] /\ cfs_files' \in [Slots -> Entries]
      /\ buf_dir' \in [Slots -> Entries]
  BY <1>3 DEF DirsOK, Directories
<1> QED
  BY <1>2, <1>3, <1>4, <1>5 DEF crash, TypeInv, TypeOK, disk, Idle

\* A handler leaves the disks alone: what is to be shown of it are the types of
\* the variables it writes.
LEMMA HandlerType ==
  ASSUME TypeInv, UNCHANGED <<disk, selected_drive_idx>>,
         QueueOK', here = NoDrive => writes' = <<>>,
         {is_mounted', is_ntfs_drive', is_fat32_drive', dsk_mgr_opened'} \subseteq BOOLEAN,
         current_folder_id' \in Slots \cup {Root},
         cfs_files' \in Directories, buf_dir' \in Directories,
         file_ram' \in [0 .. FileSectors - 1 -> Values],
         active_file_lba' \in Sectors, content' \in Values,
         save_step' \in {"closed", "choose", "file", "folder"}
  PROVE  TypeInv'
<1>1. DirsOK'
  BY DEF TypeInv, DirsOK, disk
<1>2. cfs_files' \in [Slots -> Entries] /\ buf_dir' \in [Slots -> Entries]
  BY DEF Directories
<1>3. ~Idle' => selected_drive_idx' \in Drives
  BY DEF Idle, here, TypeInv, TypeOK
<1> QED
  BY <1>1, <1>2, <1>3 DEF TypeInv, TypeOK, disk, Values

\* The types a handler starts from.
LEMMA TypesBefore ==
  ASSUME TypeInv
  PROVE  /\ {is_mounted, is_ntfs_drive, is_fat32_drive, dsk_mgr_opened} \subseteq BOOLEAN
         /\ current_folder_id \in Slots \cup {Root}
         /\ cfs_files \in Directories /\ buf_dir \in Directories
         /\ file_ram \in [0 .. FileSectors - 1 -> Values]
         /\ active_file_lba \in Sectors /\ content \in Values
         /\ save_step \in {"closed", "choose", "file", "folder"}
  BY DEF TypeInv, TypeOK, DirsOK, Values

\* A directory alone is all there is.
LEMMA DirAlone ==
  ASSUME NEW h, NEW new, Queue(WriteDir(h, new))
  PROVE  PutsOnly
<1> DEFINE r == [by |-> h, what |-> "dir", lba |-> 0, value |-> new]
<1>1. WriteDir(h, new) = <<r>> /\ r.what = "dir"
  BY DEF WriteDir, Write
<1> HIDE DEF r
<1>2. \A i \in DOMAIN <<r>> : <<r>>[i] = r
  OBVIOUS
<1>3. writes' = <<>> \/ writes' = <<r>>
  BY <1>1 DEF Queue
<1> QED
  BY <1>1, <1>2, <1>3 DEF PutsOnly

\* A handler that writes nothing keeps the queue, and Queue makes a new one.
LEMMA QueueKept ==
  ASSUME TypeInv, Idle, writes' = writes
  PROVE  QueueOK' /\ (here = NoDrive => writes' = <<>>)
  BY DEF TypeInv, QueueOK, Idle

\* A handler's queue, and nothing without a drive.
LEMMA QueueNew ==
  ASSUME NEW q \in Seq(Requests), NEW h, NEW new, Carries(q, h, new), Queue(q)
  PROVE  /\ QueueOK' /\ (here = NoDrive => writes' = <<>>)
         /\ (here # NoDrive => writes' = q) /\ Carries(writes', h, new)
<1>1. Carries(<<>>, h, new) /\ <<>> \in Seq(Requests)
  BY DEF Carries
<1>2. (here = NoDrive /\ writes' = <<>>) \/ (here # NoDrive /\ writes' = q)
  BY DEF Queue
<1>3. writes' \in Seq(Requests) /\ Carries(writes', h, new)
  BY <1>1, <1>2
<1> QED
  BY <1>2, <1>3 DEF QueueOK

\* The queue of a handler that leaves the directory alone.
LEMMA QueueLone ==
  ASSUME NEW q \in Seq(Requests), NEW h, NoDir(q, h), Queue(q)
  PROVE  /\ QueueOK' /\ (here = NoDrive => writes' = <<>>)
         /\ (here # NoDrive => writes' = q) /\ NoDir(writes', h)
<1>1. Carries(q, h, ZeroDir)
  BY DEF Carries, NoDir
<1>2. NoDir(<<>>, h)
  BY DEF NoDir
<1> QED
  BY <1>1, <1>2, QueueNew

\* View 1 and the ways in and out of the explorer.
LEMMA ExplorerTypes ==
  ASSUME TypeInv,
         \/ format \/ open_drive \/ back \/ back_to_root
         \/ \E d \in Drives : select(d)
         \/ \E s \in Slots : open_folder(s)
  PROVE  TypeInv'
<1> USE TypesBefore
<1>1. CASE format
  <2>1. /\ Write("FORMAT", "boot", 0, "cfs") \in Seq(Requests)
        /\ NoDir(Write("FORMAT", "boot", 0, "cfs"), "FORMAT") /\ "FORMAT" \in Handlers
    BY WriteIsRequest DEF Handlers
  <2>2. ZeroDir \in Directories /\ NoFiles \in Directories
    BY DirectoriesClosed
  <2>3. QueueOK' /\ (here = NoDrive => writes' = <<>>)
    BY <1>1, <2>1, <2>2, AroundNothing, QueueNew DEF format
  <2> QED
    BY <1>1, <2>2, <2>3, HandlerType DEF format, buffers, notepad
<1>2. CASE open_drive
  <2>1. PICK boot \in Reads(fs, "raw"), entries \in Reads(dir, ZeroDir) :
          /\ is_ntfs_drive' = IsNtfs(boot)
          /\ is_fat32_drive' = IsFat32(boot)
          /\ cfs_files' = CASE boot = "raw" -> NoFiles
                            [] boot = "cfs" /\ ~is_fat32_drive -> Copied(entries)
                            [] OTHER -> Listing(Root, boot = "ntfs")
          /\ buf_dir' = CASE boot = "raw" -> buf_dir
                          [] boot = "cfs" -> entries
                          [] OTHER -> ZeroDir
    BY <1>2 DEF open_drive
  <2>2. entries \in Directories
    BY DirectoriesClosed, ReadsDirectories
  <2>3. cfs_files' \in Directories /\ buf_dir' \in Directories
    <3>1. cfs_files' \in {NoFiles, Copied(entries), Listing(Root, boot = "ntfs")}
      BY <2>1
    <3>2. buf_dir' \in {buf_dir, entries, ZeroDir}
      BY <2>1
    <3> QED
      BY <2>2, <3>1, <3>2, DirectoriesClosed
  <2>4. is_ntfs_drive' \in BOOLEAN /\ is_fat32_drive' \in BOOLEAN
    BY <2>1 DEF IsNtfs, IsFat32
  <2>5. QueueOK' /\ (here = NoDrive => writes' = <<>>)
    BY <1>2, QueueKept DEF open_drive
  <2> QED
    BY <1>2, <2>3, <2>4, <2>5, HandlerType DEF open_drive, buffers, notepad
<1>3. CASE back
  <2>1. QueueOK' /\ (here = NoDrive => writes' = <<>>)
    BY <1>3, QueueKept DEF back
  <2> QED
    BY <1>3, <2>1, HandlerType DEF back, buffers, notepad, mount
<1>4. CASE back_to_root
  <2>1. QueueOK' /\ (here = NoDrive => writes' = <<>>)
    BY <1>4, QueueKept DEF back_to_root
  <2>2. cfs_files' \in Directories
    BY <1>4, DirectoriesClosed DEF back_to_root, Foreign_refresh
  <2> QED
    BY <1>4, <2>1, <2>2, HandlerType DEF back_to_root, buffers, notepad, mount
<1>5. ASSUME NEW d \in Drives, select(d) PROVE TypeInv'
  BY <1>5 DEF select, TypeInv, TypeOK, QueueOK, DirsOK, disk, explorer, buffers,
     notepad, Idle
<1>6. ASSUME NEW s \in Slots, open_folder(s) PROVE TypeInv'
  <2>1. QueueOK' /\ (here = NoDrive => writes' = <<>>)
    BY <1>6, QueueKept DEF open_folder
  <2>2. cfs_files' \in Directories
    BY <1>6, DirectoriesClosed DEF open_folder, Foreign_refresh
  <2> QED
    BY <1>6, <2>1, <2>2, HandlerType DEF open_folder, buffers, notepad, mount
<1> QED
  BY <1>1, <1>2, <1>3, <1>4, <1>5, <1>6

\* A file that the explorer shows lies on the disk with all its sectors.
LEMMA ShownFits ==
  ASSUME TypeInv, NEW s \in Shown, cfs_files[s].type # 2
  PROVE  /\ cfs_files[s].start \in Sectors
         /\ \A k \in 0 .. FileSectors - 1 : cfs_files[s].start + k \in Sectors
<1>1. s \in Slots /\ cfs_files[s] \in Entries /\ cfs_files[s].type # 0
  BY DEF Shown, InFolder, TypeInv, TypeOK
<1>2. cfs_files[s].type = 1 /\ cfs_files[s].start \in Sectors
  BY <1>1 DEF Entries
<1>3. cfs_files[s].start + FileSectors <= LastSector + 1
  BY <1>1, <1>2 DEF TypeInv, DirsOK, Directories
<1> QED
  BY <1>2, <1>3, LayoutAssumption DEF Sectors

\* The handlers of view 2 and the notepad that only read.
LEMMA ReaderTypes ==
  ASSUME TypeInv,
         \/ \E s \in Slots : open_file(s) \/ copy(s)
         \/ \E t \in Texts : type_text(t)
         \/ \E step \in {"choose", "file", "folder", "closed"} : dialog(step)
  PROVE  TypeInv'
<1> USE TypesBefore
<1>0. ASSUME NEW b \in Reads(data, ZeroSectors), NEW l \in Sectors PROVE b[l] \in Values
  BY DEF Reads, ZeroSectors, TypeInv, TypeOK, Values, here
<1>1. ASSUME NEW s \in Slots, open_file(s) PROVE TypeInv'
  <2>1. QueueOK' /\ (here = NoDrive => writes' = <<>>)
    BY <1>1, QueueKept DEF open_file
  <2>2. buf_dir' \in Directories
    BY <1>1, ReadsDirectories DEF open_file
  <2>3. cfs_files[s].start \in Sectors
    BY <1>1, ShownFits DEF open_file
  <2>4. active_file_lba' \in Sectors /\ content' \in Values /\ save_step' = save_step
    BY <1>0, <1>1, <2>3 DEF open_file, notepad
  <2> QED
    BY <1>1, <2>1, <2>2, <2>4, HandlerType DEF open_file, buffers, mount, explorer
<1>2. ASSUME NEW s \in Slots, copy(s) PROVE TypeInv'
  <2>1. QueueOK' /\ (here = NoDrive => writes' = <<>>)
    BY <1>2, QueueKept DEF copy
  <2>2. file_ram' \in [0 .. FileSectors - 1 -> Values]
    <3>1. PICK b \in Reads(data, ZeroSectors) :
            file_ram' = IF cfs_files[s].type = 2 THEN file_ram
                        ELSE [k \in 0 .. FileSectors - 1 |-> b[cfs_files[s].start + k]]
      BY <1>2 DEF copy
    <3>2. CASE cfs_files[s].type # 2
      <4>1. \A k \in 0 .. FileSectors - 1 : b[cfs_files[s].start + k] \in Values
        BY <1>0, <1>2, <3>2, ShownFits DEF copy
      <4> QED
        BY <3>1, <3>2, <4>1
    <3> QED
      BY <3>1, <3>2
  <2> QED
    BY <1>2, <2>1, <2>2, HandlerType DEF copy, mount, explorer, notepad
<1>3. ASSUME NEW t \in Texts, type_text(t) PROVE TypeInv'
  <2>1. QueueOK' /\ (here = NoDrive => writes' = <<>>)
    BY <1>3, QueueKept DEF type_text
  <2>2. content' \in Values
    BY <1>3 DEF type_text, Values
  <2> QED
    BY <1>3, <2>1, <2>2, HandlerType DEF type_text, buffers, mount, explorer
<1>4. ASSUME NEW step \in {"choose", "file", "folder", "closed"}, dialog(step)
      PROVE TypeInv'
  <2>1. QueueOK' /\ (here = NoDrive => writes' = <<>>)
    BY <1>4, QueueKept DEF dialog
  <2>2. save_step' \in {"closed", "choose", "file", "folder"}
    BY <1>4 DEF dialog
  <2> QED
    BY <1>4, <2>1, <2>2, HandlerType DEF dialog, buffers, mount, explorer
<1> QED
  BY <1>1, <1>2, <1>3, <1>4

\* What is read of a directory that a free slot is looked for in.
LEMMA NewEntry ==
  ASSUME TypeInv, NEW entries \in Directories, NEW n \in 1 .. NumSlots,
         Free(entries, n) # {}
  PROVE  LET slot == Min(Free(entries, n))
         IN  /\ slot \in Slots
             /\ entries[slot] \in Entries /\ cfs_files[slot] \in Entries
             /\ entries[slot].type = 0
<1>1. entries \in [Slots -> Entries] /\ cfs_files \in [Slots -> Entries]
  BY DEF Directories, TypeInv, TypeOK
<1> QED
  BY <1>1, SlotIsFree

\* PASTE.
LEMMA PasteTypes ==
  ASSUME TypeInv, paste
  PROVE  /\ TypeInv'
         /\ \/ PutsNothing /\ (here # NoDrive => buf_dir' \in Reads(dir, ZeroDir))
            \/ \E entries \in Reads(dir, ZeroDir) : \E slot, x :
                 /\ Puts("PASTE", entries, slot, x) /\ x.parent = current_folder_id
                 /\ buf_dir' = [entries EXCEPT ![slot] = x]
<1> USE TypesBefore
<1>1. PICK entries \in Reads(dir, ZeroDir) :
       LET slot == Min(Free(entries, NumSlots))
           lba  == PasteLba(slot)
           new  == [entries EXCEPT ![slot] =
                      IF clipboard.folder THEN Entry(2, 0, 0, current_folder_id)
                      ELSE Entry(1, lba, FileSectors, current_folder_id)]
           body == [k \in 1 .. FileSectors |->
                      Write("PASTE", "data", lba + k - 1, file_ram[k - 1])[1]]
       IN  IF Free(entries, NumSlots) = {}
           THEN buf_dir' = entries /\ UNCHANGED <<writes, clipboard, cfs_files>>
           ELSE /\ Queue(IF clipboard.folder THEN WriteDir("PASTE", new)
                         ELSE body \o WriteDir("PASTE", new)
                                \o Write("PASTE", "said", lba, file_ram[0]))
                /\ buf_dir' = new
                /\ clipboard' = [clipboard EXCEPT !.active = FALSE]
                /\ Foreign_refresh(current_folder_id)
  BY DEF paste
<1>2. entries \in Directories /\ "PASTE" \in Handlers
  BY DirectoriesClosed, ReadsDirectories DEF Handlers
<1>3. UNCHANGED <<disk, selected_drive_idx, mount, explorer, file_ram, notepad>> /\ Idle
  BY DEF paste
<1>4. CASE Free(entries, NumSlots) = {}
  <2>1. QueueOK' /\ (here = NoDrive => writes' = <<>>)
    BY <1>1, <1>3, <1>4, QueueKept
  <2> QED
    BY <1>1, <1>2, <1>3, <1>4, <2>1, HandlerType DEF mount, explorer, notepad,
       PutsNothing, Idle
<1>5. CASE Free(entries, NumSlots) # {}
  <2> DEFINE slot == Min(Free(entries, NumSlots))
             lba  == PasteLba(slot)
             e    == IF clipboard.folder THEN Entry(2, 0, 0, current_folder_id)
                     ELSE Entry(1, lba, FileSectors, current_folder_id)
             new  == [entries EXCEPT ![slot] = e]
             v    == [k \in 1 .. FileSectors |-> file_ram[k - 1]]
             body == [k \in 1 .. FileSectors |->
                        Write("PASTE", "data", lba + k - 1, file_ram[k - 1])[1]]
             last == Write("PASTE", "said", lba, file_ram[0])
  <2>1. /\ Queue(IF clipboard.folder THEN WriteDir("PASTE", new)
                 ELSE body \o WriteDir("PASTE", new) \o last)
        /\ buf_dir' = new /\ Foreign_refresh(current_folder_id)
    BY <1>1, <1>5
  <2>2. slot \in Slots /\ entries[slot].type = 0
    <3>1. NumSlots \in 1 .. NumSlots
      BY LayoutAssumption
    <3> QED
      BY <1>2, <1>5, <3>1, NewEntry
  <2> HIDE DEF slot
  <2>3. /\ e \in Entries /\ (e.type = 1 => e.start + FileSectors <= LastSector + 1)
        /\ e.type # 0 /\ e.parent = current_folder_id
    <3>1. /\ Entry(2, 0, 0, current_folder_id) \in Entries
          /\ Entry(2, 0, 0, current_folder_id).type = 2
          /\ Entry(2, 0, 0, current_folder_id).parent = current_folder_id
          /\ Entry(1, lba, FileSectors, current_folder_id) \in Entries
          /\ Entry(1, lba, FileSectors, current_folder_id).type = 1
          /\ Entry(1, lba, FileSectors, current_folder_id).parent = current_folder_id
          /\ Entry(1, lba, FileSectors, current_folder_id).start + FileSectors
               <= LastSector + 1
      BY <2>2, EntryFits, FilesFit DEF Entry
    <3> QED
      BY <3>1
  <2> HIDE DEF e
  <2>4. new \in Directories
    BY <1>2, <2>2, <2>3, DirectoriesClosed
  <2>5. body \in Seq(Requests) /\ NoDir(body, "PASTE")
    <3>1. lba \in Nat /\ lba + FileSectors <= LastSector + 1 /\ FileSectors \in Nat
      BY <2>2, LayoutFits, LayoutAssumption
    <3>2. v \in [1 .. FileSectors -> Values]
      BY <3>1
    <3> HIDE DEF lba, v
    <3>3. LET q == [k \in 1 .. FileSectors |-> Write("PASTE", "data", lba + k - 1, v[k])[1]]
          IN  q \in Seq(Requests) /\ NoDir(q, "PASTE")
      BY <1>2, <3>1, <3>2, RunOfSectors
    <3>4. \A k \in 1 .. FileSectors : v[k] = file_ram[k - 1]
      BY DEF v
    <3>5. [k \in 1 .. FileSectors |-> Write("PASTE", "data", lba + k - 1, v[k])[1]] = body
      BY <3>4
    <3> QED
      BY <3>3, <3>5
  <2>6. last \in Seq(Requests) /\ NoDir(last, "PASTE")
    <3>1. lba \in Sectors /\ file_ram[0] \in Values
      BY <2>2, LayoutFits, LayoutAssumption DEF Sectors
    <3> HIDE DEF lba
    <3> QED
      BY <1>2, <3>1, WriteIsRequest
  <2> HIDE DEF new, body, last
  <2>7. /\ body \o WriteDir("PASTE", new) \o last \in Seq(Requests)
        /\ Carries(body \o WriteDir("PASTE", new) \o last, "PASTE", new)
        /\ HasDir(body \o WriteDir("PASTE", new) \o last)
        /\ WriteDir("PASTE", new) \in Seq(Requests)
        /\ Carries(WriteDir("PASTE", new), "PASTE", new)
        /\ HasDir(WriteDir("PASTE", new))
    BY <1>2, <2>4, <2>5, <2>6, Around, AroundNothing
  <2>8. /\ QueueOK' /\ (here = NoDrive => writes' = <<>>)
        /\ Carries(writes', "PASTE", new) /\ (here # NoDrive => HasDir(writes'))
    BY <2>1, <2>7, QueueNew
  <2>9. cfs_files' \in Directories /\ buf_dir' \in Directories
    BY <2>1, <2>4, DirectoriesClosed DEF Foreign_refresh
  <2>10. TypeInv'
    BY <1>3, <2>8, <2>9, HandlerType DEF mount, explorer, notepad
  <2>11. here # NoDrive => Puts("PASTE", entries, slot, e)
    BY <2>2, <2>3, <2>8 DEF Puts, new
  <2>12. buf_dir' = [entries EXCEPT ![slot] = e]
    BY <2>1 DEF new
  <2>13. CASE here = NoDrive
    BY <2>8, <2>10, <2>13 DEF PutsNothing
  <2>14. CASE here # NoDrive
    BY <2>3, <2>10, <2>11, <2>12, <2>14
  <2> QED
    BY <2>13, <2>14
<1> QED
  BY <1>4, <1>5

\* + FILE.
LEMMA AddFileTypes ==
  ASSUME TypeInv, add_file
  PROVE  /\ TypeInv' /\ PutsOnly
         /\ \/ PutsNothing
            \/ \E entries \in Reads(dir, ZeroDir) : \E slot :
                 Puts("+ FILE", entries, slot, App(entries[slot]))
<1> USE TypesBefore
<1>1. PICK entries \in Reads(dir, ZeroDir) :
       LET slot == Min(Free(entries, NumSlots))
           new  == [entries EXCEPT ![slot] = App(@)]
       IN  IF Free(entries, NumSlots) = {}
           THEN buf_dir' = entries /\ UNCHANGED <<writes, cfs_files>>
           ELSE /\ Queue(WriteDir("+ FILE", new))
                /\ buf_dir' = new
                /\ cfs_files' = [cfs_files EXCEPT ![slot] = App(@)]
  BY DEF add_file
<1>2. entries \in Directories /\ "+ FILE" \in Handlers
  BY DirectoriesClosed, ReadsDirectories DEF Handlers
<1>3. UNCHANGED <<disk, selected_drive_idx, mount, explorer, buffers, notepad>> /\ Idle
  BY DEF add_file
<1>4. CASE Free(entries, NumSlots) = {}
  <2>1. QueueOK' /\ (here = NoDrive => writes' = <<>>)
    BY <1>1, <1>3, <1>4, QueueKept
  <2>2. TypeInv'
    BY <1>1, <1>2, <1>3, <1>4, <2>1, HandlerType DEF mount, explorer, notepad, buffers
  <2>3. writes' = <<>> /\ cfs_files' = cfs_files
    BY <1>1, <1>3, <1>4 DEF Idle
  <2> QED
    BY <2>2, <2>3 DEF PutsNothing, PutsOnly
<1>5. CASE Free(entries, NumSlots) # {}
  <2> DEFINE slot == Min(Free(entries, NumSlots))
             new  == [entries EXCEPT ![slot] = App(@)]
             copied == [cfs_files EXCEPT ![slot] = App(@)]
  <2>1. Queue(WriteDir("+ FILE", new)) /\ buf_dir' = new /\ cfs_files' = copied
    BY <1>1, <1>5
  <2>2. /\ slot \in Slots /\ entries[slot] \in Entries /\ cfs_files[slot] \in Entries
        /\ entries[slot].type = 0
    <3>1. NumSlots \in 1 .. NumSlots
      BY LayoutAssumption
    <3> QED
      BY <1>2, <1>5, <3>1, NewEntry
  <2> HIDE DEF slot
  <2>3. /\ App(entries[slot]) \in Entries /\ App(cfs_files[slot]) \in Entries
        /\ App(entries[slot]).start + FileSectors <= LastSector + 1
        /\ App(cfs_files[slot]).start + FileSectors <= LastSector + 1
        /\ App(entries[slot]).type = 1
    BY <2>2, FilesFit DEF App, Entry
  <2>4. /\ new = [entries EXCEPT ![slot] = App(entries[slot])]
        /\ copied = [cfs_files EXCEPT ![slot] = App(cfs_files[slot])]
    BY <2>2, <1>2 DEF Directories
  <2>5. new \in Directories /\ copied \in Directories
    BY <1>2, <2>2, <2>3, <2>4, DirectoriesClosed
  <2> HIDE DEF new, copied
  <2>6. /\ WriteDir("+ FILE", new) \in Seq(Requests)
        /\ Carries(WriteDir("+ FILE", new), "+ FILE", new) /\ HasDir(WriteDir("+ FILE", new))
    <3>1. <<>> \in Seq(Requests) /\ NoDir(<<>>, "+ FILE")
      BY DEF NoDir
    <3> QED
      BY <1>2, <2>5, <3>1, AroundNothing
  <2>7. /\ QueueOK' /\ (here = NoDrive => writes' = <<>>)
        /\ Carries(writes', "+ FILE", new) /\ (here # NoDrive => HasDir(writes'))
    BY <2>1, <2>6, QueueNew
  <2>8. TypeInv'
    BY <1>3, <2>1, <2>5, <2>7, HandlerType DEF mount, explorer, notepad, buffers
  <2>9. here # NoDrive => Puts("+ FILE", entries, slot, App(entries[slot]))
    <3> DEFINE e == App(entries[slot])
    <3>1. e.type # 0 /\ e \in Entries
      BY <2>3
    <3>2. Carries(writes', "+ FILE", [entries EXCEPT ![slot] = e])
      BY <2>4, <2>7
    <3> HIDE DEF e
    <3> QED
      BY <2>2, <2>7, <3>1, <3>2 DEF Puts, e
  <2>10. PutsOnly
    BY <2>1, DirAlone
  <2> QED
    BY <2>7, <2>8, <2>9, <2>10 DEF PutsNothing
<1> QED
  BY <1>4, <1>5

\* MKDIR.
LEMMA MkdirTypes ==
  ASSUME TypeInv, mkdir
  PROVE  /\ TypeInv' /\ PutsOnly
         /\ \/ PutsNothing
            \/ \E entries \in Reads(dir, buf_dir) : \E slot :
                 Puts("MKDIR", entries, slot, Entry(2, 0, 0, entries[slot].parent))
<1> USE TypesBefore
<1>1. PICK entries \in Reads(dir, buf_dir) :
       LET slot == Min(Free(entries, MkdirSlots))
           new  == [entries EXCEPT ![slot] = Entry(2, 0, 0, @.parent)]
       IN  IF Free(entries, MkdirSlots) = {}
           THEN buf_dir' = entries /\ UNCHANGED writes
           ELSE Queue(WriteDir("MKDIR", new)) /\ buf_dir' = new
  BY DEF mkdir
<1>2. entries \in Directories /\ "MKDIR" \in Handlers
  BY ReadsDirectories DEF Handlers
<1>3. UNCHANGED <<disk, selected_drive_idx, mount, explorer, cfs_files, buffers, notepad>>
      /\ Idle
  BY DEF mkdir
<1>4. CASE Free(entries, MkdirSlots) = {}
  <2>1. QueueOK' /\ (here = NoDrive => writes' = <<>>)
    BY <1>1, <1>3, <1>4, QueueKept
  <2>2. TypeInv'
    BY <1>1, <1>2, <1>3, <1>4, <2>1, HandlerType DEF mount, explorer, notepad, buffers
  <2>3. writes' = <<>> /\ cfs_files' = cfs_files
    BY <1>1, <1>3, <1>4 DEF Idle
  <2> QED
    BY <2>2, <2>3 DEF PutsNothing, PutsOnly
<1>5. CASE Free(entries, MkdirSlots) # {}
  <2> DEFINE slot == Min(Free(entries, MkdirSlots))
             e    == Entry(2, 0, 0, entries[slot].parent)
             new  == [entries EXCEPT ![slot] = Entry(2, 0, 0, @.parent)]
  <2>1. Queue(WriteDir("MKDIR", new)) /\ buf_dir' = new
    BY <1>1, <1>5
  <2>2. slot \in Slots /\ entries[slot] \in Entries /\ entries[slot].type = 0
    <3>1. MkdirSlots \in 1 .. NumSlots
      BY LayoutAssumption
    <3> QED
      BY <1>2, <1>5, <3>1, NewEntry
  <2> HIDE DEF slot
  <2>3. /\ new \in Directories /\ e \in Entries /\ e.type = 2
        /\ new = [entries EXCEPT ![slot] = e]
    <3>1. entries[slot].parent \in Slots \cup {Root}
      BY <2>2 DEF Entries
    <3>2. e \in Entries /\ e.type = 2
      BY <3>1, EntryFits DEF Entry
    <3>3. new = [entries EXCEPT ![slot] = e]
      BY <1>2, <2>2 DEF Directories
    <3> HIDE DEF e, new
    <3>4. e.type = 1 => e.start + FileSectors <= LastSector + 1
      BY <3>2
    <3> QED
      BY <1>2, <2>2, <3>2, <3>3, <3>4, DirectoriesClosed
  <2> HIDE DEF new
  <2>4. /\ WriteDir("MKDIR", new) \in Seq(Requests)
        /\ Carries(WriteDir("MKDIR", new), "MKDIR", new) /\ HasDir(WriteDir("MKDIR", new))
    <3>1. <<>> \in Seq(Requests) /\ NoDir(<<>>, "MKDIR")
      BY DEF NoDir
    <3> QED
      BY <1>2, <2>3, <3>1, AroundNothing
  <2>5. /\ QueueOK' /\ (here = NoDrive => writes' = <<>>)
        /\ Carries(writes', "MKDIR", new) /\ (here # NoDrive => HasDir(writes'))
    BY <2>1, <2>4, QueueNew
  <2>6. TypeInv'
    BY <1>3, <2>1, <2>3, <2>5, HandlerType DEF mount, explorer, notepad, buffers
  <2> HIDE DEF e
  <2>7. here # NoDrive => Puts("MKDIR", entries, slot, e)
    BY <2>2, <2>3, <2>5 DEF Puts
  <2>8. PutsOnly
    BY <2>1, DirAlone
  <2> QED
    BY <2>5, <2>6, <2>7, <2>8 DEF PutsNothing, e
<1> QED
  BY <1>4, <1>5

\* The notepad's SAVE.
LEMMA SaveTypes ==
  ASSUME TypeInv, save
  PROVE  TypeInv' /\ NoDir(writes', "SAVE")
<1> USE TypesBefore
<1>1. "SAVE" \in Handlers /\ Scratch \in Sectors
  BY LayoutAssumption DEF Handlers, Scratch, Sectors
<1> DEFINE a == Write("SAVE", "data", active_file_lba, content)
           b == Write("SAVE", "said", active_file_lba, content)
           c == Write("SAVE", "data", Scratch, content)
<1>2. /\ a \in Seq(Requests) /\ NoDir(a, "SAVE")
      /\ b \in Seq(Requests) /\ NoDir(b, "SAVE")
      /\ c \in Seq(Requests) /\ NoDir(c, "SAVE")
  BY <1>1, WriteIsRequest
<1>3. Queue(IF active_file_lba > 0 THEN a \o b ELSE c)
  BY DEF save
<1>4. a \o b \in Seq(Requests) /\ NoDir(a \o b, "SAVE")
  <2> HIDE DEF a, b
  <2> QED
    BY <1>2, SectorsThenSectors
<1> HIDE DEF a, b, c
<1>5. QueueOK' /\ (here = NoDrive => writes' = <<>>) /\ NoDir(writes', "SAVE")
  BY <1>2, <1>3, <1>4, QueueLone
<1>6. file_ram' \in [0 .. FileSectors - 1 -> Values]
  BY DEF save
<1> QED
  BY <1>5, <1>6, HandlerType DEF save, mount, explorer, notepad

\* The last step of the SAVE AS dialog.
LEMMA SaveAsTypes ==
  ASSUME TypeInv, save_as
  PROVE  /\ TypeInv'
         /\ \/ PutsNothing /\ (here # NoDrive => active_file_lba' = active_file_lba)
            \/ \E entries \in Reads(dir, buf_dir) : \E slot, x :
                 /\ Puts("SAVE AS", entries, slot, x)
                 /\ x = Entry(1, SaveLba(slot), FileSectors, current_folder_id)
                 /\ cfs_files' = [cfs_files EXCEPT ![slot] = x]
                 /\ buf_dir' = [entries EXCEPT ![slot] = x]
                 /\ active_file_lba' = SaveLba(slot)
                 /\ writes' = Write("SAVE AS", "data", SaveLba(slot), content)
                                \o WriteDir("SAVE AS", [entries EXCEPT ![slot] = x])
                                \o Write("SAVE AS", "said", SaveLba(slot), content)
<1> USE TypesBefore
<1>1. PICK entries \in Reads(dir, buf_dir) :
       LET slot == Min(Free(entries, NumSlots))
           lba  == SaveLba(slot)
           file == Entry(1, lba, FileSectors, current_folder_id)
           new  == [entries EXCEPT ![slot] = file]
       IN  IF Free(entries, NumSlots) = {}
           THEN buf_dir' = entries /\ UNCHANGED <<writes, cfs_files, active_file_lba>>
           ELSE /\ Queue(Write("SAVE AS", "data", lba, content)
                           \o WriteDir("SAVE AS", new)
                           \o Write("SAVE AS", "said", lba, content))
                /\ buf_dir' = new
                /\ cfs_files' = [cfs_files EXCEPT ![slot] = file]
                /\ active_file_lba' = lba
  BY DEF save_as
<1>2. entries \in Directories /\ "SAVE AS" \in Handlers
  BY ReadsDirectories DEF Handlers
<1>3. UNCHANGED <<disk, selected_drive_idx, mount, explorer, content>> /\ Idle
      /\ save_step' = "closed"
  BY DEF save_as
<1>4. file_ram' \in [0 .. FileSectors - 1 -> Values]
  BY DEF save_as, Values
<1>5. CASE Free(entries, NumSlots) = {}
  <2>1. QueueOK' /\ (here = NoDrive => writes' = <<>>)
    BY <1>1, <1>3, <1>5, QueueKept
  <2> QED
    BY <1>1, <1>2, <1>3, <1>4, <1>5, <2>1, HandlerType DEF mount, explorer,
       PutsNothing, Idle
<1>6. CASE Free(entries, NumSlots) # {}
  <2> DEFINE slot == Min(Free(entries, NumSlots))
             lba  == SaveLba(slot)
             file == Entry(1, lba, FileSectors, current_folder_id)
             new  == [entries EXCEPT ![slot] = file]
             copied == [cfs_files EXCEPT ![slot] = file]
             first == Write("SAVE AS", "data", lba, content)
             last  == Write("SAVE AS", "said", lba, content)
  <2>1. /\ Queue(first \o WriteDir("SAVE AS", new) \o last)
        /\ buf_dir' = new /\ cfs_files' = copied /\ active_file_lba' = lba
    BY <1>1, <1>6
  <2>2. slot \in Slots /\ entries[slot].type = 0
    <3>1. NumSlots \in 1 .. NumSlots
      BY LayoutAssumption
    <3> QED
      BY <1>2, <1>6, <3>1, NewEntry
  <2> HIDE DEF slot
  <2>3. /\ file \in Entries /\ file.start + FileSectors <= LastSector + 1 /\ lba \in Sectors
        /\ file.type = 1 /\ lba = SaveLba(slot)
    <3>1. file \in Entries /\ file.start + FileSectors <= LastSector + 1 /\ lba \in Sectors
      BY <2>2, EntryFits, FilesFit, LayoutFits, LayoutAssumption DEF Sectors
    <3>2. file.type = 1
      BY DEF Entry
    <3> QED
      BY <3>1, <3>2
  <2> HIDE DEF file, lba
  <2>4. new \in Directories /\ copied \in Directories
    BY <1>2, <2>2, <2>3, DirectoriesClosed
  <2>5. /\ first \in Seq(Requests) /\ NoDir(first, "SAVE AS")
        /\ last \in Seq(Requests) /\ NoDir(last, "SAVE AS")
    BY <1>2, <2>3, WriteIsRequest
  <2> HIDE DEF new, copied, first, last
  <2>6. /\ first \o WriteDir("SAVE AS", new) \o last \in Seq(Requests)
        /\ Carries(first \o WriteDir("SAVE AS", new) \o last, "SAVE AS", new)
        /\ HasDir(first \o WriteDir("SAVE AS", new) \o last)
    BY <1>2, <2>4, <2>5, Around
  <2>7. /\ QueueOK' /\ (here = NoDrive => writes' = <<>>)
        /\ Carries(writes', "SAVE AS", new) /\ (here # NoDrive => HasDir(writes'))
    BY <2>1, <2>6, QueueNew
  <2>8. TypeInv'
    BY <1>3, <1>4, <2>1, <2>3, <2>4, <2>7, HandlerType DEF mount, explorer
  <2>9. here # NoDrive => Puts("SAVE AS", entries, slot, file)
    <3>1. file.type # 0 /\ file \in Entries
      BY <2>3
    <3>2. Carries(writes', "SAVE AS", [entries EXCEPT ![slot] = file])
      BY <2>7 DEF new
    <3> QED
      BY <2>2, <2>7, <3>1, <3>2 DEF Puts
  <2>10. /\ file = Entry(1, SaveLba(slot), FileSectors, current_folder_id)
         /\ cfs_files' = [cfs_files EXCEPT ![slot] = file]
         /\ buf_dir' = [entries EXCEPT ![slot] = file]
    BY <2>1, <2>3 DEF copied, file, new
  <2>11. active_file_lba' = SaveLba(slot)
    BY <2>1, <2>3
  <2>12. here # NoDrive =>
           writes' = Write("SAVE AS", "data", SaveLba(slot), content)
                       \o WriteDir("SAVE AS", [entries EXCEPT ![slot] = file])
                       \o Write("SAVE AS", "said", SaveLba(slot), content)
    <3>1. here # NoDrive => writes' = first \o WriteDir("SAVE AS", new) \o last
      BY <2>1, <2>6, QueueNew
    <3> QED
      BY <2>3, <3>1 DEF first, last, new
  <2>13. CASE here = NoDrive
    BY <2>7, <2>8, <2>13 DEF PutsNothing
  <2>14. CASE here # NoDrive
    BY <2>8, <2>9, <2>10, <2>11, <2>12, <2>14
  <2> QED
    BY <2>13, <2>14
<1> QED
  BY <1>5, <1>6

\* NEW FOLDER.
LEMMA NewFolderTypes ==
  ASSUME TypeInv, new_folder
  PROVE  /\ TypeInv' /\ PutsOnly
         /\ \/ PutsNothing
            \/ \E entries \in Reads(dir, buf_dir) : \E slot, x :
                 /\ Puts("NEW FOLDER", entries, slot, x)
                 /\ x = Entry(2, 0, 0, current_folder_id)
                 /\ cfs_files' = [cfs_files EXCEPT ![slot] = x]
                 /\ buf_dir' = [entries EXCEPT ![slot] = x]
<1> USE TypesBefore
<1>1. PICK entries \in Reads(dir, buf_dir) :
       LET slot == Min(Free(entries, NumSlots))
           folder == Entry(2, 0, 0, current_folder_id)
           new  == [entries EXCEPT ![slot] = folder]
       IN  IF Free(entries, NumSlots) = {}
           THEN buf_dir' = entries /\ UNCHANGED <<writes, cfs_files>>
           ELSE /\ Queue(WriteDir("NEW FOLDER", new))
                /\ buf_dir' = new
                /\ cfs_files' = [cfs_files EXCEPT ![slot] = folder]
  BY DEF new_folder
<1>2. entries \in Directories /\ "NEW FOLDER" \in Handlers
  BY ReadsDirectories DEF Handlers
<1>3. UNCHANGED <<disk, selected_drive_idx, mount, explorer, buffers, active_file_lba,
                  content>> /\ Idle /\ save_step' = "closed"
  BY DEF new_folder
<1>4. CASE Free(entries, NumSlots) = {}
  <2>1. QueueOK' /\ (here = NoDrive => writes' = <<>>)
    BY <1>1, <1>3, <1>4, QueueKept
  <2>2. TypeInv'
    BY <1>1, <1>2, <1>3, <1>4, <2>1, HandlerType DEF mount, explorer, buffers
  <2>3. writes' = <<>> /\ cfs_files' = cfs_files
    BY <1>1, <1>3, <1>4 DEF Idle
  <2> QED
    BY <2>2, <2>3 DEF PutsNothing, PutsOnly
<1>5. CASE Free(entries, NumSlots) # {}
  <2> DEFINE slot == Min(Free(entries, NumSlots))
             folder == Entry(2, 0, 0, current_folder_id)
             new  == [entries EXCEPT ![slot] = folder]
             copied == [cfs_files EXCEPT ![slot] = folder]
  <2>1. Queue(WriteDir("NEW FOLDER", new)) /\ buf_dir' = new /\ cfs_files' = copied
    BY <1>1, <1>5
  <2>2. slot \in Slots /\ entries[slot].type = 0
    <3>1. NumSlots \in 1 .. NumSlots
      BY LayoutAssumption
    <3> QED
      BY <1>2, <1>5, <3>1, NewEntry
  <2>3. folder \in Entries /\ folder.type = 2
    BY EntryFits DEF Entry
  <2> HIDE DEF slot, folder
  <2>4. new \in Directories /\ copied \in Directories
    <3>1. folder.type = 1 => folder.start + FileSectors <= LastSector + 1
      BY <2>3
    <3>2. cfs_files \in Directories
      OBVIOUS
    <3> QED
      BY <1>2, <2>2, <2>3, <3>1, <3>2, DirectoriesClosed
  <2> HIDE DEF new, copied
  <2>5. /\ WriteDir("NEW FOLDER", new) \in Seq(Requests)
        /\ Carries(WriteDir("NEW FOLDER", new), "NEW FOLDER", new)
        /\ HasDir(WriteDir("NEW FOLDER", new))
    <3>1. <<>> \in Seq(Requests) /\ NoDir(<<>>, "NEW FOLDER")
      BY DEF NoDir
    <3> QED
      BY <1>2, <2>4, <3>1, AroundNothing
  <2>6. /\ QueueOK' /\ (here = NoDrive => writes' = <<>>)
        /\ Carries(writes', "NEW FOLDER", new) /\ (here # NoDrive => HasDir(writes'))
    BY <2>1, <2>5, QueueNew
  <2>7. TypeInv'
    BY <1>3, <2>1, <2>4, <2>6, HandlerType DEF mount, explorer, buffers
  <2>8. here # NoDrive => Puts("NEW FOLDER", entries, slot, folder)
    <3>1. folder.type # 0 /\ folder \in Entries
      BY <2>3
    <3>2. Carries(writes', "NEW FOLDER", [entries EXCEPT ![slot] = folder])
      BY <2>6 DEF new
    <3> QED
      BY <2>2, <2>6, <3>1, <3>2 DEF Puts
  <2>9. /\ folder = Entry(2, 0, 0, current_folder_id)
        /\ cfs_files' = [cfs_files EXCEPT ![slot] = folder]
        /\ buf_dir' = [entries EXCEPT ![slot] = folder]
    BY <2>1 DEF copied, folder, new
  <2>10. PutsOnly
    BY <2>1, DirAlone
  <2> QED
    BY <2>6, <2>7, <2>8, <2>9, <2>10 DEF PutsNothing
<1> QED
  BY <1>4, <1>5

\* INSTALL.
LEMMA InstallTypes ==
  ASSUME TypeInv, NEW n \in PkgSectors, NEW t \in Texts, install(n, t)
  PROVE  TypeInv' /\ \E new : Carries(writes', "INSTALL", new)
<1> USE TypesBefore
<1> DEFINE lba == NextLba
           slot == Min(Free(cfs_files, NumSlots))
           pkg(e) == Entry(1, lba, n % SizeWrap, e.parent)
           v == [k \in 1 .. n |-> t]
           bytes == [k \in 1 .. n |-> Write("INSTALL", "data", lba + k - 1, t)[1]]
           done  == [k \in 1 .. n |-> Write("INSTALL", "said", lba + k - 1, t)[1]]
<1>1. PICK entries \in Reads(dir, buf_dir) :
        /\ Queue(WriteDir("INSTALL", [entries EXCEPT ![slot] = pkg(@)]) \o bytes \o done)
        /\ buf_dir' = [entries EXCEPT ![slot] = pkg(@)]
  BY DEF install
<1>2. entries \in Directories /\ cfs_files \in Directories /\ "INSTALL" \in Handlers
      /\ entries \in [Slots -> Entries] /\ cfs_files \in [Slots -> Entries]
  BY ReadsDirectories DEF Handlers, Directories
<1>3. /\ Free(cfs_files, NumSlots) # {} /\ lba + n + FileSectors <= LastSector + 1
      /\ cfs_files' = [cfs_files EXCEPT ![slot] = pkg(@)]
      /\ UNCHANGED <<disk, selected_drive_idx, mount, explorer, buffers, notepad>>
  BY DEF install
<1>4. slot \in Slots
  <2>1. NumSlots \in 1 .. NumSlots
    BY LayoutAssumption
  <2> QED
    BY <1>2, <1>3, <2>1, SlotIsFree
<1>5. /\ lba \in Nat /\ lba + n <= LastSector + 1 /\ lba + FileSectors <= LastSector + 1
      /\ n \in Nat /\ lba \in Sectors /\ n % SizeWrap \in Nat
  <2>1. n \in Nat \ {0} /\ FileSectors \in Nat \ {0} /\ SizeWrap \in Nat \ {0}
        /\ LastSector \in Nat
    BY LayoutAssumption
  <2>2. lba \in Nat
    BY <1>2, NextLbaIsSector
  <2> HIDE DEF lba
  <2> QED
    BY <1>3, <2>1, <2>2 DEF Sectors
<1> HIDE DEF lba, slot
<1>6. \A e \in Entries : pkg(e) \in Entries /\ pkg(e).start + FileSectors <= LastSector + 1
  BY <1>5 DEF Entry, Entries
<1> DEFINE new    == [entries EXCEPT ![slot] = pkg(entries[slot])]
           copied == [cfs_files EXCEPT ![slot] = pkg(cfs_files[slot])]
<1>7. /\ [entries EXCEPT ![slot] = pkg(@)] = new
      /\ [cfs_files EXCEPT ![slot] = pkg(@)] = copied
  BY <1>2, <1>4
<1>8. new \in Directories /\ copied \in Directories
  <2>1. /\ pkg(entries[slot]) \in Entries /\ pkg(cfs_files[slot]) \in Entries
        /\ pkg(entries[slot]).start + FileSectors <= LastSector + 1
        /\ pkg(cfs_files[slot]).start + FileSectors <= LastSector + 1
    BY <1>2, <1>4, <1>6
  <2> HIDE DEF pkg
  <2> QED
    BY <1>2, <1>4, <2>1, DirectoriesClosed
<1>9. /\ bytes \in Seq(Requests) /\ NoDir(bytes, "INSTALL")
      /\ done \in Seq(Requests) /\ NoDir(done, "INSTALL")
  <2>1. v \in [1 .. n -> Values] /\ \A k \in 1 .. n : v[k] = t
    BY DEF Values
  <2> HIDE DEF v
  <2>2. LET q == [k \in 1 .. n |-> Write("INSTALL", "data", lba + k - 1, v[k])[1]]
        IN  q \in Seq(Requests) /\ NoDir(q, "INSTALL")
    BY <1>2, <1>5, <2>1, RunOfSectors
  <2>3. LET q == [k \in 1 .. n |-> Write("INSTALL", "said", lba + k - 1, v[k])[1]]
        IN  q \in Seq(Requests) /\ NoDir(q, "INSTALL")
    BY <1>2, <1>5, <2>1, RunOfSectors
  <2>4. /\ bytes = [k \in 1 .. n |-> Write("INSTALL", "data", lba + k - 1, v[k])[1]]
        /\ done  = [k \in 1 .. n |-> Write("INSTALL", "said", lba + k - 1, v[k])[1]]
    BY <2>1
  <2> QED
    BY <2>2, <2>3, <2>4
<1> HIDE DEF bytes, done, new, copied, pkg
<1>10. bytes \o done \in Seq(Requests) /\ NoDir(bytes \o done, "INSTALL")
  BY <1>9, SectorsThenSectors
<1>11. /\ WriteDir("INSTALL", new) \o bytes \o done
            = WriteDir("INSTALL", new) \o (bytes \o done)
       /\ WriteDir("INSTALL", new) \o (bytes \o done) \in Seq(Requests)
       /\ Carries(WriteDir("INSTALL", new) \o (bytes \o done), "INSTALL", new)
  <2>1. WriteDir("INSTALL", new) \in Seq(Requests)
    BY <1>2, <1>8, WriteIsRequest
  <2>2. WriteDir("INSTALL", new) \o bytes \o done = WriteDir("INSTALL", new) \o (bytes \o done)
    BY <1>9, <2>1, ConcatAssociative
  <2> DEFINE bd == bytes \o done
  <2>3. bd \in Seq(Requests) /\ NoDir(bd, "INSTALL")
    BY <1>10
  <2> HIDE DEF bd
  <2>4. /\ WriteDir("INSTALL", new) \o bd \in Seq(Requests)
        /\ Carries(WriteDir("INSTALL", new) \o bd, "INSTALL", new)
    BY <1>2, <1>8, <2>3, AroundNothing
  <2> QED
    BY <2>2, <2>4 DEF bd
<1>12. QueueOK' /\ (here = NoDrive => writes' = <<>>) /\ Carries(writes', "INSTALL", new)
  BY <1>1, <1>7, <1>11, QueueNew
<1> QED
  BY <1>1, <1>3, <1>7, <1>8, <1>12, HandlerType DEF mount, explorer, notepad, buffers

\* Every step keeps every variable in its type.
LEMMA NextTypes == TypeInv /\ [Next]_vars => TypeInv'
<1> SUFFICES ASSUME TypeInv, [Next]_vars PROVE TypeInv'
  OBVIOUS
<1>1. CASE write_sector \/ lose_sector \/ crash
  BY <1>1, WriteSectorType, LoseSectorType, CrashType
<1>2. CASE \/ format \/ open_drive \/ back \/ back_to_root
           \/ \E d \in Drives : select(d)
           \/ \E s \in Slots : open_folder(s)
  BY <1>2, ExplorerTypes
<1>3. CASE \/ \E s \in Slots : open_file(s) \/ copy(s)
           \/ \E t \in Texts : type_text(t)
           \/ \E step \in {"choose", "file", "folder", "closed"} : dialog(step)
  BY <1>3, ReaderTypes
<1>4. CASE paste \/ add_file \/ mkdir \/ save \/ save_as \/ new_folder
  BY <1>4, PasteTypes, AddFileTypes, MkdirTypes, SaveTypes, SaveAsTypes, NewFolderTypes
<1>5. CASE \E n \in PkgSectors, t \in Texts : install(n, t)
  BY <1>5, InstallTypes
<1>6. CASE UNCHANGED vars
  BY <1>6 DEF vars, TypeInv, TypeOK, QueueOK, DirsOK, disk, mount, explorer, buffers,
     notepad, Idle
<1> QED
  BY <1>1, <1>2, <1>3, <1>4, <1>5, <1>6 DEF Next

\* The types hold in every state.
LEMMA TypesAlways == Kinds \subseteq FileSystems => (Spec => []TypeInv)
<1> SUFFICES ASSUME Kinds \subseteq FileSystems PROVE Spec => []TypeInv
  OBVIOUS
<1>1. Init => TypeInv
  BY InitTypeInv
<1> QED
  BY <1>1, NextTypes, PTL DEF Spec

\* Type correctness, for every layout, every set of buttons and every fault: no
\* sector number leaves the disk, no slot the directory, and no copy reads
\* behind the end.
THEOREM DiskTypes == Kinds \subseteq FileSystems => (Spec => []TypeOK)
<1> SUFFICES ASSUME Kinds \subseteq FileSystems PROVE Spec => []TypeOK
  OBVIOUS
<1>1. TypeInv => TypeOK
  BY DEF TypeInv
<1> QED
  BY <1>1, TypesAlways, PTL

-----------------------------------------------------------------------------
(* The explorer's folder.                                                  *)

\* No handler leaves the explorer with a folder open: of the handlers that
\* move in or out of it, BACK asks for the root and the others set it.
LEMMA NextRootWhenClosed == RootWhenClosed /\ [Next]_vars => RootWhenClosed'
<1> SUFFICES ASSUME RootWhenClosed, [Next]_vars PROVE RootWhenClosed'
  OBVIOUS
<1> USE DEF RootWhenClosed
<1>1. CASE UNCHANGED explorer
  BY <1>1 DEF explorer
<1>2. CASE open_drive \/ format \/ crash \/ back \/ back_to_root
  BY <1>2 DEF open_drive, format, crash, back, back_to_root
<1>3. ASSUME NEW s \in Slots, open_folder(s) PROVE RootWhenClosed'
  BY <1>3 DEF open_folder
<1>4. CASE \/ write_sector \/ lose_sector \/ paste \/ add_file \/ save \/ save_as
           \/ new_folder \/ mkdir
  BY <1>1, <1>4 DEF write_sector, lose_sector, paste, add_file, save, save_as,
     new_folder, mkdir
<1>5. CASE \/ \E d \in Drives : select(d)
           \/ \E s \in Slots : open_file(s) \/ copy(s)
           \/ \E t \in Texts : type_text(t)
           \/ \E step \in {"choose", "file", "folder", "closed"} : dialog(step)
  BY <1>1, <1>5 DEF select, open_file, copy, type_text, dialog
<1>6. CASE \E n \in PkgSectors, t \in Texts : install(n, t)
  BY <1>1, <1>6 DEF install
<1>7. CASE UNCHANGED vars
  BY <1>1, <1>7 DEF vars
<1> QED
  BY <1>2, <1>3, <1>4, <1>5, <1>6, <1>7 DEF Next

\* Outside the explorer the current folder is the root: what SAVE AS and a
\* newly opened drive rely on.
THEOREM FolderIsRootOutside == Spec => []RootWhenClosed
<1>1. Init => RootWhenClosed
  BY DEF Init, RootWhenClosed
<1> QED
  BY <1>1, NextRootWhenClosed, PTL DEF Spec

-----------------------------------------------------------------------------
(* The flag of an NTFS drive.                                              *)

\* While the explorer is shown a drive is selected, and the flag is set if the
\* drive has NTFS.
NtfsKnown == dsk_mgr_opened => here # NoDrive /\ (fs[here] = "ntfs" => is_ntfs_drive)
NtfsInv   == TypeInv /\ NtfsKnown /\ PasteSparesNtfs

\* What a handler leaves to be shown when it does not open or close the
\* explorer.
LEMMA NtfsKept ==
  ASSUME NtfsKnown, UNCHANGED <<fs, selected_drive_idx, is_ntfs_drive, dsk_mgr_opened>>,
         \A i \in DOMAIN writes' : writes'[i].by # "PASTE"
  PROVE  NtfsKnown' /\ PasteSparesNtfs'
  BY DEF NtfsKnown, PasteSparesNtfs, here

\* One sector less to write, reached or lost: FORMAT may turn an NTFS drive into
\* a CFS drive, and nothing the other way.
LEMMA NtfsWrites ==
  ASSUME NtfsInv, write_sector \/ lose_sector
  PROVE  NtfsKnown' /\ PasteSparesNtfs'
<1> USE DEF NtfsInv
<1>1. UNCHANGED <<selected_drive_idx, is_ntfs_drive, dsk_mgr_opened>>
  BY DEF write_sector, lose_sector, mount, explorer
<1>2. QueueOK /\ ~Idle /\ fs \in [Drives -> FileSystems] /\ here \in Drives
  BY DEF TypeInv, TypeOK, write_sector, lose_sector, here, FileSystems
<1>3. fs' = fs \/ fs' = [fs EXCEPT ![here] = "cfs"]
  BY DEF write_sector, lose_sector, disk
<1>4. fs'[here] = "ntfs" => fs[here] = "ntfs"
  BY <1>2, <1>3
<1>5. \A i \in DOMAIN writes' : writes'[i].by = "PASTE" => \E j \in DOMAIN writes : writes[j].by = "PASTE"
  <2>1. writes' = Tail(writes) \/ writes' = <<>>
    BY DEF write_sector, lose_sector
  <2> DEFINE t == Tail(writes)
  <2>2. \A i \in DOMAIN t : i + 1 \in DOMAIN writes /\ t[i] = writes[i + 1]
    BY <1>2, TailOfQueue
  <2> HIDE DEF t
  <2>3. CASE writes' = t
    BY <2>2, <2>3
  <2>4. CASE writes' = <<>>
    BY <2>4
  <2> QED
    BY <2>1, <2>3, <2>4 DEF t
<1> QED
  BY <1>1, <1>4, <1>5 DEF NtfsKnown, PasteSparesNtfs, here

\* The flag is set by OPEN from the boot sector that the drive has, as long as
\* the boot sector can be read.
LEMMA NextNtfs ==
  ASSUME NtfsInv, [Next]_vars, "read" \notin Faults
  PROVE  NtfsInv'
<1> USE DEF NtfsInv
<1>1. TypeInv'
  BY NextTypes
<1>2. CASE write_sector \/ lose_sector
  BY <1>1, <1>2, NtfsWrites
<1>3. CASE crash \/ format
  <2>1. CASE crash
    BY <1>1, <2>1 DEF crash, NtfsKnown, PasteSparesNtfs
  <2>2. CASE format
    <3>1. "FORMAT" \in Handlers /\ ZeroDir \in Directories
      BY DirectoriesClosed DEF Handlers
    <3>2. LET q == Write("FORMAT", "boot", 0, "cfs") \o WriteDir("FORMAT", ZeroDir)
          IN  q \in Seq(Requests) /\ Carries(q, "FORMAT", ZeroDir)
      BY <3>1, WriteIsRequest, AroundNothing
    <3>3. Carries(writes', "FORMAT", ZeroDir)
      BY <2>2, <3>2, QueueNew DEF format
    <3> QED
      BY <1>1, <2>2, <3>3, NtfsKept DEF format, disk, Carries
  <2> QED
    BY <1>3, <2>1, <2>2
<1>4. CASE open_drive
  <2>1. PICK boot \in Reads(fs, "raw") : is_ntfs_drive' = IsNtfs(boot)
    BY <1>4 DEF open_drive
  <2>2. here # NoDrive /\ boot = fs[here]
    BY <1>4, <2>1 DEF open_drive, Reads
  <2>3. UNCHANGED <<fs, selected_drive_idx, writes>> /\ writes = <<>>
    BY <1>4 DEF open_drive, disk, Idle
  <2> QED
    BY <1>1, <2>1, <2>2, <2>3 DEF NtfsKnown, PasteSparesNtfs, IsNtfs, here
<1>5. CASE \/ back \/ back_to_root \/ \E d \in Drives : select(d)
           \/ \E s \in Slots : open_folder(s) \/ open_file(s) \/ copy(s)
           \/ \E t \in Texts : type_text(t)
           \/ \E step \in {"choose", "file", "folder", "closed"} : dialog(step)
  <2>1. writes' = <<>> /\ UNCHANGED fs
    BY <1>5 DEF back, back_to_root, select, open_folder, open_file, copy, type_text,
       dialog, Idle, disk
  <2>2. \/ UNCHANGED <<selected_drive_idx, is_ntfs_drive, dsk_mgr_opened>>
        \/ ~dsk_mgr_opened'
    BY <1>5 DEF back, back_to_root, select, open_folder, open_file, copy, type_text,
       dialog, mount, explorer
  <2> QED
    BY <1>1, <2>1, <2>2, NtfsKept DEF NtfsKnown, PasteSparesNtfs
<1>6. CASE paste
  <2>1. dsk_mgr_opened /\ ~is_ntfs_drive /\ here # NoDrive /\ fs[here] # "ntfs"
    BY <1>6 DEF paste, NtfsKnown
  <2>2. UNCHANGED <<fs, selected_drive_idx, is_ntfs_drive, dsk_mgr_opened>>
    BY <1>6 DEF paste, disk, mount, explorer
  <2> QED
    BY <1>1, <2>1, <2>2 DEF NtfsKnown, PasteSparesNtfs, here
<1>7. CASE add_file \/ mkdir \/ save \/ save_as \/ new_folder
  <2>1. UNCHANGED <<fs, selected_drive_idx, is_ntfs_drive, dsk_mgr_opened>>
    BY <1>7 DEF add_file, mkdir, save, save_as, new_folder, disk, mount, explorer
  <2>2. \A i \in DOMAIN writes' : writes'[i].by # "PASTE"
    <3>1. CASE writes' = <<>>
      BY <3>1
    <3>2. CASE save
      BY <3>2, SaveTypes DEF NoDir
    <3>3. ASSUME NEW h \in Handlers \ {"PASTE"}, NEW e, NEW s, NEW x, Puts(h, e, s, x)
          PROVE  \A i \in DOMAIN writes' : writes'[i].by # "PASTE"
      BY <3>3 DEF Puts, Carries
    <3> QED
      BY <1>7, <3>1, <3>2, <3>3, AddFileTypes, MkdirTypes, SaveAsTypes, NewFolderTypes
         DEF PutsNothing, Handlers
  <2> QED
    BY <1>1, <2>1, <2>2, NtfsKept
<1>8. CASE \E n \in PkgSectors, t \in Texts : install(n, t)
  <2>1. UNCHANGED <<fs, selected_drive_idx, is_ntfs_drive, dsk_mgr_opened>>
    BY <1>8 DEF install, disk, mount, explorer
  <2>2. \E new : Carries(writes', "INSTALL", new)
    BY <1>8, InstallTypes
  <2>3. \A i \in DOMAIN writes' : writes'[i].by # "PASTE"
    BY <2>2 DEF Carries
  <2> QED
    BY <1>1, <2>1, <2>3, NtfsKept
<1>9. CASE UNCHANGED vars
  BY <1>1, <1>9 DEF vars, disk, mount, explorer, NtfsKnown, PasteSparesNtfs, here
<1> QED
  BY <1>2, <1>3, <1>4, <1>5, <1>6, <1>7, <1>8, <1>9 DEF Next

\* PASTE spares every NTFS drive, whatever was opened, formatted or lost before,
\* as long as boot sectors can be read.  (One that cannot be read leaves the flag
\* of the drive opened before, and the assumption cannot be dropped.)
THEOREM PasteIsSafe ==
  Kinds \subseteq FileSystems /\ "read" \notin Faults => (Spec => []PasteSparesNtfs)
<1> SUFFICES ASSUME Kinds \subseteq FileSystems, "read" \notin Faults
             PROVE  Spec => []PasteSparesNtfs
  OBVIOUS
<1>1. Init => NtfsInv
  BY InitTypeInv DEF Init, NtfsInv, NtfsKnown, PasteSparesNtfs
<1>2. NtfsInv /\ [Next]_vars => NtfsInv'
  BY NextNtfs
<1>3. NtfsInv => PasteSparesNtfs
  BY DEF NtfsInv
<1> QED
  BY <1>1, <1>2, <1>3, PTL DEF Spec

-----------------------------------------------------------------------------
(* Entries in use.                                                         *)

\* The directory on its way to the disk keeps every entry that the one on the
\* disk has in use, unless FORMAT wrote it.
PendingKeeps == \A i \in DOMAIN writes :
                  writes[i].what = "dir" /\ writes[i].by # "FORMAT" =>
                    \A s \in Used(here) : writes[i].value[s] = dir[here][s]
OverInv == TypeInv /\ PendingKeeps
Kept    == \A d \in Drives : \A s \in Used(d) :
             dir'[d][s] = dir[d][s] \/ Head(writes).by = "FORMAT"

\* Without read errors a handler adds its entry to the directory of the disk.
LEMMA ReadsTheDisk ==
  ASSUME TypeInv, "read" \notin Faults, here # NoDrive, NEW before
  PROVE  Reads(dir, before) = {dir[here]} /\ here \in Drives
         /\ dir[here] \in Directories /\ dir[here] \in [Slots -> Entries]
  BY DEF Reads, TypeInv, TypeOK, DirsOK, here

\* An entry in a free slot leaves those in use.
LEMMA PutsKeeps ==
  ASSUME OverInv, UNCHANGED <<dir, selected_drive_idx>>, here \in Drives,
         dir[here] \in [Slots -> Entries],
         NEW h, NEW slot, NEW x, Puts(h, dir[here], slot, x)
  PROVE  PendingKeeps' /\ Kept
<1> DEFINE new == [dir[here] EXCEPT ![slot] = x]
<1>1. slot \in Slots /\ dir[here][slot].type = 0 /\ Carries(writes', h, new)
  BY DEF Puts
<1>2. \A s \in Used(here) : new[s] = dir[here][s]
  BY <1>1 DEF Used
<1>3. Used(here)' = Used(here) /\ dir' = dir /\ here' = here
  BY DEF Used, here
<1> HIDE DEF new
<1> QED
  BY <1>1, <1>2, <1>3 DEF PendingKeeps, Kept, Carries

\* One sector reaches the disk, or is lost.
LEMMA WritesKeep ==
  ASSUME OverInv, write_sector \/ lose_sector
  PROVE  PendingKeeps' /\ Kept
<1> DEFINE w == Head(writes)
           t == Tail(writes)
<1>1. QueueOK /\ ~Idle /\ here \in Drives /\ here' = here
  BY DEF OverInv, TypeInv, TypeOK, write_sector, lose_sector, here
<1>2. /\ w = writes[1] /\ 1 \in DOMAIN writes
      /\ \A i \in DOMAIN t : i + 1 \in DOMAIN writes /\ i + 1 # 1 /\ t[i] = writes[i + 1]
  BY <1>1, TailOfQueue
<1>3. /\ writes' = t \/ writes' = <<>>
      /\ dir' = dir \/ (w.what = "dir" /\ dir' = [dir EXCEPT ![here] = w.value])
  BY DEF write_sector, lose_sector, disk
<1> HIDE DEF w, t
<1>4. CASE dir' = dir
  <2>1. \A i \in DOMAIN writes' : \E j \in DOMAIN writes : writes'[i] = writes[j]
    <3>1. CASE writes' = t
      BY <1>2, <3>1
    <3>2. CASE writes' = <<>>
      BY <3>2
    <3> QED
      BY <1>3, <3>1, <3>2
  <2> QED
    BY <1>1, <1>4, <2>1 DEF OverInv, PendingKeeps, Kept, Used, here
<1>5. CASE w.what = "dir" /\ dir' = [dir EXCEPT ![here] = w.value]
  <2>1. PICK h, new : Carries(writes, h, new)
    BY <1>1 DEF QueueOK
  <2>2. \A i \in DOMAIN t : t[i].what # "dir"
    BY <1>2, <1>5, <2>1 DEF Carries
  <2>3. PendingKeeps'
    <3>1. CASE writes' = t
      BY <2>2, <3>1 DEF PendingKeeps
    <3>2. CASE writes' = <<>>
      BY <3>2 DEF PendingKeeps
    <3> QED
      BY <1>3, <3>1, <3>2
  <2>4. w.by # "FORMAT" => \A s \in Used(here) : w.value[s] = dir[here][s]
    BY <1>2, <1>5 DEF OverInv, PendingKeeps
  <2>5. dir \in [Drives -> Directories]
    BY DEF OverInv, TypeInv, DirsOK
  <2>6. dir'[here] = w.value /\ \A d \in Drives : d # here => dir'[d] = dir[d]
    BY <1>1, <1>5, <2>5
  <2>7. Kept
    <3> SUFFICES ASSUME NEW d \in Drives, NEW s \in Used(d)
                 PROVE  dir'[d][s] = dir[d][s] \/ Head(writes).by = "FORMAT"
      BY DEF Kept
    <3> QED
      BY <2>4, <2>6 DEF w
  <2> QED
    BY <2>3, <2>7
<1> QED
  BY <1>3, <1>4, <1>5

\* Handlers write the directory they read with one entry more, and FORMAT a
\* zeroed one.
LEMMA NextKeeps ==
  ASSUME OverInv, [Next]_vars, "read" \notin Faults, "INSTALL" \notin Buttons
  PROVE  OverInv' /\ Kept
<1>1. TypeInv' /\ TypeInv
  BY NextTypes DEF OverInv
<1>2. CASE write_sector \/ lose_sector
  BY <1>1, <1>2, WritesKeep DEF OverInv
<1>3. ASSUME UNCHANGED dir, writes' = <<>> PROVE OverInv' /\ Kept
  BY <1>1, <1>3 DEF OverInv, PendingKeeps, Kept
<1>4. CASE \/ crash \/ open_drive \/ back \/ back_to_root \/ \E d \in Drives : select(d)
           \/ \E s \in Slots : open_folder(s) \/ open_file(s) \/ copy(s)
           \/ \E t \in Texts : type_text(t)
           \/ \E step \in {"choose", "file", "folder", "closed"} : dialog(step)
  <2>1. writes' = <<>> /\ UNCHANGED dir
    BY <1>4 DEF crash, open_drive, back, back_to_root, select, open_folder, open_file,
       copy, type_text, dialog, Idle, disk
  <2> QED
    BY <1>3, <2>1
<1>5. CASE format
  <2>1. "FORMAT" \in Handlers /\ ZeroDir \in Directories
    BY DirectoriesClosed DEF Handlers
  <2>2. LET q == Write("FORMAT", "boot", 0, "cfs") \o WriteDir("FORMAT", ZeroDir)
        IN  q \in Seq(Requests) /\ Carries(q, "FORMAT", ZeroDir)
    BY <2>1, WriteIsRequest, AroundNothing
  <2>3. Carries(writes', "FORMAT", ZeroDir)
    BY <1>5, <2>2, QueueNew DEF format
  <2>4. dir' = dir
    BY <1>5 DEF format, disk
  <2> QED
    BY <1>1, <2>3, <2>4 DEF OverInv, PendingKeeps, Kept, Carries
<1>6. CASE save
  <2>1. NoDir(writes', "SAVE") /\ dir' = dir
    BY <1>1, <1>6, SaveTypes DEF save, disk
  <2> QED
    BY <1>1, <2>1 DEF OverInv, PendingKeeps, Kept, NoDir
<1>7. CASE paste \/ add_file \/ mkdir \/ save_as \/ new_folder
  <2>1. UNCHANGED <<dir, selected_drive_idx>>
    BY <1>7 DEF paste, add_file, mkdir, save_as, new_folder, disk
  <2>2. ASSUME NEW h, NEW before, NEW entries \in Reads(dir, before), NEW slot, NEW x,
               Puts(h, entries, slot, x)
        PROVE  OverInv' /\ Kept
    <3>1. here # NoDrive
      BY <2>2 DEF Puts
    <3>2. entries = dir[here] /\ here \in Drives /\ dir[here] \in [Slots -> Entries]
      BY <1>1, <2>2, <3>1, ReadsTheDisk
    <3> QED
      BY <1>1, <2>1, <2>2, <3>2, PutsKeeps DEF OverInv
  <2>3. PutsNothing => OverInv' /\ Kept
    BY <1>3, <2>1 DEF PutsNothing
  <2>4. CASE paste
    BY <1>1, <2>2, <2>3, <2>4, PasteTypes
  <2>5. CASE add_file
    BY <1>1, <2>2, <2>3, <2>5, AddFileTypes
  <2>6. CASE mkdir
    BY <1>1, <2>2, <2>3, <2>6, MkdirTypes
  <2>7. CASE save_as
    BY <1>1, <2>2, <2>3, <2>7, SaveAsTypes
  <2>8. CASE new_folder
    BY <1>1, <2>2, <2>3, <2>8, NewFolderTypes
  <2> QED
    BY <1>7, <2>4, <2>5, <2>6, <2>7, <2>8
<1>8. CASE UNCHANGED vars
  BY <1>1, <1>8 DEF vars, disk, OverInv, PendingKeeps, Kept, Used, here
<1> QED
  BY <1>2, <1>4, <1>5, <1>6, <1>7, <1>8 DEF Next, Pressed

\* No handler but FORMAT takes the slot of an entry in use, at any moment, on any
\* drive, and whatever sectors are lost or cut off by a power failure: as long as
\* reads succeed and nothing is installed.  INSTALL looks for its slot in the
\* explorer's copy, and a read that fails leaves the directory of another drive.
THEOREM EntriesStay ==
  Kinds \subseteq FileSystems /\ "read" \notin Faults /\ "INSTALL" \notin Buttons
    => (Spec => NothingOverwritten)
<1> SUFFICES ASSUME Kinds \subseteq FileSystems, "read" \notin Faults,
                    "INSTALL" \notin Buttons
             PROVE  Spec => NothingOverwritten
  OBVIOUS
<1>1. Init => OverInv
  BY InitTypeInv DEF Init, OverInv, PendingKeeps
<1>2. OverInv /\ [Next]_vars => OverInv' /\ [Kept]_vars
  BY NextKeeps
<1>3. Spec => [][Kept]_vars
  BY <1>1, <1>2, PTL DEF Spec
<1>4. Kept <=> \A d \in Drives : \A s \in Used(d) :
                 dir'[d][s] = dir[d][s] \/ Head(writes).by = "FORMAT"
  BY DEF Kept
<1> QED
  BY <1>3, <1>4, PTL DEF NothingOverwritten

-----------------------------------------------------------------------------
(* The explorer's copy of the directory.                                   *)

\* The directory of the selected drive once the running handler is through.
IsTarget(e) ==
  IF HasDir(writes) THEN \E i \in DOMAIN writes : writes[i].what = "dir" /\ e = writes[i].value
  ELSE e = dir[here]

\* Between handlers it is the one on the disk.
LEMMA TargetIdle == Idle => \A e : IsTarget(e) <=> e = dir[here]
  BY DEF Idle, IsTarget, HasDir

\* A handler that leaves the directory alone leaves the target alone.
LEMMA TargetLone ==
  ASSUME UNCHANGED <<dir, selected_drive_idx>>, Idle, NEW h, NoDir(writes', h)
  PROVE  \A e : IsTarget(e)' <=> e = dir[here]
  BY DEF IsTarget, HasDir, NoDir, here

\* A new entry makes it the target.
LEMMA TargetPut ==
  ASSUME UNCHANGED <<dir, selected_drive_idx>>, NEW h, NEW entries, NEW slot, NEW x,
         Puts(h, entries, slot, x)
  PROVE  \A e : IsTarget(e)' <=> e = [entries EXCEPT ![slot] = x]
<1> DEFINE new == [entries EXCEPT ![slot] = x]
<1>1. HasDir(writes') /\ Carries(writes', h, new)
  BY DEF Puts
<1>2. HasDir(writes)'
  BY <1>1 DEF HasDir
<1> HIDE DEF new
<1>3. \A e : IsTarget(e)' <=> e = new
  BY <1>1, <1>2 DEF IsTarget, HasDir, Carries
<1> QED
  BY <1>3 DEF new

\* A sector that reaches the disk brings the directory nearer to the target.
LEMMA TargetWrite ==
  ASSUME TypeInv, write_sector
  PROVE  \A e : IsTarget(e)' => IsTarget(e)
<1> DEFINE w == Head(writes)
           t == Tail(writes)
<1>1. QueueOK /\ ~Idle /\ here \in Drives /\ here' = here
  BY DEF TypeInv, TypeOK, write_sector, here
<1>2. /\ w = writes[1] /\ 1 \in DOMAIN writes /\ writes \in Seq(Requests) /\ writes # <<>>
      /\ \A i \in DOMAIN t : i + 1 \in DOMAIN writes /\ i + 1 # 1 /\ t[i] = writes[i + 1]
  BY <1>1, TailOfQueue DEF QueueOK, Idle
<1>3. \A i \in DOMAIN writes : i # 1 => i - 1 \in DOMAIN t /\ t[i - 1] = writes[i]
  <2>1. /\ Len(writes) \in Nat /\ Len(t) = Len(writes) - 1
        /\ DOMAIN writes = 1 .. Len(writes) /\ DOMAIN t = 1 .. Len(t)
        /\ \A i \in 1 .. Len(t) : t[i] = writes[i + 1]
    BY <1>2, HeadTailProperties, LenProperties
  <2> HIDE DEF t
  <2> QED
    BY <2>1
<1>4. /\ writes' = t
      /\ dir' = IF w.what = "dir" THEN [dir EXCEPT ![here] = w.value] ELSE dir
  BY DEF write_sector
<1>5. dir \in [Drives -> Directories]
  BY DEF TypeInv, DirsOK
<1> HIDE DEF w, t
<1>6. CASE w.what = "dir"
  <2>1. PICK h, new : Carries(writes, h, new)
    BY <1>1 DEF QueueOK
  <2>2. ~ HasDir(writes)'
    BY <1>2, <1>4, <1>6, <2>1 DEF Carries, HasDir
  <2>3. dir'[here] = w.value
    BY <1>1, <1>4, <1>5, <1>6
  <2>4. HasDir(writes)
    BY <1>2, <1>6 DEF HasDir
  <2> QED
    BY <1>1, <1>2, <1>6, <2>2, <2>3, <2>4 DEF IsTarget
<1>7. CASE w.what # "dir"
  <2>1. \A i \in DOMAIN writes : writes[i].what = "dir" => i # 1
    BY <1>2, <1>7
  <2>2. HasDir(writes)' <=> HasDir(writes)
    BY <1>2, <1>3, <1>4, <2>1 DEF HasDir
  <2>3. dir' = dir
    BY <1>4, <1>7
  <2> QED
    BY <1>1, <1>2, <1>4, <2>2, <2>3 DEF IsTarget
<1> QED
  BY <1>6, <1>7

\* The copy is the target's, on a CFS drive that is open; nothing formats it
\* then, and neither flag sends the explorer to a foreign file system.
NoFat   == ~is_fat32_drive /\ \A d \in Drives : fs[d] # "fat"
InView  == dsk_mgr_opened => /\ here # NoDrive
                             /\ \A i \in DOMAIN writes : writes[i].by # "FORMAT"
CopyOK  == dsk_mgr_opened /\ fs[here] = "cfs" =>
             ~is_ntfs_drive /\ \A e : IsTarget(e) => cfs_files = Copied(e)
CopyInv == TypeInv /\ NoFat /\ InView /\ CopyOK

\* Steps that leave the explorer's copy and the directories alone.
LEMMA CopyKept ==
  ASSUME CopyInv, Idle, writes' = <<>>,
         UNCHANGED <<fs, dir, selected_drive_idx, is_ntfs_drive, is_fat32_drive>>,
         dsk_mgr_opened' => dsk_mgr_opened,
         here # NoDrive /\ fs[here] = "cfs" /\ dsk_mgr_opened => cfs_files' = cfs_files
  PROVE  NoFat' /\ InView' /\ CopyOK'
<1>1. Idle' /\ here' = here
  BY DEF Idle, here
<1>2. \A e : (IsTarget(e)' <=> e = dir[here]) /\ (IsTarget(e) <=> e = dir[here])
  BY <1>1, TargetIdle DEF IsTarget, Idle, HasDir
<1> QED
  BY <1>1, <1>2 DEF CopyInv, NoFat, InView, CopyOK

\* What the copy becomes when an entry is made in both.
LEMMA CopiedPut ==
  ASSUME NEW e \in [Slots -> Entries], NEW slot \in Slots, NEW x \in Entries, x.type # 0
  PROVE  [Copied(e) EXCEPT ![slot] = x] = Copied([e EXCEPT ![slot] = x])
  BY DEF Copied, NoFiles

\* The handlers that make an entry in both.
LEMMA CopyPuts ==
  ASSUME CopyInv, "read" \notin Faults, Idle, save_as \/ new_folder
  PROVE  NoFat' /\ InView' /\ CopyOK'
<1>1. TypeInv
  BY DEF CopyInv
<1>2. /\ UNCHANGED <<fs, dir, selected_drive_idx, is_ntfs_drive, is_fat32_drive,
                     dsk_mgr_opened>>
      /\ here' = here
  BY DEF save_as, new_folder, disk, mount, explorer, here
<1>3. CASE PutsNothing
  BY <1>2, <1>3, CopyKept DEF PutsNothing
<1>4. ASSUME NEW h \in {"SAVE AS", "NEW FOLDER"}, NEW before, NEW entries \in Reads(dir, before),
             NEW slot, NEW x, Puts(h, entries, slot, x),
             cfs_files' = [cfs_files EXCEPT ![slot] = x]
      PROVE  NoFat' /\ InView' /\ CopyOK'
  <2>1. here # NoDrive /\ slot \in Slots /\ x \in Entries /\ x.type # 0
        /\ \A i \in DOMAIN writes' : writes'[i].by # "FORMAT"
    BY <1>4 DEF Puts, Carries
  <2>2. entries = dir[here] /\ dir[here] \in [Slots -> Entries]
    BY <1>1, <1>4, <2>1, ReadsTheDisk
  <2>3. \A e : IsTarget(e)' <=> e = [entries EXCEPT ![slot] = x]
    BY <1>2, <1>4, TargetPut
  <2>4. IsTarget(dir[here])
    BY TargetIdle
  <2>5. dsk_mgr_opened /\ fs[here] = "cfs" => cfs_files' = Copied([entries EXCEPT ![slot] = x])
    <3>1. dsk_mgr_opened /\ fs[here] = "cfs" => cfs_files = Copied(entries)
      BY <2>2, <2>4 DEF CopyInv, CopyOK
    <3>2. [Copied(entries) EXCEPT ![slot] = x] = Copied([entries EXCEPT ![slot] = x])
      BY <2>1, <2>2, CopiedPut
    <3> QED
      BY <1>4, <3>1, <3>2
  <2> QED
    BY <1>2, <2>1, <2>3, <2>5 DEF CopyInv, NoFat, InView, CopyOK
<1>5. CASE save_as
  BY <1>1, <1>3, <1>4, <1>5, SaveAsTypes
<1>6. CASE new_folder
  BY <1>1, <1>3, <1>4, <1>6, NewFolderTypes
<1> QED
  BY <1>5, <1>6

\* The handlers that make an entry in one of the two are left out.
Mirrored == Buttons \cap {"COPY", "+ FILE", "MKDIR", "INSTALL"} = {}

\* Every step keeps the copy true.
LEMMA NextCopy ==
  ASSUME CopyInv, [Next]_vars, Mirrored, Faults \subseteq {"crash"}
  PROVE  CopyInv'
<1>1. TypeInv' /\ TypeInv /\ "read" \notin Faults /\ "write" \notin Faults
  BY NextTypes DEF CopyInv
<1>2. CASE write_sector
  <2> DEFINE w == Head(writes)
  <2>1. QueueOK /\ ~Idle /\ here \in Drives /\ here' = here
    BY <1>1, <1>2 DEF TypeInv, TypeOK, write_sector, here
  <2>2. /\ w \in Requests /\ w = writes[1] /\ 1 \in DOMAIN writes
        /\ \A i \in DOMAIN Tail(writes) : /\ i + 1 \in DOMAIN writes
                                          /\ Tail(writes)[i] = writes[i + 1]
    BY <2>1, TailOfQueue
  <2>3. w.what = "boot" => w.by = "FORMAT"
    BY <2>2 DEF Requests, Request, Boots
  <2>4. UNCHANGED <<is_ntfs_drive, is_fat32_drive, dsk_mgr_opened, cfs_files>>
        /\ writes' = Tail(writes)
        /\ fs' = IF w.what = "boot" THEN [fs EXCEPT ![here] = "cfs"] ELSE fs
    BY <1>2 DEF write_sector, mount, explorer
  <2>5. dsk_mgr_opened => fs' = fs
    BY <2>2, <2>3, <2>4 DEF CopyInv, InView
  <2>6. NoFat'
    <3>1. fs \in [Drives -> FileSystems]
      BY <1>1 DEF TypeInv, TypeOK, FileSystems
    <3> HIDE DEF w
    <3>2. \A d \in Drives : fs'[d] # "fat"
      BY <2>1, <2>4, <3>1 DEF CopyInv, NoFat
    <3> QED
      BY <2>4, <3>2 DEF CopyInv, NoFat
  <2>7. InView'
    <3> DEFINE t == Tail(writes)
    <3>1. writes' = t /\ \A i \in DOMAIN t : i + 1 \in DOMAIN writes /\ t[i] = writes[i + 1]
      BY <2>2, <2>4
    <3> HIDE DEF t
    <3> QED
      BY <2>1, <2>4, <3>1 DEF CopyInv, InView
  <2>8. CopyOK'
    BY <1>1, <1>2, <2>1, <2>4, <2>5, TargetWrite DEF CopyInv, CopyOK
  <2> QED
    BY <1>1, <2>6, <2>7, <2>8 DEF CopyInv
<1>3. CASE crash
  BY <1>1, <1>3 DEF crash, disk, CopyInv, NoFat, InView, CopyOK
<1>4. CASE format
  BY <1>1, <1>4 DEF format, disk, CopyInv, NoFat, InView, CopyOK
<1>5. CASE open_drive
  <2>1. PICK boot \in Reads(fs, "raw"), entries \in Reads(dir, ZeroDir) :
          /\ is_ntfs_drive' = IsNtfs(boot)
          /\ is_fat32_drive' = IsFat32(boot)
          /\ cfs_files' = CASE boot = "raw" -> NoFiles
                            [] boot = "cfs" /\ ~is_fat32_drive -> Copied(entries)
                            [] OTHER -> Listing(Root, boot = "ntfs")
    BY <1>5 DEF open_drive
  <2>2. here # NoDrive /\ here' = here /\ here \in Drives /\ Idle
        /\ writes' = writes /\ UNCHANGED <<fs, dir>>
    BY <1>1, <1>5 DEF open_drive, disk, here, TypeInv, TypeOK
  <2>3. boot = fs[here] /\ entries = dir[here]
    BY <1>1, <2>1, <2>2, ReadsTheDisk DEF Reads
  <2>4. ~is_fat32_drive' /\ (fs[here] = "cfs" => ~is_ntfs_drive' /\ cfs_files' = Copied(dir[here]))
    BY <2>1, <2>2, <2>3 DEF CopyInv, NoFat, IsNtfs, IsFat32
  <2>5. \A e : IsTarget(e)' <=> e = dir[here]
    BY <2>2 DEF IsTarget, Idle, HasDir
  <2> QED
    BY <1>1, <2>2, <2>4, <2>5 DEF CopyInv, NoFat, InView, CopyOK, Idle
<1>6. ASSUME NEW d \in Drives, select(d) PROVE CopyInv'
  BY <1>1, <1>6 DEF select, disk, mount, explorer, CopyInv, NoFat, InView, CopyOK
<1>7. CASE \/ back \/ back_to_root \/ \E s \in Slots : open_folder(s) \/ open_file(s)
           \/ \E t \in Texts : type_text(t)
           \/ \E step \in {"choose", "file", "folder", "closed"} : dialog(step)
  <2>1. /\ Idle /\ writes' = <<>> /\ (dsk_mgr_opened' => dsk_mgr_opened)
        /\ UNCHANGED <<fs, dir, selected_drive_idx, is_ntfs_drive, is_fat32_drive>>
        /\ cfs_files' = cfs_files \/ Foreign_refresh(Root)
             \/ \E s \in Slots : Foreign_refresh(s)
    BY <1>7 DEF back, back_to_root, open_folder, open_file, type_text, dialog, disk,
       mount, explorer, Idle
  <2>2. here # NoDrive /\ fs[here] = "cfs" /\ dsk_mgr_opened => cfs_files' = cfs_files
    BY <2>1 DEF CopyInv, NoFat, CopyOK, Foreign_refresh
  <2> QED
    BY <1>1, <2>1, <2>2, CopyKept DEF CopyInv
<1>8. CASE save
  <2>1. /\ NoDir(writes', "SAVE") /\ Idle /\ here' = here
        /\ UNCHANGED <<fs, dir, selected_drive_idx, is_ntfs_drive, is_fat32_drive,
                       dsk_mgr_opened, cfs_files>>
    BY <1>1, <1>8, SaveTypes DEF save, disk, mount, explorer, here
  <2>2. \A e : IsTarget(e)' <=> e = dir[here]
    BY <2>1, TargetLone
  <2>3. IsTarget(dir[here])
    BY <2>1, TargetIdle
  <2> QED
    BY <1>1, <2>1, <2>2, <2>3 DEF CopyInv, NoFat, InView, CopyOK, NoDir
<1>9. CASE save_as \/ new_folder
  <2>1. Idle
    BY <1>9 DEF save_as, new_folder
  <2> QED
    BY <1>1, <1>9, <2>1, CopyPuts DEF CopyInv
<1>10. CASE UNCHANGED vars
  <2>1. UNCHANGED <<fs, dir, writes, selected_drive_idx, is_ntfs_drive, is_fat32_drive,
                    dsk_mgr_opened, cfs_files>>
    BY <1>10 DEF vars, disk, mount, explorer
  <2>2. \A e : IsTarget(e)' <=> IsTarget(e)
    BY <2>1 DEF IsTarget, here
  <2> QED
    BY <1>1, <2>1, <2>2 DEF CopyInv, NoFat, InView, CopyOK, here
<1> QED
  BY <1>1, <1>2, <1>3, <1>4, <1>5, <1>6, <1>7, <1>8, <1>9, <1>10
     DEF Next, Pressed, Mirrored, lose_sector

\* The explorer shows the directory of the drive it was opened on, through every
\* OPEN, FORMAT, SAVE, SAVE AS and NEW FOLDER, on any number of drives, and after
\* any power failure.  The assumptions leave out what the code does not mirror:
\* PASTE, + FILE, MKDIR and INSTALL write the directory and its copy differently,
\* a FAT32 drive leaves its flag, and a sector that is lost or cannot be read
\* is in one of the two only.
THEOREM ExplorerIsTrue ==
  /\ Kinds \subseteq FileSystems \ {"fat"} /\ Mirrored /\ Faults \subseteq {"crash"}
  => (Spec => []CopyAgrees)
<1> SUFFICES ASSUME Kinds \subseteq FileSystems \ {"fat"}, Mirrored,
                    Faults \subseteq {"crash"}
             PROVE  Spec => []CopyAgrees
  OBVIOUS
<1>1. Init => CopyInv
  BY InitTypeInv DEF Init, CopyInv, NoFat, InView, CopyOK
<1>2. CopyInv /\ [Next]_vars => CopyInv'
  BY NextCopy
<1>3. CopyInv => CopyAgrees
  BY TargetIdle DEF CopyInv, CopyOK, CopyAgrees
<1> QED
  BY <1>1, <1>2, <1>3, PTL DEF Spec

-----------------------------------------------------------------------------
(* The tree of folders.                                                    *)

\* A directory whose entries can all be reached from the root.
In(e)   == {s \in Slots : e[s].type # 0}
Tree(e) == \A S \in (SUBSET In(e)) \ {{}} :
             \E s \in S : \/ e[s].parent = Root
                          \/ e[s].parent \in {f \in In(e) \ S : e[f].type = 2}

\* A new entry in the root or in a folder of the same directory keeps it so.
LEMMA TreePut ==
  ASSUME NEW e \in [Slots -> Entries], NEW slot \in Slots, e[slot].type = 0,
         NEW x \in Entries, x.type # 0, Tree(e),
         x.parent = Root \/ (x.parent \in Slots /\ e[x.parent].type = 2)
  PROVE  Tree([e EXCEPT ![slot] = x])
<1> DEFINE new == [e EXCEPT ![slot] = x]
<1>1. /\ new[slot] = x /\ \A s \in Slots : s # slot => new[s] = e[s]
      /\ In(new) = In(e) \cup {slot} /\ slot \notin In(e)
  BY DEF In
<1> HIDE DEF new
<1> SUFFICES ASSUME NEW S \in SUBSET In(new), S # {}
             PROVE  \E s \in S : \/ new[s].parent = Root
                                 \/ new[s].parent \in {f \in In(new) \ S : new[f].type = 2}
  BY DEF Tree, new
<1>2. CASE S = {slot}
  <2>1. CASE x.parent = Root
    BY <1>1, <1>2, <2>1
  <2>2. CASE x.parent \in Slots /\ e[x.parent].type = 2
    <3>1. x.parent \in In(e) /\ x.parent # slot
      BY <2>2 DEF In
    <3> QED
      BY <1>1, <1>2, <2>2, <3>1
  <2> QED
    BY <2>1, <2>2
<1>3. CASE S # {slot}
  <2> DEFINE S0 == S \ {slot}
  <2>1. S0 \in SUBSET In(e) /\ S0 # {}
    <3>1. S0 \in SUBSET In(e)
      BY <1>1
    <3>2. ASSUME S0 = {} PROVE FALSE
      <4>1. \A y \in S : y = slot
        BY <3>2
      <4>2. PICK y \in S : TRUE
        OBVIOUS
      <4>3. S = {slot}
        BY <4>1, <4>2
      <4> QED
        BY <1>3, <4>3
    <3> QED
      BY <3>1, <3>2
  <2>2. PICK s \in S0 : \/ e[s].parent = Root
                        \/ e[s].parent \in {f \in In(e) \ S0 : e[f].type = 2}
    BY <2>1 DEF Tree
  <2>3. s \in S /\ s \in Slots /\ new[s] = e[s]
    BY <1>1, <2>1 DEF In
  <2>4. CASE e[s].parent \in {f \in In(e) \ S0 : e[f].type = 2}
    <3>1. /\ e[s].parent \in In(e) /\ e[s].parent \in Slots /\ e[s].parent # slot
          /\ e[s].parent \notin S /\ e[e[s].parent].type = 2
      BY <1>1, <2>4 DEF In
    <3> QED
      BY <1>1, <2>3, <3>1
  <2> QED
    BY <2>2, <2>3, <2>4
<1> QED
  BY <1>2, <1>3

\* A formatted directory has nothing to reach.
LEMMA TreeOfNothing == Tree(ZeroDir)
<1>1. \A s \in Slots : ZeroDir[s].type = 0
  BY DEF ZeroDir, Entry
<1>2. ASSUME NEW e, \A s \in Slots : e[s].type = 0 PROVE Tree(e)
  <2> SUFFICES ASSUME NEW S \in (SUBSET In(e)) \ {{}} PROVE FALSE
    BY DEF Tree
  <2>1. S # {} /\ S \subseteq In(e)
    OBVIOUS
  <2>2. \E s \in S : s \in In(e)
    BY <2>1
  <2> QED
    BY <1>2, <2>2 DEF In
<1> QED
  BY <1>1, <1>2

\* Every directory on a disk or on its way is a tree, and while the explorer is
\* shown its folders, and the one that is open, are folders of the directory.
NoForeign == /\ ~is_ntfs_drive /\ ~is_fat32_drive
             /\ \A d \in Drives : fs[d] \in {"cfs", "raw"}
Trees     == /\ \A d \in Drives : Tree(dir[d])
             /\ \A i \in DOMAIN writes : writes[i].what = "dir" => Tree(writes[i].value)
FoldersIn(e) == /\ \A s \in Slots : cfs_files[s].type = 2 => e[s].type = 2
                /\ current_folder_id # Root => e[current_folder_id].type = 2
Sound(e)  == Tree(e) /\ (dsk_mgr_opened => FoldersIn(e))
FoldersOK == dsk_mgr_opened => \A e : IsTarget(e) => FoldersIn(e)
TreeInv   == /\ TypeInv /\ NoForeign /\ InView /\ Trees /\ FoldersOK /\ RootWhenClosed
             /\ Sound(buf_dir)

\* A directory that was read is one, whether the read succeeded or not.
LEMMA ReadsSound ==
  ASSUME TreeInv, Idle, NEW entries \in Reads(dir, buf_dir)
  PROVE  Sound(entries) /\ entries \in [Slots -> Entries]
<1>1. CASE entries = buf_dir
  BY <1>1 DEF TreeInv, TypeInv, TypeOK
<1>2. CASE here # NoDrive /\ entries = dir[here]
  <2>1. here \in Drives /\ dir[here] \in [Slots -> Entries]
    BY <1>2 DEF TreeInv, TypeInv, TypeOK, here
  <2> QED
    BY <1>2, <2>1, TargetIdle DEF TreeInv, Trees, FoldersOK, Sound
<1> QED
  BY <1>1, <1>2 DEF Reads

\* And stays one with a new entry in the open folder.
LEMMA SoundPut ==
  ASSUME TreeInv, UNCHANGED explorer,
         NEW entries \in [Slots -> Entries], Sound(entries),
         NEW slot \in Slots, entries[slot].type = 0,
         NEW x \in Entries, x.type # 0, x.parent = current_folder_id,
         dsk_mgr_opened => \/ cfs_files' = cfs_files
                           \/ cfs_files' = [cfs_files EXCEPT ![slot] = x]
  PROVE  Sound([entries EXCEPT ![slot] = x])'
<1> DEFINE new == [entries EXCEPT ![slot] = x]
<1>0. TypeInv /\ cfs_files \in [Slots -> Entries]
  BY DEF TreeInv, TypeInv, TypeOK
<1>1. UNCHANGED <<dsk_mgr_opened, current_folder_id>>
  BY DEF explorer
<1>2. current_folder_id = Root
      \/ (current_folder_id \in Slots /\ entries[current_folder_id].type = 2)
  <2>1. current_folder_id \in Slots \cup {Root}
    BY <1>0 DEF TypeInv, TypeOK
  <2> QED
    BY <2>1 DEF Sound, TreeInv, RootWhenClosed, FoldersIn
<1>3. Tree(new)
  BY <1>2, TreePut DEF Sound
<1>4. new[slot] = x /\ \A s \in Slots : s # slot => new[s] = entries[s]
  OBVIOUS
<1> HIDE DEF new
<1>5. \A s \in Slots : entries[s].type = 2 => new[s].type = 2
  BY <1>4
<1>6. dsk_mgr_opened => \A s \in Slots : cfs_files'[s].type = 2 => new[s].type = 2
  <2>1. ASSUME NEW s \in Slots, dsk_mgr_opened, cfs_files'[s].type = 2
        PROVE  new[s].type = 2
    <3>1. CASE cfs_files' = cfs_files
      BY <1>5, <2>1, <3>1 DEF Sound, FoldersIn
    <3>2. CASE cfs_files' = [cfs_files EXCEPT ![slot] = x]
      <4>1. CASE s = slot
        BY <1>0, <1>4, <2>1, <3>2, <4>1
      <4>2. CASE s # slot
        BY <1>0, <1>5, <2>1, <3>2, <4>2 DEF Sound, FoldersIn
      <4> QED
        BY <4>1, <4>2
    <3> QED
      BY <2>1, <3>1, <3>2
  <2> QED
    BY <2>1
<1>7. dsk_mgr_opened => FoldersIn(new)'
  BY <1>1, <1>2, <1>5, <1>6 DEF FoldersIn
<1>8. Tree(new)'
  BY <1>3 DEF Tree, In
<1>9. Sound(new)'
  BY <1>1, <1>7, <1>8 DEF Sound
<1> QED
  BY <1>9 DEF new

\* Steps that leave the directories alone, and the folders known to be there.
LEMMA TreeKept ==
  ASSUME TreeInv, Idle, UNCHANGED <<fs, dir, selected_drive_idx, is_ntfs_drive, is_fat32_drive>>,
         NEW h, h # "FORMAT", NoDir(writes', h),
         dsk_mgr_opened' => here # NoDrive /\ FoldersIn(dir[here])'
  PROVE  NoForeign' /\ InView' /\ Trees' /\ FoldersOK'
<1>1. here' = here /\ dir' = dir
  BY DEF here
<1>2. \A e : IsTarget(e)' <=> e = dir[here]
  BY TargetLone
<1>3. NoForeign'
  BY DEF TreeInv, NoForeign
<1>4. InView' /\ Trees'
  BY <1>1 DEF TreeInv, InView, Trees, NoDir
<1>5. FoldersOK'
  BY <1>1, <1>2 DEF FoldersOK, FoldersIn
<1> QED
  BY <1>3, <1>4, <1>5

\* One sector reaches the disk.
LEMMA TreeWrites ==
  ASSUME TreeInv, write_sector
  PROVE  NoForeign' /\ InView' /\ Trees' /\ FoldersOK'
<1> DEFINE w == Head(writes)
           t == Tail(writes)
<1>0. TypeInv
  BY DEF TreeInv
<1>1. QueueOK /\ ~Idle /\ here \in Drives /\ here' = here
  BY <1>0 DEF TypeInv, TypeOK, write_sector, here
<1>2. /\ w \in Requests /\ w = writes[1] /\ 1 \in DOMAIN writes
      /\ \A i \in DOMAIN t : i + 1 \in DOMAIN writes /\ t[i] = writes[i + 1]
  BY <1>1, TailOfQueue
<1>3. UNCHANGED <<is_ntfs_drive, is_fat32_drive, dsk_mgr_opened, cfs_files, current_folder_id>>
  BY DEF write_sector, mount, explorer
<1>4. /\ writes' = t
      /\ fs' = IF w.what = "boot" THEN [fs EXCEPT ![here] = "cfs"] ELSE fs
      /\ dir' = IF w.what = "dir" THEN [dir EXCEPT ![here] = w.value] ELSE dir
  BY DEF write_sector
<1> HIDE DEF w, t
<1>5. NoForeign'
  <2>1. fs \in [Drives -> FileSystems]
    BY <1>0 DEF TypeInv, TypeOK, FileSystems
  <2>2. ASSUME NEW d \in Drives PROVE fs'[d] \in {fs[d], "cfs"}
    BY <1>4, <2>1
  <2>3. \A d \in Drives : fs'[d] \in {"cfs", "raw"}
    BY <2>2 DEF TreeInv, NoForeign
  <2> QED
    BY <1>3, <2>3 DEF TreeInv, NoForeign
<1>6. InView'
  BY <1>1, <1>2, <1>3, <1>4 DEF TreeInv, InView
<1>7. Trees'
  <2>1. dir \in [Drives -> Directories]
    BY <1>0 DEF TypeInv, DirsOK
  <2>2. w.what = "dir" => Tree(w.value)
    BY <1>2 DEF TreeInv, Trees
  <2>3. \A d \in Drives : Tree(dir'[d])
    <3>1. ASSUME NEW d \in Drives
          PROVE  dir'[d] = dir[d] \/ (w.what = "dir" /\ dir'[d] = w.value)
      BY <1>4, <2>1
    <3> QED
      BY <2>2, <3>1 DEF TreeInv, Trees
  <2>4. \A i \in DOMAIN writes' : writes'[i].what = "dir" => Tree(writes'[i].value)
    BY <1>2, <1>4 DEF TreeInv, Trees
  <2> QED
    BY <2>3, <2>4 DEF Trees
<1>8. FoldersOK'
  <2>1. \A e : IsTarget(e)' => IsTarget(e)
    BY <1>0, TargetWrite
  <2> QED
    BY <1>3, <2>1 DEF TreeInv, FoldersOK, FoldersIn
<1> QED
  BY <1>5, <1>6, <1>7, <1>8

\* PASTE, SAVE AS and NEW FOLDER make an entry in the open folder.
LEMMA TreePuts ==
  ASSUME TreeInv, Idle,
         UNCHANGED <<fs, dir, selected_drive_idx, mount, explorer>>,
         NEW entries \in [Slots -> Entries], Sound(entries),
         NEW h, h # "FORMAT", NEW slot, NEW x,
         Puts(h, entries, slot, x), x.parent = current_folder_id,
         \/ cfs_files' = cfs_files
         \/ cfs_files' = [cfs_files EXCEPT ![slot] = x]
  PROVE  NoForeign' /\ InView' /\ Trees' /\ FoldersOK' /\ Sound([entries EXCEPT ![slot] = x])'
<1> DEFINE new == [entries EXCEPT ![slot] = x]
<1>1. slot \in Slots /\ entries[slot].type = 0 /\ x \in Entries /\ x.type # 0
      /\ here # NoDrive /\ Carries(writes', h, new)
  BY DEF Puts
<1>2. UNCHANGED <<is_ntfs_drive, is_fat32_drive, dsk_mgr_opened, current_folder_id>>
      /\ here' = here
  BY DEF mount, explorer, here
<1>3. Sound(new)'
  BY <1>1, SoundPut
<1>4. \A e : IsTarget(e)' <=> e = new
  BY TargetPut
<1> HIDE DEF new
<1>5. NoForeign' /\ InView'
  BY <1>1, <1>2 DEF TreeInv, NoForeign, InView, Carries
<1>6. Tree(new)
  BY <1>3 DEF Sound, Tree, In
<1>7. Trees'
  BY <1>1, <1>6 DEF TreeInv, Trees, Carries
<1>8. FoldersOK'
  BY <1>2, <1>3, <1>4 DEF FoldersOK, Sound, FoldersIn
<1> QED
  BY <1>3, <1>5, <1>7, <1>8 DEF new

\* SAVE AS and NEW FOLDER without a drive, or with a full directory, still leave
\* a sound directory in the buffer.
LEMMA BufferPut ==
  ASSUME TreeInv, save_as \/ new_folder, dsk_mgr_opened => cfs_files' = cfs_files
  PROVE  Sound(buf_dir)'
<1>1. Idle /\ UNCHANGED explorer
  BY DEF save_as, new_folder
<1>2. PICK entries \in Reads(dir, buf_dir), x \in Entries :
        /\ x.type # 0 /\ x.parent = current_folder_id
        /\ \/ buf_dir' = entries
           \/ /\ Free(entries, NumSlots) # {}
              /\ buf_dir' = [entries EXCEPT ![Min(Free(entries, NumSlots))] = x]
  <2>1. CASE save_as
    <3>1. PICK entries \in Reads(dir, buf_dir) :
            \/ buf_dir' = entries
            \/ /\ Free(entries, NumSlots) # {}
               /\ buf_dir' = [entries EXCEPT ![Min(Free(entries, NumSlots))] =
                    Entry(1, SaveLba(Min(Free(entries, NumSlots))), FileSectors,
                          current_folder_id)]
      BY <2>1 DEF save_as
    <3>2. CASE buf_dir' = entries
      <4>1. current_folder_id \in Slots \cup {Root}
        BY DEF TreeInv, TypeInv, TypeOK
      <4>2. Entry(2, 0, 0, current_folder_id) \in Entries
        BY <4>1, EntryFits
      <4> QED
        BY <3>2, <4>2 DEF Entry
    <3>3. CASE Free(entries, NumSlots) # {} /\ buf_dir' # entries
      <4> DEFINE slot == Min(Free(entries, NumSlots))
                 file == Entry(1, SaveLba(slot), FileSectors, current_folder_id)
      <4>1. current_folder_id \in Slots \cup {Root} /\ slot \in Slots
        <5>1. NumSlots \in 1 .. NumSlots
          BY LayoutAssumption
        <5> QED
          BY <3>3, <5>1, SlotIsFree DEF TreeInv, TypeInv, TypeOK
      <4> HIDE DEF slot
      <4>2. file \in Entries
        BY <4>1, EntryFits, FilesFit, LayoutFits, LayoutAssumption DEF Sectors
      <4>3. file.type # 0 /\ file.parent = current_folder_id
        BY DEF Entry
      <4>4. buf_dir' = [entries EXCEPT ![slot] = file]
        BY <3>1, <3>3 DEF slot
      <4> HIDE DEF file
      <4> QED
        BY <3>3, <4>2, <4>3, <4>4 DEF slot
    <3> QED
      BY <3>1, <3>2, <3>3
  <2>2. CASE new_folder
    <3>1. PICK entries \in Reads(dir, buf_dir) :
            \/ buf_dir' = entries
            \/ /\ Free(entries, NumSlots) # {}
               /\ buf_dir' = [entries EXCEPT ![Min(Free(entries, NumSlots))] =
                                Entry(2, 0, 0, current_folder_id)]
      BY <2>2 DEF new_folder
    <3>2. current_folder_id \in Slots \cup {Root}
      BY DEF TreeInv, TypeInv, TypeOK
    <3>3. Entry(2, 0, 0, current_folder_id) \in Entries
      BY <3>2, EntryFits
    <3>4. Entry(2, 0, 0, current_folder_id).type # 0
          /\ Entry(2, 0, 0, current_folder_id).parent = current_folder_id
      BY DEF Entry
    <3> HIDE DEF Entry
    <3> QED
      BY <3>1, <3>3, <3>4
  <2> QED
    BY <2>1, <2>2
<1>3. Sound(entries) /\ entries \in [Slots -> Entries]
  BY <1>1, ReadsSound
<1>4. CASE buf_dir' = entries
  BY <1>1, <1>3, <1>4 DEF Sound, FoldersIn, Tree, In, explorer
<1>5. CASE /\ Free(entries, NumSlots) # {}
           /\ buf_dir' = [entries EXCEPT ![Min(Free(entries, NumSlots))] = x]
  <2> DEFINE slot == Min(Free(entries, NumSlots))
  <2>1. slot \in Slots /\ entries[slot].type = 0
    <3>1. NumSlots \in 1 .. NumSlots
      BY LayoutAssumption
    <3> QED
      BY <1>5, <3>1, SlotIsFree
  <2>2. buf_dir' = [entries EXCEPT ![slot] = x]
    BY <1>5
  <2> HIDE DEF slot
  <2>3. Sound([entries EXCEPT ![slot] = x])'
    BY <1>1, <1>2, <1>3, <2>1, SoundPut
  <2> QED
    BY <2>2, <2>3 DEF Sound, FoldersIn, Tree, In
<1> QED
  BY <1>2, <1>4, <1>5

\* The handlers that make an entry without its parent are left out, and PASTE where
\* a read may fail: the folder of its entry is not in the zeroed buffer.
Parented == /\ Buttons \cap {"+ FILE", "MKDIR", "INSTALL"} = {}
            /\ "read" \in Faults => "COPY" \notin Buttons

\* Every step keeps the folders a tree.
LEMMA NextTree ==
  ASSUME TreeInv, [Next]_vars, Parented, "write" \notin Faults
  PROVE  TreeInv'
<1>1. TypeInv' /\ TypeInv /\ RootWhenClosed'
      /\ (Pressed("COPY") => "read" \notin Faults)
  BY NextTypes, NextRootWhenClosed DEF TreeInv, Parented, Pressed
<1>2. CASE write_sector
  <2>1. Sound(buf_dir)'
    BY <1>2 DEF write_sector, explorer, TreeInv, Sound, FoldersIn, Tree, In
  <2> QED
    BY <1>1, <1>2, <2>1, TreeWrites DEF TreeInv
<1>3. CASE crash
  <2>1. Sound(buf_dir)'
    BY <1>3, TreeOfNothing DEF crash, Sound, Tree, In
  <2> QED
    BY <1>1, <1>3, <2>1 DEF crash, disk, TreeInv, NoForeign, InView, Trees, FoldersOK
<1>4. CASE format
  <2>1. "FORMAT" \in Handlers /\ ZeroDir \in Directories
    BY DirectoriesClosed DEF Handlers
  <2>2. LET q == Write("FORMAT", "boot", 0, "cfs") \o WriteDir("FORMAT", ZeroDir)
        IN  q \in Seq(Requests) /\ Carries(q, "FORMAT", ZeroDir)
    BY <2>1, WriteIsRequest, AroundNothing
  <2>3. Carries(writes', "FORMAT", ZeroDir)
    BY <1>4, <2>2, QueueNew DEF format
  <2>4. Trees'
    BY <1>4, <2>3, TreeOfNothing DEF format, disk, TreeInv, Trees, Carries
  <2>5. Sound(buf_dir)'
    BY <1>4, TreeOfNothing DEF format, Sound, Tree, In
  <2> QED
    BY <1>1, <1>4, <2>4, <2>5 DEF format, disk, TreeInv, NoForeign, InView, FoldersOK
<1>5. CASE open_drive
  <2>1. PICK boot \in Reads(fs, "raw"), entries \in Reads(dir, ZeroDir) :
          /\ is_ntfs_drive' = IsNtfs(boot)
          /\ is_fat32_drive' = IsFat32(boot)
          /\ cfs_files' = CASE boot = "raw" -> NoFiles
                            [] boot = "cfs" /\ ~is_fat32_drive -> Copied(entries)
                            [] OTHER -> Listing(Root, boot = "ntfs")
          /\ buf_dir' = CASE boot = "raw" -> buf_dir
                          [] boot = "cfs" -> entries
                          [] OTHER -> ZeroDir
    BY <1>5 DEF open_drive
  <2>2. here # NoDrive /\ here' = here /\ here \in Drives /\ Idle
        /\ writes' = writes /\ UNCHANGED <<fs, dir>> /\ current_folder_id' = Root
    BY <1>1, <1>5 DEF open_drive, disk, here, TypeInv, TypeOK
  <2>3. boot \in {"cfs", "raw"} /\ entries \in {dir[here], ZeroDir}
    BY <1>1, <2>1, <2>2 DEF Reads, TreeInv, NoForeign
  <2>4. ~is_fat32_drive' /\ ~is_ntfs_drive'
        /\ \/ boot = "raw" /\ cfs_files' = NoFiles /\ buf_dir' = buf_dir
           \/ boot = "cfs" /\ cfs_files' = Copied(entries) /\ buf_dir' = entries
    BY <2>1, <2>2, <2>3 DEF TreeInv, NoForeign, IsNtfs, IsFat32
  <2>5. \A s \in Slots : cfs_files'[s].type = 2 =>
                           dir[here][s].type = 2 /\ buf_dir'[s].type = 2
    BY <2>3, <2>4 DEF Copied, NoFiles, ZeroDir, Entry
  <2>6. \A e : IsTarget(e)' <=> e = dir[here]
    BY <2>2 DEF IsTarget, Idle, HasDir
  <2>7. Tree(buf_dir)'
    <3>1. Tree(dir[here]) /\ Tree(buf_dir) /\ Tree(ZeroDir)
      BY <2>2, TreeOfNothing DEF TreeInv, Trees, Sound
    <3>2. buf_dir' = buf_dir \/ buf_dir' = dir[here] \/ buf_dir' = ZeroDir
      BY <2>3, <2>4
    <3> QED
      BY <3>1, <3>2 DEF Tree, In
  <2>8. Sound(buf_dir)'
    BY <2>2, <2>5, <2>7 DEF Sound, FoldersIn
  <2> QED
    BY <1>1, <2>2, <2>4, <2>5, <2>6, <2>8 DEF TreeInv, NoForeign, InView, Trees, FoldersOK,
       FoldersIn, Idle
<1>6. ASSUME NEW d \in Drives, select(d) PROVE TreeInv'
  <2>1. Sound(buf_dir)'
    BY <1>6 DEF select, explorer, TreeInv, Sound, Tree, In
  <2> QED
    BY <1>1, <1>6, <2>1 DEF select, disk, mount, explorer, TreeInv, NoForeign, InView, Trees,
       FoldersOK
<1>7. CASE \/ back \/ back_to_root \/ \E s \in Slots : open_folder(s) \/ open_file(s) \/ copy(s)
           \/ save \/ \E t \in Texts : type_text(t)
           \/ \E step \in {"choose", "file", "folder", "closed"} : dialog(step)
  <2>1. /\ Idle /\ (dsk_mgr_opened' => dsk_mgr_opened)
        /\ UNCHANGED <<fs, dir, selected_drive_idx, is_ntfs_drive, is_fat32_drive>>
        /\ cfs_files' = cfs_files \/ Foreign_refresh(Root)
             \/ \E s \in Slots : Foreign_refresh(s)
    BY <1>7 DEF back, back_to_root, open_folder, open_file, copy, type_text, dialog, disk,
       save, mount, explorer, Idle
  <2>2. cfs_files' = cfs_files
    BY <2>1 DEF TreeInv, NoForeign, Foreign_refresh
  <2>3. \/ current_folder_id' \in {current_folder_id, Root}
        \/ current_folder_id' \in Slots /\ cfs_files[current_folder_id'].type = 2
    BY <1>7 DEF back, back_to_root, open_folder, open_file, copy, type_text, dialog,
       save, explorer
  <2>4. NoDir(writes', "SAVE")
    <3>1. CASE writes' = <<>>
      BY <3>1 DEF NoDir
    <3>2. CASE save
      BY <1>1, <3>2, SaveTypes
    <3> QED
      BY <1>7, <3>1, <3>2 DEF back, back_to_root, open_folder, open_file, copy, type_text,
         dialog, Idle
  <2>5. dsk_mgr_opened => here # NoDrive /\ FoldersIn(dir[here])
    BY <2>1, TargetIdle DEF TreeInv, InView, FoldersOK
  <2>6. dsk_mgr_opened' => here # NoDrive /\ FoldersIn(dir[here])'
    BY <2>1, <2>2, <2>3, <2>5 DEF FoldersIn, here
  <2>7. PICK entries : buf_dir' = entries /\ Sound(entries)
    <3>1. CASE \E s \in Slots : open_file(s)
      <4>1. buf_dir' \in Reads(dir, buf_dir)
        BY <3>1 DEF open_file
      <4> QED
        BY <2>1, <4>1, ReadsSound
    <3>2. CASE buf_dir' = buf_dir
      BY <3>2 DEF TreeInv
    <3> QED
      BY <1>7, <3>1, <3>2 DEF back, back_to_root, open_folder, copy, type_text, dialog, save
  <2>8. Sound(buf_dir)'
    BY <2>1, <2>2, <2>3, <2>7 DEF Sound, FoldersIn, Tree, In
  <2> QED
    BY <1>1, <2>1, <2>4, <2>6, <2>8, TreeKept DEF TreeInv
<1>8. CASE (Pressed("COPY") /\ paste) \/ save_as \/ new_folder
  <2>1. Idle /\ UNCHANGED <<fs, dir, selected_drive_idx, mount, explorer>>
    BY <1>8 DEF paste, save_as, new_folder, disk
  <2>2. ASSUME PutsNothing, Sound(buf_dir)' PROVE TreeInv'
    <3>1. NoDir(writes', "SAVE") /\ (here # NoDrive => cfs_files' = cfs_files)
      BY <2>2 DEF PutsNothing, NoDir
    <3>2. dsk_mgr_opened' => here # NoDrive /\ FoldersIn(dir[here])'
      <4>1. dsk_mgr_opened => here # NoDrive /\ FoldersIn(dir[here])
        BY <2>1, TargetIdle DEF TreeInv, InView, FoldersOK
      <4> QED
        BY <2>1, <3>1, <4>1 DEF FoldersIn, here, explorer
    <3> QED
      BY <1>1, <2>1, <2>2, <3>1, <3>2, TreeKept DEF TreeInv, mount
  <2>3. ASSUME NEW entries \in [Slots -> Entries], Sound(entries),
               NEW h, h # "FORMAT", NEW slot, NEW x,
               Puts(h, entries, slot, x), x.parent = current_folder_id,
               buf_dir' = [entries EXCEPT ![slot] = x],
               \/ cfs_files' = cfs_files
               \/ cfs_files' = [cfs_files EXCEPT ![slot] = x]
        PROVE  TreeInv'
    <3>1. NoForeign' /\ InView' /\ Trees' /\ FoldersOK' /\ Sound([entries EXCEPT ![slot] = x])'
      BY <2>1, <2>3, TreePuts
    <3>2. Sound(buf_dir)'
      BY <2>3, <3>1 DEF Sound, FoldersIn, Tree, In
    <3> QED
      BY <1>1, <3>1, <3>2 DEF TreeInv
  <2>4. CASE Pressed("COPY") /\ paste
    <3>1. cfs_files' = cfs_files
      BY <2>4 DEF paste, Foreign_refresh, TreeInv, NoForeign
    <3>2. here # NoDrive /\ Reads(dir, ZeroDir) = {dir[here]} /\ Reads(dir, buf_dir) = {dir[here]}
      <4>1. here # NoDrive
        BY <2>4 DEF paste, TreeInv, InView
      <4> QED
        BY <1>1, <2>4, <4>1, ReadsTheDisk
    <3>3. Sound(dir[here]) /\ dir[here] \in [Slots -> Entries]
      BY <2>1, <3>2, ReadsSound
    <3>4. CASE PutsNothing /\ buf_dir' = dir[here]
      <4>1. Sound(buf_dir)'
        BY <2>1, <3>1, <3>3, <3>4 DEF Sound, FoldersIn, Tree, In, explorer
      <4> QED
        BY <2>2, <3>4, <4>1
    <3>5. ASSUME NEW slot, NEW x, Puts("PASTE", dir[here], slot, x), x.parent = current_folder_id,
                 buf_dir' = [dir[here] EXCEPT ![slot] = x]
          PROVE  TreeInv'
      BY <2>3, <3>1, <3>3, <3>5
    <3> QED
      BY <1>1, <2>4, <3>2, <3>4, <3>5, PasteTypes
  <2>5. CASE save_as
    <3>1. CASE PutsNothing
      <4>1. dsk_mgr_opened => cfs_files' = cfs_files
        BY <3>1 DEF PutsNothing, TreeInv, InView
      <4> QED
        BY <2>2, <2>5, <3>1, <4>1, BufferPut
    <3>2. ASSUME NEW entries \in Reads(dir, buf_dir), NEW slot, NEW x,
                 Puts("SAVE AS", entries, slot, x),
                 x = Entry(1, SaveLba(slot), FileSectors, current_folder_id),
                 cfs_files' = [cfs_files EXCEPT ![slot] = x],
                 buf_dir' = [entries EXCEPT ![slot] = x]
          PROVE  TreeInv'
      <4>1. x.parent = current_folder_id
        BY <3>2 DEF Entry
      <4>2. Sound(entries) /\ entries \in [Slots -> Entries]
        BY <2>1, ReadsSound
      <4> QED
        BY <2>3, <3>2, <4>1, <4>2
    <3> QED
      BY <1>1, <2>5, <3>1, <3>2, SaveAsTypes
  <2>6. CASE new_folder
    <3>1. CASE PutsNothing
      <4>1. dsk_mgr_opened => cfs_files' = cfs_files
        BY <3>1 DEF PutsNothing, TreeInv, InView
      <4> QED
        BY <2>2, <2>6, <3>1, <4>1, BufferPut
    <3>2. ASSUME NEW entries \in Reads(dir, buf_dir), NEW slot, NEW x,
                 Puts("NEW FOLDER", entries, slot, x),
                 x = Entry(2, 0, 0, current_folder_id),
                 cfs_files' = [cfs_files EXCEPT ![slot] = x],
                 buf_dir' = [entries EXCEPT ![slot] = x]
          PROVE  TreeInv'
      <4>1. x.parent = current_folder_id
        BY <3>2 DEF Entry
      <4>2. Sound(entries) /\ entries \in [Slots -> Entries]
        BY <2>1, ReadsSound
      <4> QED
        BY <2>3, <3>2, <4>1, <4>2
    <3> QED
      BY <1>1, <2>6, <3>1, <3>2, NewFolderTypes
  <2> QED
    BY <1>8, <2>4, <2>5, <2>6
<1>9. CASE UNCHANGED vars
  <2>1. UNCHANGED <<fs, dir, writes, selected_drive_idx, is_ntfs_drive, is_fat32_drive,
                    dsk_mgr_opened, current_folder_id, cfs_files, buf_dir>>
    BY <1>9 DEF vars, disk, mount, explorer
  <2>2. \A e : IsTarget(e)' <=> IsTarget(e)
    BY <2>1 DEF IsTarget, here
  <2>3. Sound(buf_dir)'
    BY <2>1 DEF TreeInv, Sound, FoldersIn, Tree, In
  <2> QED
    BY <1>1, <2>1, <2>2, <2>3 DEF TreeInv, NoForeign, InView, Trees, FoldersOK, FoldersIn, here
<1>10. ~lose_sector /\ ~(Pressed("+ FILE") /\ add_file) /\ ~(Pressed("MKDIR") /\ mkdir)
       /\ ~ \E n \in PkgSectors, t \in Texts : Pressed("INSTALL") /\ install(n, t)
  BY DEF lose_sector, Parented, Pressed
<1> QED
  BY <1>2, <1>3, <1>4, <1>5, <1>6, <1>7, <1>8, <1>9, <1>10 DEF Next

\* Every entry of every directory can be reached from the root, on any number of
\* drives and after any power failure: whoever makes an entry makes it in a folder
\* of the directory it is written to.  A read that fails does no harm: the
\* buffer then holds an older tree, which has the folders the explorer shows.  PASTE,
\* whose buffer is zeroed before, needs reads that succeed.  Left out are the handlers that
\* leave the parent of a free slot, foreign file systems (FORMAT first writes the boot
\* sector, and a directory with folders of the old file system follows), and
\* folders that are lost on the way to the disk.
THEOREM FoldersAreTrees ==
  Kinds \subseteq {"cfs", "raw"} /\ Parented /\ "write" \notin Faults
    => (Spec => []TreeRooted)
<1> SUFFICES ASSUME Kinds \subseteq {"cfs", "raw"}, Parented, "write" \notin Faults
             PROVE  Spec => []TreeRooted
  OBVIOUS
<1>1. Init => TreeInv
  <2> SUFFICES ASSUME Init PROVE TreeInv
    OBVIOUS
  <2>1. TypeInv
    BY InitTypeInv DEF FileSystems
  <2>2. Trees
    BY TreeOfNothing DEF Init, Trees
  <2>3. Sound(buf_dir)
    BY TreeOfNothing DEF Init, Sound
  <2> QED
    BY <2>1, <2>2, <2>3 DEF Init, TreeInv, NoForeign, InView, FoldersOK, RootWhenClosed
<1>2. TreeInv /\ [Next]_vars => TreeInv'
  BY NextTree
<1>3. TreeInv => TreeRooted
  BY DEF TreeInv, Trees, Tree, In, TreeRooted, Used
<1> QED
  BY <1>1, <1>2, <1>3, PTL DEF Spec

-----------------------------------------------------------------------------
(* The notepad's file.                                                     *)

\* A directory has a file that starts at a sector.
HasFile(e, l) == \E s \in Slots : e[s].type = 1 /\ e[s].start = l

\* A new entry hides no file, and may be one.
LEMMA FilePut ==
  ASSUME NEW e \in [Slots -> Entries], NEW slot \in Slots, e[slot].type = 0,
         NEW x \in Entries
  PROVE  /\ \A l : HasFile(e, l) => HasFile([e EXCEPT ![slot] = x], l)
         /\ x.type = 1 => HasFile([e EXCEPT ![slot] = x], x.start)
<1> DEFINE new == [e EXCEPT ![slot] = x]
<1>1. new[slot] = x /\ \A s \in Slots : s # slot => new[s] = e[s]
  OBVIOUS
<1> HIDE DEF new
<1>2. ASSUME NEW l, HasFile(e, l) PROVE HasFile(new, l)
  <2>1. PICK s \in Slots : e[s].type = 1 /\ e[s].start = l
    BY <1>2 DEF HasFile
  <2> QED
    BY <1>1, <2>1 DEF HasFile
<1>3. x.type = 1 => HasFile(new, x.start)
  BY <1>1 DEF HasFile
<1> QED
  BY <1>2, <1>3 DEF new

\* The file that SAVE writes to, and every file of the explorer's copy that it may
\* become, has an entry on the drive, or lies behind the saved texts.
Known(e) ==
  /\ \A s \in Slots : cfs_files[s].type = 1 /\ cfs_files[s].start < AppLba
                        => HasFile(e, cfs_files[s].start)
  /\ active_file_lba # 0 /\ active_file_lba < AppLba => HasFile(e, active_file_lba)
Fresh   == /\ active_file_lba = 0 /\ cfs_files = NoFiles /\ ~is_mounted /\ ~dsk_mgr_opened
           /\ save_step \in {"closed", "choose"}
KnownOK == /\ here = NoDrive => Fresh
           /\ here # NoDrive => \A e : IsTarget(e) => Known(e)

\* With one drive that is not formatted, SAVE writes where the file is.
OneDrive == "FORMAT" \notin Buttons /\ \A d, e \in Drives : d = e
Exact    == Buttons \cap {"COPY", "INSTALL"} = {}

\* What is to be shown of a handler: the copy, and the file of the notepad, in
\* terms of the files that were there before it.
LEMMA KnownKept ==
  ASSUME Idle, here # NoDrive, here' = here,
         \A e, l : IsTarget(e)' /\ HasFile(dir[here], l) => HasFile(e, l),
         \A e : IsTarget(e)' => \A s \in Slots :
            cfs_files'[s].type = 1 /\ cfs_files'[s].start < AppLba
              => HasFile(dir[here], cfs_files'[s].start) \/ HasFile(e, cfs_files'[s].start),
         \A e : IsTarget(e)' =>
            (active_file_lba' # 0 /\ active_file_lba' < AppLba
               => HasFile(dir[here], active_file_lba') \/ HasFile(e, active_file_lba'))
  PROVE  KnownOK'
<1>1. ASSUME NEW e, IsTarget(e)' PROVE Known(e)'
  <2>1. ASSUME NEW s \in Slots, cfs_files'[s].type = 1, cfs_files'[s].start < AppLba
        PROVE  HasFile(e, cfs_files'[s].start)
    BY <1>1, <2>1
  <2>2. active_file_lba' # 0 /\ active_file_lba' < AppLba => HasFile(e, active_file_lba')
    BY <1>1
  <2>3. /\ \A s \in Slots : cfs_files'[s].type = 1 /\ cfs_files'[s].start < AppLba
                             => HasFile(e, cfs_files'[s].start)
        /\ active_file_lba' # 0 /\ active_file_lba' < AppLba => HasFile(e, active_file_lba')
    BY <2>1, <2>2
  <2> QED
    BY <2>3 DEF Known, HasFile
<1> QED
  BY <1>1 DEF KnownOK

\* What is known between handlers.
LEMMA KnownIdle ==
  ASSUME KnownOK, Idle, here # NoDrive
  PROVE  Known(dir[here])
  BY TargetIdle DEF KnownOK

\* The handlers that make an entry.
LEMMA KnownPuts ==
  ASSUME TypeInv, KnownOK, "read" \notin Faults, here # NoDrive,
         save_as \/ new_folder \/ mkdir \/ add_file
  PROVE  KnownOK'
<1>1. /\ Idle /\ dir' = dir /\ here' = here
      /\ cfs_files \in [Slots -> Entries]
  BY DEF save_as, new_folder, mkdir, add_file, disk, here, TypeInv, TypeOK
<1>2. Known(dir[here])
  BY <1>1, KnownIdle
<1>3. UNCHANGED <<dir, selected_drive_idx>>
  BY <1>1 DEF here
<1>4. ASSUME NEW h, NEW before, NEW entries \in Reads(dir, before), NEW slot, NEW x,
             Puts(h, entries, slot, x)
      PROVE  /\ entries = dir[here] /\ slot \in Slots
             /\ \A e, l : IsTarget(e)' /\ HasFile(dir[here], l) => HasFile(e, l)
             /\ x.type = 1 => \A e : IsTarget(e)' => HasFile(e, x.start)
  <2>1. entries = dir[here] /\ dir[here] \in [Slots -> Entries]
    BY <1>4, ReadsTheDisk
  <2>2. slot \in Slots /\ entries[slot].type = 0 /\ x \in Entries
    BY <1>4 DEF Puts
  <2>3. \A e : IsTarget(e)' <=> e = [entries EXCEPT ![slot] = x]
    BY <1>3, <1>4, TargetPut
  <2> QED
    BY <2>1, <2>2, <2>3, FilePut
<1>5. ASSUME PutsNothing
      PROVE  /\ cfs_files' = cfs_files
             /\ \A e, l : IsTarget(e)' /\ HasFile(dir[here], l) => HasFile(e, l)
  <2>1. \A e : IsTarget(e)' <=> e = dir[here]
    BY <1>1, <1>5 DEF PutsNothing, IsTarget, HasDir
  <2> QED
    BY <1>5, <2>1 DEF PutsNothing
<1>6. CASE save_as
  <2>1. CASE PutsNothing /\ active_file_lba' = active_file_lba
    BY <1>1, <1>2, <1>5, <2>1, KnownKept DEF Known
  <2>2. ASSUME NEW entries \in Reads(dir, buf_dir), NEW slot, NEW x,
               Puts("SAVE AS", entries, slot, x),
               x = Entry(1, SaveLba(slot), FileSectors, current_folder_id),
               cfs_files' = [cfs_files EXCEPT ![slot] = x],
               active_file_lba' = SaveLba(slot)
        PROVE  KnownOK'
    <3>1. x.type = 1 /\ x.start = SaveLba(slot)
      BY <2>2 DEF Entry
    <3>2. \A s \in Slots : cfs_files'[s] = cfs_files[s] \/ cfs_files'[s] = x
      BY <1>1, <2>2
    <3>3. /\ \A e, l : IsTarget(e)' /\ HasFile(dir[here], l) => HasFile(e, l)
          /\ \A e : IsTarget(e)' => HasFile(e, x.start)
      BY <1>4, <2>2, <3>1
    <3> QED
      BY <1>1, <1>2, <2>2, <3>1, <3>2, <3>3, KnownKept DEF Known
  <2> QED
    BY <1>6, <2>1, <2>2, SaveAsTypes
<1>7. CASE new_folder
  <2>1. active_file_lba' = active_file_lba
    BY <1>7 DEF new_folder
  <2>2. CASE PutsNothing
    BY <1>1, <1>2, <1>5, <2>1, <2>2, KnownKept DEF Known
  <2>3. ASSUME NEW entries \in Reads(dir, buf_dir), NEW slot, NEW x,
               Puts("NEW FOLDER", entries, slot, x), x = Entry(2, 0, 0, current_folder_id),
               cfs_files' = [cfs_files EXCEPT ![slot] = x]
        PROVE  KnownOK'
    <3>1. x.type = 2
      BY <2>3 DEF Entry
    <3>2. \A s \in Slots : cfs_files'[s] = cfs_files[s] \/ cfs_files'[s] = x
      BY <1>1, <2>3
    <3>3. \A s \in Slots : cfs_files'[s].type = 1 => cfs_files'[s] = cfs_files[s]
      BY <3>1, <3>2
    <3>4. \A e, l : IsTarget(e)' /\ HasFile(dir[here], l) => HasFile(e, l)
      BY <1>4, <2>3
    <3> QED
      BY <1>1, <1>2, <2>1, <3>3, <3>4, KnownKept DEF Known
  <2> QED
    BY <1>7, <2>2, <2>3, NewFolderTypes
<1>8. CASE mkdir
  <2>1. active_file_lba' = active_file_lba /\ cfs_files' = cfs_files
    BY <1>8 DEF mkdir, notepad
  <2>2. \A e, l : IsTarget(e)' /\ HasFile(dir[here], l) => HasFile(e, l)
    BY <1>4, <1>5, <1>8, MkdirTypes
  <2> QED
    BY <1>1, <1>2, <2>1, <2>2, KnownKept DEF Known
<1>9. CASE add_file
  <2>1. active_file_lba' = active_file_lba
    BY <1>9 DEF add_file, notepad
  <2>2. \A s \in Slots : cfs_files'[s] = cfs_files[s] \/ cfs_files'[s].start = AppLba
    <3>1. \/ cfs_files' = cfs_files
          \/ \E slot : cfs_files' = [cfs_files EXCEPT ![slot] = App(cfs_files[slot])]
      BY <1>1, <1>9 DEF add_file
    <3>2. \A y : App(y).start = AppLba
      BY DEF App, Entry
    <3> HIDE DEF App
    <3> QED
      BY <1>1, <3>1, <3>2
  <2>3. \A e, l : IsTarget(e)' /\ HasFile(dir[here], l) => HasFile(e, l)
    BY <1>4, <1>5, <1>9, AddFileTypes
  <2>4. AppLba \in Nat
    BY LayoutAssumption
  <2>5. \A s \in Slots : cfs_files'[s].start < AppLba => cfs_files'[s] = cfs_files[s]
    BY <2>2, <2>4
  <2> QED
    BY <1>1, <1>2, <2>1, <2>3, <2>5, KnownKept DEF Known
<1> QED
  BY <1>6, <1>7, <1>8, <1>9

\* Every step keeps the notepad's file known.
LEMMA NextKnown ==
  ASSUME TypeInv, KnownOK, [Next]_vars, OneDrive, Exact, Faults \subseteq {"crash"}
  PROVE  KnownOK'
<1>1. "read" \notin Faults /\ "write" \notin Faults /\ cfs_files \in [Slots -> Entries]
  BY DEF TypeInv, TypeOK
<1>2. CASE write_sector
  <2>1. /\ here # NoDrive /\ here' = here
        /\ UNCHANGED <<cfs_files, active_file_lba>>
    BY <1>2, DriveAssumption DEF write_sector, notepad, here, TypeInv, TypeOK
  <2>2. \A e : IsTarget(e)' => IsTarget(e)
    BY <1>2, TargetWrite
  <2> QED
    BY <2>1, <2>2 DEF KnownOK, Known, HasFile
<1>3. CASE crash
  BY <1>3 DEF crash, KnownOK, Fresh, here
<1>4. ASSUME NEW d \in Drives, select(d) PROVE KnownOK'
  <2>1. /\ Idle /\ writes' = <<>> /\ here' = d /\ d # NoDrive
        /\ UNCHANGED <<dir, cfs_files, active_file_lba>>
    BY <1>4, DriveAssumption DEF select, notepad, disk, here, Idle
  <2>2. \A e : IsTarget(e)' <=> e = dir[d]
    BY <2>1 DEF IsTarget, HasDir
  <2>3. CASE here = NoDrive
    <3>1. \A e : Known(e)'
      BY <2>1, <2>3 DEF KnownOK, Fresh, Known, NoFiles, Entry
    <3> QED
      BY <2>1, <3>1 DEF KnownOK
  <2>4. CASE here # NoDrive
    <3>1. here = d
      BY <2>4 DEF OneDrive, TypeInv, TypeOK, here
    <3>2. Known(dir[d])
      BY <2>1, <2>4, <3>1, KnownIdle
    <3> QED
      BY <2>1, <2>2, <3>2 DEF KnownOK, Known, HasFile
  <2> QED
    BY <2>3, <2>4
<1>5. CASE here # NoDrive /\
           (\/ open_drive \/ back \/ back_to_root
            \/ \E s \in Slots : open_folder(s) \/ open_file(s)
            \/ \E t \in Texts : type_text(t)
            \/ \E step \in {"choose", "file", "folder", "closed"} : dialog(step))
  <2>1. /\ Idle /\ writes' = <<>> /\ here' = here /\ dir' = dir
    BY <1>5 DEF open_drive, back, back_to_root, open_folder, open_file, type_text, dialog,
       disk, here, Idle
  <2>2. \A e : IsTarget(e)' <=> e = dir[here]
    BY <2>1 DEF IsTarget, HasDir
  <2>3. Known(dir[here])
    BY <1>5, <2>1, KnownIdle
  <2>4. \/ active_file_lba' = active_file_lba
        \/ \E s \in Slots : cfs_files[s].type = 1 /\ active_file_lba' = cfs_files[s].start
    BY <1>5 DEF open_drive, back, back_to_root, open_folder, open_file, type_text, dialog,
       notepad
  <2>5. \A s \in Slots : cfs_files'[s].type = 1 /\ cfs_files'[s].start < AppLba
                           => HasFile(dir[here], cfs_files'[s].start)
    <3>1. \/ cfs_files' \in {cfs_files, NoFiles, Copied(dir[here])}
          \/ \E p, b : cfs_files' = Listing(p, b)
      <4>1. CASE open_drive
        <5>1. PICK boot \in Reads(fs, "raw"), entries \in Reads(dir, ZeroDir) :
                cfs_files' = CASE boot = "raw" -> NoFiles
                               [] boot = "cfs" /\ ~is_fat32_drive -> Copied(entries)
                               [] OTHER -> Listing(Root, boot = "ntfs")
          BY <4>1 DEF open_drive
        <5>2. entries = dir[here]
          BY <1>1, <1>5, ReadsTheDisk
        <5> QED
          BY <5>1, <5>2
      <4>2. CASE cfs_files' = cfs_files
        BY <4>2
      <4>3. ASSUME NEW p, Foreign_refresh(p)
            PROVE  cfs_files' = cfs_files \/ \E b : cfs_files' = Listing(p, b)
        BY <4>3 DEF Foreign_refresh
      <4> QED
        BY <1>5, <4>1, <4>2, <4>3 DEF back, back_to_root, open_folder, open_file,
           type_text, dialog
    <3>2. CASE cfs_files' = cfs_files
      BY <2>3, <3>2 DEF Known
    <3>3. CASE cfs_files' = NoFiles
      BY <3>3 DEF NoFiles, Entry
    <3>4. CASE cfs_files' = Copied(dir[here])
      <4>1. \A s \in Slots : cfs_files'[s].type = 1 =>
              dir[here][s].type = 1 /\ dir[here][s].start = cfs_files'[s].start
        BY <3>4 DEF Copied, NoFiles, Entry
      <4> QED
        BY <4>1 DEF HasFile
    <3>5. ASSUME NEW p, NEW b, cfs_files' = Listing(p, b)
          PROVE  \A s \in Slots : cfs_files'[s].type = 1 => cfs_files'[s].start = AppLba
      BY <3>5 DEF Listing, NoFiles, Entry, Foreign
    <3>6. AppLba \in Nat
      BY LayoutAssumption
    <3>7. ASSUME NEW p, NEW b, cfs_files' = Listing(p, b)
          PROVE  \A s \in Slots : ~ (cfs_files'[s].type = 1 /\ cfs_files'[s].start < AppLba)
      BY <3>5, <3>6, <3>7
    <3> QED
      BY <3>1, <3>2, <3>3, <3>4, <3>7
  <2>6. active_file_lba' # 0 /\ active_file_lba' < AppLba => HasFile(dir[here], active_file_lba')
    BY <2>3, <2>4 DEF Known
  <2>7. \A e, l : IsTarget(e)' /\ HasFile(dir[here], l) => HasFile(e, l)
    BY <2>2
  <2> QED
    BY <1>5, <2>1, <2>5, <2>6, <2>7, KnownKept
<1>6. CASE here = NoDrive /\
           (\/ open_drive \/ back \/ back_to_root \/ save \/ save_as \/ new_folder \/ add_file
            \/ \E s \in Slots : open_folder(s) \/ open_file(s)
            \/ \E t \in Texts : type_text(t)
            \/ \E step \in {"choose", "file", "folder", "closed"} : dialog(step))
  <2>1. Fresh
    BY <1>6 DEF KnownOK
  <2>2. CASE save \/ \E t \in Texts : type_text(t)
    BY <1>6, <2>1, <2>2 DEF save, type_text, KnownOK, Fresh, mount, explorer, notepad, here
  <2>3. ASSUME NEW step \in {"choose", "file", "folder", "closed"}, dialog(step)
        PROVE  KnownOK'
    BY <1>6, <2>1, <2>3 DEF dialog, KnownOK, Fresh, mount, explorer, here
  <2> QED
    BY <1>6, <2>1, <2>2, <2>3 DEF Fresh, open_drive, back, back_to_root, open_folder,
       open_file, save_as, new_folder, add_file
<1>7. CASE here = NoDrive /\ mkdir
  BY <1>7 DEF mkdir, KnownOK, Fresh, mount, explorer, notepad, here
<1>8. CASE here # NoDrive /\ save
  <2>1. NoDir(writes', "SAVE") /\ Idle /\ here' = here
        /\ UNCHANGED <<dir, selected_drive_idx, cfs_files, active_file_lba>>
    BY <1>8, SaveTypes DEF save, disk, notepad, here
  <2>2. \A e : IsTarget(e)' <=> e = dir[here]
    BY <2>1, TargetLone
  <2>3. Known(dir[here])
    BY <1>8, <2>1, KnownIdle
  <2> QED
    BY <1>8, <2>1, <2>2, <2>3 DEF KnownOK, Known, HasFile
<1>9. CASE here # NoDrive /\ (save_as \/ new_folder \/ mkdir \/ add_file)
  BY <1>1, <1>9, KnownPuts
<1>10. CASE UNCHANGED vars
  <2>1. UNCHANGED <<dir, writes, selected_drive_idx, is_mounted, dsk_mgr_opened, cfs_files,
                    active_file_lba, save_step>>
    BY <1>10 DEF vars, disk, mount, explorer, notepad
  <2>2. \A e : IsTarget(e)' <=> IsTarget(e)
    BY <2>1 DEF IsTarget, here
  <2> QED
    BY <2>1, <2>2 DEF KnownOK, Known, HasFile, Fresh, here
<1> QED
  BY <1>1, <1>2, <1>3, <1>4, <1>5, <1>6, <1>7, <1>8, <1>9, <1>10
     DEF Next, Pressed, OneDrive, Exact, lose_sector

-----------------------------------------------------------------------------
(* Texts that are said to be saved.                                        *)

\* SavedIsSaved, and what holds of a handler's queue while it is written: a text
\* is said to be saved after its data and its entry, data goes where nothing was
\* said to be unless SAVE writes it, and FORMAT forgets what was said first.  Files
\* start in the block of their slot, or behind the saved texts.
Holds == \A d \in Drives, l \in Sectors : said[d][l] # Blank =>
           data[d][l] = said[d][l] /\ (l < AppLba => HasFile(dir[d], l))
Formats == \A i \in DOMAIN writes : writes[i].by = "FORMAT" =>
             /\ writes[i].what \in {"boot", "dir"}
             /\ writes[i].what = "dir" =>
                  \/ \A l \in Sectors : said[here][l] = Blank
                  \/ \E j \in DOMAIN writes : j < i /\ writes[j].what = "boot"
Overwrites == \A i \in DOMAIN writes : writes[i].what = "data" =>
                writes[i].by = "SAVE" \/ said[here][writes[i].lba] = Blank
InOrder == \A i, j \in DOMAIN writes : writes[i].what = "said" /\ writes[j].what = "data" =>
             j < i /\ (writes[i].lba = writes[j].lba => writes[i].value = writes[j].value)
DataFirst(i) ==
  \/ data[here][writes[i].lba] = writes[i].value
  \/ \E j \in DOMAIN writes : j < i /\ writes[j].what = "data" /\ writes[j].lba = writes[i].lba
EntryFirst(i) ==
  writes[i].lba < AppLba =>
    \/ HasFile(dir[here], writes[i].lba)
    \/ \E j \in DOMAIN writes : j < i /\ writes[j].what = "dir"
                                  /\ HasFile(writes[j].value, writes[i].lba)
Backed == \A i \in DOMAIN writes : writes[i].what = "said" => DataFirst(i) /\ EntryFirst(i)
FilesAt(e) == \A s \in Slots : e[s].type = 1 => e[s].start = SaveLba(s) \/ e[s].start >= AppLba
Placed  == /\ \A d \in Drives : FilesAt(dir[d])
           /\ \A i \in DOMAIN writes : writes[i].what = "dir" => FilesAt(writes[i].value)
QueueSays == Formats /\ Overwrites /\ InOrder /\ Backed
TextInv == OverInv /\ Holds /\ QueueSays /\ Placed

\* Holds is SavedIsSaved.
LEMMA HoldsIsSaved == TypeInv => (Holds <=> SavedIsSaved)
<1> SUFFICES ASSUME TypeInv PROVE Holds <=> SavedIsSaved
  OBVIOUS
<1>1. \A d \in Drives : \A l : HasFile(dir[d], l) <=>
        \E s \in Used(d) : dir[d][s].type = 1 /\ dir[d][s].start = l
  BY DEF HasFile, Used
<1> QED
  BY <1>1 DEF Holds, SavedIsSaved

\* The queue before a sector is written, and after.
LEMMA Shift ==
  ASSUME TypeInv, write_sector
  PROVE  /\ here \in Drives /\ here' = here /\ 1 \in DOMAIN writes
         /\ DOMAIN writes \subseteq Nat \ {0} /\ DOMAIN writes' \subseteq Nat \ {0}
         /\ \A i \in DOMAIN writes' : i + 1 \in DOMAIN writes /\ writes'[i] = writes[i + 1]
         /\ \A i \in DOMAIN writes : i # 1 => i - 1 \in DOMAIN writes' /\ writes[i] = writes'[i - 1]
         /\ \A i \in DOMAIN writes : writes[i] \in Requests
         /\ \E h, new : Carries(writes, h, new)
<1> DEFINE t == Tail(writes)
<1>1. QueueOK /\ ~Idle /\ here \in Drives /\ here' = here /\ writes' = t
  BY DEF TypeInv, TypeOK, write_sector, here
<1>2. writes \in Seq(Requests) /\ writes # <<>>
  BY <1>1 DEF QueueOK, Idle
<1>3. /\ Len(writes) \in Nat /\ Len(writes) # 0 /\ Len(t) = Len(writes) - 1
      /\ DOMAIN writes = 1 .. Len(writes) /\ DOMAIN t = 1 .. Len(t)
      /\ \A i \in 1 .. Len(t) : t[i] = writes[i + 1]
      /\ \A i \in 1 .. Len(writes) : writes[i] \in Requests
  BY <1>2, HeadTailProperties, LenProperties, ElementOfSeq, EmptySeq
<1> HIDE DEF t
<1>4. \A i \in DOMAIN t : i + 1 \in DOMAIN writes /\ t[i] = writes[i + 1]
  BY <1>3
<1>5. \A i \in DOMAIN writes : i # 1 => i - 1 \in DOMAIN t /\ writes[i] = t[i - 1]
  BY <1>3
<1> QED
  BY <1>1, <1>3, <1>4, <1>5 DEF QueueOK

\* The kinds of requests.
LEMMA RequestKinds ==
  ASSUME NEW r \in Requests
  PROVE  /\ r.what \in {"boot", "dir", "data", "said"}
         /\ r.what = "boot" => r.by = "FORMAT"
         /\ r.what \in {"data", "said"} => r.lba \in Sectors
         /\ r.what = "dir" => r.value \in Directories
  BY DEF Requests, Request, Boots

\* Every directory that is on a disk or on its way there is laid out so.
LEMMA PlacedWrites ==
  ASSUME TextInv, write_sector
  PROVE  Placed'
<1> DEFINE w == Head(writes)
<1>0. TypeInv
  BY DEF TextInv, OverInv
<1>1. /\ here \in Drives /\ 1 \in DOMAIN writes
      /\ \A i \in DOMAIN writes' : i + 1 \in DOMAIN writes /\ writes'[i] = writes[i + 1]
  BY <1>0, Shift
<1>2. dir' = (IF w.what = "dir" THEN [dir EXCEPT ![here] = w.value] ELSE dir) /\ w = writes[1]
  BY <1>0, TailOfQueue DEF write_sector, TypeInv
<1> HIDE DEF w
<1>3. dir \in [Drives -> Directories]
  BY <1>0 DEF TypeInv, DirsOK
<1>4. \A d \in Drives : dir'[d] = dir[d] \/ (w.what = "dir" /\ dir'[d] = w.value)
  BY <1>1, <1>2, <1>3
<1> QED
  BY <1>1, <1>2, <1>4 DEF TextInv, Placed, FilesAt

\* A sector of data.
LEMMA TextData ==
  ASSUME TextInv, write_sector, writes[1].what = "data"
  PROVE  Holds' /\ QueueSays'
<1> DEFINE w == writes[1]
<1>0. TypeInv
  BY DEF TextInv, OverInv
<1>1. /\ here \in Drives /\ here' = here /\ 1 \in DOMAIN writes
      /\ DOMAIN writes \subseteq Nat \ {0} /\ DOMAIN writes' \subseteq Nat \ {0}
      /\ \A i \in DOMAIN writes' : i + 1 \in DOMAIN writes /\ writes'[i] = writes[i + 1]
      /\ \A i \in DOMAIN writes : i # 1 => i - 1 \in DOMAIN writes' /\ writes[i] = writes'[i - 1]
      /\ \A i \in DOMAIN writes : writes[i] \in Requests
  BY <1>0, Shift
<1>2. w.lba \in Sectors
  BY <1>1, RequestKinds
<1>3. Head(writes) = w
  BY <1>0, TailOfQueue DEF write_sector, TypeInv
<1>4. /\ data' = [data EXCEPT ![here][w.lba] = w.value]
      /\ dir' = dir
      /\ said' = IF w.by = "SAVE" THEN [said EXCEPT ![here][w.lba] = Blank] ELSE said
  BY <1>3 DEF write_sector
<1>5. w.by = "SAVE" \/ said[here][w.lba] = Blank
  BY <1>1 DEF TextInv, QueueSays, Overwrites
<1> HIDE DEF w
<1>6. /\ data \in [Drives -> [Sectors -> Values]] /\ said \in [Drives -> [Sectors -> Values]]
  BY <1>0 DEF TypeInv, TypeOK, Values
<1>7. /\ data'[here][w.lba] = w.value
      /\ \A d \in Drives, l \in Sectors : ~ (d = here /\ l = w.lba) => data'[d][l] = data[d][l]
  BY <1>1, <1>2, <1>4, <1>6
<1>8. /\ said'[here][w.lba] = Blank
      /\ \A d \in Drives, l \in Sectors : ~ (d = here /\ l = w.lba) => said'[d][l] = said[d][l]
  BY <1>1, <1>2, <1>4, <1>5, <1>6
<1>9. Holds'
  BY <1>4, <1>7, <1>8 DEF TextInv, Holds, HasFile
<1>10. \A l \in Sectors : said[here][l] = Blank => said'[here][l] = Blank
  BY <1>1, <1>8
<1>11. Formats'
  <2> SUFFICES ASSUME NEW i \in DOMAIN writes', writes'[i].by = "FORMAT"
               PROVE  /\ writes'[i].what \in {"boot", "dir"}
                      /\ writes'[i].what = "dir" =>
                           \/ \A l \in Sectors : said'[here'][l] = Blank
                           \/ \E j \in DOMAIN writes' : j < i /\ writes'[j].what = "boot"
    BY DEF Formats
  <2>1. i + 1 \in DOMAIN writes /\ writes'[i] = writes[i + 1] /\ i \in Nat
    BY <1>1
  <2>2. ASSUME NEW j \in DOMAIN writes, j < i + 1, writes[j].what = "boot"
        PROVE  \E k \in DOMAIN writes' : k < i /\ writes'[k].what = "boot"
    <3>1. j # 1
      BY <2>2 DEF w
    <3>2. j \in Nat /\ j - 1 \in DOMAIN writes' /\ writes'[j - 1].what = "boot"
      BY <1>1, <2>2, <3>1
    <3> QED
      BY <2>1, <2>2, <3>2
  <2> QED
    BY <1>1, <1>10, <2>1, <2>2 DEF TextInv, QueueSays, Formats
<1>12. Overwrites'
  <2> SUFFICES ASSUME NEW i \in DOMAIN writes', writes'[i].what = "data"
               PROVE  writes'[i].by = "SAVE" \/ said'[here'][writes'[i].lba] = Blank
    BY DEF Overwrites
  <2>1. i + 1 \in DOMAIN writes /\ writes'[i] = writes[i + 1] /\ writes[i + 1] \in Requests
    BY <1>1
  <2>2. writes[i + 1].lba \in Sectors
    BY <2>1, RequestKinds
  <2> QED
    BY <1>1, <1>10, <2>1, <2>2 DEF TextInv, QueueSays, Overwrites
<1>13. InOrder'
  <2> SUFFICES ASSUME NEW i \in DOMAIN writes', NEW j \in DOMAIN writes',
                      writes'[i].what = "said", writes'[j].what = "data"
               PROVE  j < i /\ (writes'[i].lba = writes'[j].lba
                                  => writes'[i].value = writes'[j].value)
    BY DEF InOrder
  <2>1. /\ i + 1 \in DOMAIN writes /\ writes'[i] = writes[i + 1] /\ i \in Nat
        /\ j + 1 \in DOMAIN writes /\ writes'[j] = writes[j + 1] /\ j \in Nat
    BY <1>1
  <2>2. j + 1 < i + 1 /\ (writes[i + 1].lba = writes[j + 1].lba
                            => writes[i + 1].value = writes[j + 1].value)
    BY <2>1 DEF TextInv, QueueSays, InOrder
  <2> QED
    BY <2>1, <2>2
<1>14. Backed'
  <2> SUFFICES ASSUME NEW i \in DOMAIN writes', writes'[i].what = "said"
               PROVE  DataFirst(i)' /\ EntryFirst(i)'
    BY DEF Backed
  <2>1. /\ i + 1 \in DOMAIN writes /\ writes'[i] = writes[i + 1] /\ i \in Nat
        /\ writes[i + 1] \in Requests
    BY <1>1
  <2>2. writes[i + 1].lba \in Sectors /\ DataFirst(i + 1) /\ EntryFirst(i + 1)
    BY <2>1, RequestKinds DEF TextInv, QueueSays, Backed
  <2>3. ASSUME NEW j \in DOMAIN writes, j < i + 1, j # 1
        PROVE  j - 1 \in DOMAIN writes' /\ j - 1 < i /\ writes'[j - 1] = writes[j]
    BY <1>1, <2>1, <2>3
  <2>4. DataFirst(i)'
    <3>1. CASE writes[i + 1].lba = w.lba
      <4>1. writes[i + 1].value = w.value
        BY <1>1, <2>1, <3>1 DEF TextInv, QueueSays, InOrder, w
      <4> QED
        BY <1>1, <1>7, <2>1, <3>1, <4>1 DEF DataFirst
    <3>2. CASE writes[i + 1].lba # w.lba
      <4>1. CASE data[here][writes[i + 1].lba] = writes[i + 1].value
        BY <1>1, <1>7, <2>1, <2>2, <3>2, <4>1 DEF DataFirst
      <4>2. ASSUME NEW j \in DOMAIN writes, j < i + 1, writes[j].what = "data",
                   writes[j].lba = writes[i + 1].lba
            PROVE  DataFirst(i)'
        <5>1. j # 1
          BY <3>2, <4>2 DEF w
        <5>2. j - 1 \in DOMAIN writes' /\ j - 1 < i /\ writes'[j - 1] = writes[j]
          BY <2>3, <4>2, <5>1
        <5> QED
          BY <2>1, <4>2, <5>2 DEF DataFirst
      <4> QED
        BY <2>2, <4>1, <4>2 DEF DataFirst
    <3> QED
      BY <3>1, <3>2
  <2>5. EntryFirst(i)'
    <3>1. CASE HasFile(dir[here], writes[i + 1].lba)
      BY <1>1, <1>4, <2>1, <3>1 DEF EntryFirst, HasFile
    <3>2. ASSUME NEW j \in DOMAIN writes, j < i + 1, writes[j].what = "dir",
                 HasFile(writes[j].value, writes[i + 1].lba)
          PROVE  EntryFirst(i)'
      <4>1. j # 1
        BY <3>2 DEF w
      <4>2. j - 1 \in DOMAIN writes' /\ j - 1 < i /\ writes'[j - 1] = writes[j]
        BY <2>3, <3>2, <4>1
      <4> QED
        BY <2>1, <3>2, <4>2 DEF EntryFirst, HasFile
    <3>3. CASE ~ (writes[i + 1].lba < AppLba)
      BY <2>1, <3>3 DEF EntryFirst
    <3> QED
      BY <2>2, <3>1, <3>2, <3>3 DEF EntryFirst
  <2> QED
    BY <2>4, <2>5
<1> QED
  BY <1>9, <1>11, <1>12, <1>13, <1>14 DEF QueueSays

\* What is left of the queue when its first sector is on the disk: its order, and
\* the data and entries that were still to come.
LEMMA LeftInOrder ==
  ASSUME TextInv, write_sector
  PROVE  InOrder'
<1>0. TypeInv
  BY DEF TextInv, OverInv
<1> SUFFICES ASSUME NEW i \in DOMAIN writes', NEW j \in DOMAIN writes',
                    writes'[i].what = "said", writes'[j].what = "data"
             PROVE  j < i /\ (writes'[i].lba = writes'[j].lba
                                => writes'[i].value = writes'[j].value)
  BY DEF InOrder
<1>1. /\ i + 1 \in DOMAIN writes /\ writes'[i] = writes[i + 1] /\ i \in Nat
      /\ j + 1 \in DOMAIN writes /\ writes'[j] = writes[j + 1] /\ j \in Nat
  BY <1>0, Shift
<1>2. j + 1 < i + 1 /\ (writes[i + 1].lba = writes[j + 1].lba
                          => writes[i + 1].value = writes[j + 1].value)
  BY <1>1 DEF TextInv, QueueSays, InOrder
<1> QED
  BY <1>1, <1>2

\* A sector that is not data leaves the text of what is yet to be reported.
LEMMA LeftData ==
  ASSUME TextInv, write_sector, writes[1].what # "data", data' = data,
         NEW i \in DOMAIN writes', writes'[i].what = "said"
  PROVE  DataFirst(i)'
<1>0. TypeInv
  BY DEF TextInv, OverInv
<1>1. /\ here' = here /\ DOMAIN writes \subseteq Nat \ {0}
      /\ i + 1 \in DOMAIN writes /\ writes'[i] = writes[i + 1] /\ i \in Nat
      /\ \A j \in DOMAIN writes : j # 1 => j - 1 \in DOMAIN writes' /\ writes[j] = writes'[j - 1]
  BY <1>0, Shift
<1>2. DataFirst(i + 1)
  BY <1>1 DEF TextInv, QueueSays, Backed
<1>3. CASE data[here][writes[i + 1].lba] = writes[i + 1].value
  BY <1>1, <1>3 DEF DataFirst
<1>4. ASSUME NEW j \in DOMAIN writes, j < i + 1, writes[j].what = "data",
             writes[j].lba = writes[i + 1].lba
      PROVE  DataFirst(i)'
  <2>1. j # 1 /\ j \in Nat
    BY <1>1, <1>4
  <2>2. j - 1 \in DOMAIN writes' /\ j - 1 < i /\ writes'[j - 1] = writes[j]
    BY <1>1, <1>4, <2>1
  <2> QED
    BY <1>1, <1>4, <2>2 DEF DataFirst
<1> QED
  BY <1>2, <1>3, <1>4 DEF DataFirst

\* A sector that is written leaves the entry of what is yet to be reported.
LEMMA LeftEntry ==
  ASSUME TextInv, write_sector, NEW i \in DOMAIN writes', writes'[i].what = "said",
         \A l : HasFile(dir[here], l) => HasFile(dir'[here], l),
         writes[1].what = "dir" => dir'[here] = writes[1].value
  PROVE  EntryFirst(i)'
<1>0. TypeInv
  BY DEF TextInv, OverInv
<1>1. /\ here' = here /\ DOMAIN writes \subseteq Nat \ {0}
      /\ i + 1 \in DOMAIN writes /\ writes'[i] = writes[i + 1] /\ i \in Nat
      /\ \A j \in DOMAIN writes : j # 1 => j - 1 \in DOMAIN writes' /\ writes[j] = writes'[j - 1]
  BY <1>0, Shift
<1>2. EntryFirst(i + 1)
  BY <1>1 DEF TextInv, QueueSays, Backed
<1>3. CASE HasFile(dir[here], writes[i + 1].lba)
  <2>1. HasFile(dir'[here], writes[i + 1].lba)
    BY <1>3
  <2> QED
    BY <1>1, <2>1 DEF EntryFirst, HasFile
<1>4. ASSUME NEW j \in DOMAIN writes, j < i + 1, writes[j].what = "dir",
             HasFile(writes[j].value, writes[i + 1].lba)
      PROVE  EntryFirst(i)'
  <2>1. CASE j = 1
    <3>1. HasFile(dir'[here], writes[i + 1].lba)
      BY <1>4, <2>1
    <3> QED
      BY <1>1, <3>1 DEF EntryFirst, HasFile
  <2>2. CASE j # 1
    <3>1. j \in Nat /\ j - 1 \in DOMAIN writes' /\ writes'[j - 1] = writes[j]
      BY <1>1, <2>2
    <3>2. j - 1 < i
      BY <1>1, <1>4, <3>1
    <3> QED
      BY <1>1, <1>4, <3>1, <3>2 DEF EntryFirst, HasFile
  <2> QED
    BY <2>1, <2>2
<1>5. CASE ~ (writes[i + 1].lba < AppLba)
  BY <1>1, <1>5 DEF EntryFirst
<1> QED
  BY <1>2, <1>3, <1>4, <1>5 DEF EntryFirst

\* A directory: what follows it says nothing that the disk does not have.
LEMMA TextDir ==
  ASSUME TextInv, write_sector, writes[1].what = "dir"
  PROVE  Holds' /\ QueueSays'
<1> DEFINE w == writes[1]
<1>0. TypeInv
  BY DEF TextInv, OverInv
<1>1. /\ here \in Drives /\ here' = here /\ 1 \in DOMAIN writes
      /\ DOMAIN writes \subseteq Nat \ {0} /\ DOMAIN writes' \subseteq Nat \ {0}
      /\ \A i \in DOMAIN writes' : i + 1 \in DOMAIN writes /\ writes'[i] = writes[i + 1]
  BY <1>0, Shift
<1>2. PICK h, new : Carries(writes, h, new)
  BY <1>0, Shift
<1>3. Head(writes) = w
  BY <1>0, TailOfQueue DEF write_sector, TypeInv
<1>4. data' = data /\ said' = said /\ dir' = [dir EXCEPT ![here] = w.value]
  BY <1>3 DEF write_sector
<1>5. \A i \in DOMAIN writes' : writes'[i].what # "dir"
  <2>1. ASSUME NEW i \in DOMAIN writes', writes'[i].what = "dir" PROVE FALSE
    <3>1. i + 1 \in DOMAIN writes /\ writes[i + 1].what = "dir" /\ i \in Nat \ {0}
      BY <1>1, <2>1
    <3>2. i + 1 = 1
      BY <1>1, <1>2, <3>1 DEF Carries
    <3> QED
      BY <3>1, <3>2
  <2> QED
    BY <2>1
<1>6. w.by # "FORMAT" => \A s \in Used(here) : w.value[s] = dir[here][s]
  BY <1>1 DEF TextInv, OverInv, PendingKeeps
<1>7. w.by = "FORMAT" => \A l \in Sectors : said[here][l] = Blank
  BY <1>1 DEF TextInv, QueueSays, Formats
<1>8. \A i \in DOMAIN writes : writes[i].what = "said" => w.by # "FORMAT"
  BY <1>1, <1>2 DEF TextInv, QueueSays, Formats, Carries
<1> HIDE DEF w
<1>9. dir'[here] = w.value /\ \A d \in Drives : d # here => dir'[d] = dir[d]
  BY <1>0, <1>1, <1>4 DEF TypeInv, TypeOK
<1>10. w.by # "FORMAT" => \A l : HasFile(dir[here], l) => HasFile(dir'[here], l)
  <2> SUFFICES ASSUME w.by # "FORMAT", NEW l, HasFile(dir[here], l)
               PROVE  HasFile(dir'[here], l)
    OBVIOUS
  <2>1. PICK s \in Slots : dir[here][s].type = 1 /\ dir[here][s].start = l
    BY DEF HasFile
  <2>2. s \in Used(here)
    BY <2>1 DEF Used
  <2>3. dir'[here][s] = dir[here][s]
    BY <1>6, <1>9, <2>2
  <2> QED
    BY <2>1, <2>3 DEF HasFile
<1>11. Holds'
  <2> SUFFICES ASSUME NEW d \in Drives, NEW l \in Sectors, said[d][l] # Blank
               PROVE  data[d][l] = said[d][l] /\ (l < AppLba => HasFile(dir'[d], l))
    BY <1>4 DEF Holds, HasFile
  <2>1. data[d][l] = said[d][l] /\ (l < AppLba => HasFile(dir[d], l))
    BY DEF TextInv, Holds
  <2>2. CASE d = here
    BY <1>7, <1>10, <2>1, <2>2
  <2>3. CASE d # here
    BY <1>9, <2>1, <2>3
  <2> QED
    BY <2>2, <2>3
<1>12. Formats' /\ Overwrites' /\ InOrder'
  <2>1. Formats'
    BY <1>1, <1>5 DEF Formats, TextInv, QueueSays
  <2>2. Overwrites'
    BY <1>1, <1>4 DEF Overwrites, TextInv, QueueSays
  <2> QED
    BY <2>1, <2>2, LeftInOrder
<1>13. Backed'
  <2> SUFFICES ASSUME NEW i \in DOMAIN writes', writes'[i].what = "said"
               PROVE  DataFirst(i)' /\ EntryFirst(i)'
    BY DEF Backed
  <2>1. w.by # "FORMAT"
    BY <1>1, <1>8
  <2>2. DataFirst(i)'
    BY <1>4, LeftData
  <2>3. EntryFirst(i)'
    BY <1>9, <1>10, <2>1, LeftEntry DEF w
  <2> QED
    BY <2>2, <2>3
<1> QED
  BY <1>11, <1>12, <1>13 DEF QueueSays

\* The message of success: its data and its entry are on the disk.
LEMMA TextSaid ==
  ASSUME TextInv, write_sector, writes[1].what = "said"
  PROVE  Holds' /\ QueueSays'
<1> DEFINE w == writes[1]
<1>0. TypeInv
  BY DEF TextInv, OverInv
<1>1. /\ here \in Drives /\ here' = here /\ 1 \in DOMAIN writes
      /\ DOMAIN writes \subseteq Nat \ {0} /\ DOMAIN writes' \subseteq Nat \ {0}
      /\ \A i \in DOMAIN writes' : i + 1 \in DOMAIN writes /\ writes'[i] = writes[i + 1]
      /\ w \in Requests
  BY <1>0, Shift
<1>2. PICK h, new : Carries(writes, h, new)
  BY <1>0, Shift
<1>3. Head(writes) = w
  BY <1>0, TailOfQueue DEF write_sector, TypeInv
<1>4. data' = data /\ dir' = dir /\ said' = [said EXCEPT ![here][w.lba] = w.value]
  BY <1>3 DEF write_sector
<1>5. w.lba \in Sectors
  BY <1>1, RequestKinds
<1>6. DataFirst(1) /\ EntryFirst(1)
  BY <1>1 DEF TextInv, QueueSays, Backed
<1>7. data[here][w.lba] = w.value /\ (w.lba < AppLba => HasFile(dir[here], w.lba))
  <2>1. \A j \in DOMAIN writes : ~ (j < 1)
    BY <1>1
  <2> QED
    BY <1>6, <2>1 DEF DataFirst, EntryFirst
<1>8. \A i \in DOMAIN writes : writes[i].by # "FORMAT"
  BY <1>1, <1>2 DEF TextInv, QueueSays, Formats, Carries
<1>9. \A i \in DOMAIN writes' : writes'[i].what # "data"
  <2>1. ASSUME NEW i \in DOMAIN writes', writes'[i].what = "data" PROVE FALSE
    <3>1. i + 1 \in DOMAIN writes /\ writes[i + 1].what = "data" /\ i \in Nat \ {0}
      BY <1>1, <2>1
    <3>2. i + 1 < 1
      BY <1>1, <3>1 DEF TextInv, QueueSays, InOrder
    <3> QED
      BY <3>1, <3>2
  <2> QED
    BY <2>1
<1>10. writes[1].what # "data" /\ writes[1].what # "dir"
  OBVIOUS
<1> HIDE DEF w
<1>11. /\ said'[here][w.lba] = w.value
       /\ \A d \in Drives, l \in Sectors : ~ (d = here /\ l = w.lba) => said'[d][l] = said[d][l]
  BY <1>0, <1>1, <1>4, <1>5 DEF TypeInv, TypeOK
<1>12. Holds'
  <2> SUFFICES ASSUME NEW d \in Drives, NEW l \in Sectors, said'[d][l] # Blank
               PROVE  data[d][l] = said'[d][l] /\ (l < AppLba => HasFile(dir[d], l))
    BY <1>4 DEF Holds, HasFile
  <2>1. CASE d = here /\ l = w.lba
    BY <1>7, <1>11, <2>1
  <2>2. CASE ~ (d = here /\ l = w.lba)
    BY <1>11, <2>2 DEF TextInv, Holds
  <2> QED
    BY <2>1, <2>2
<1>13. Formats' /\ Overwrites' /\ InOrder'
  <2>1. Formats'
    BY <1>1, <1>8 DEF Formats
  <2>2. Overwrites'
    BY <1>9 DEF Overwrites
  <2> QED
    BY <2>1, <2>2, LeftInOrder
<1>14. Backed'
  <2> SUFFICES ASSUME NEW i \in DOMAIN writes', writes'[i].what = "said"
               PROVE  DataFirst(i)' /\ EntryFirst(i)'
    BY DEF Backed
  <2>1. DataFirst(i)'
    BY <1>4, <1>10, LeftData
  <2>2. EntryFirst(i)'
    BY <1>4, <1>10, LeftEntry
  <2> QED
    BY <2>1, <2>2
<1> QED
  BY <1>12, <1>13, <1>14 DEF QueueSays

\* The boot sector of a formatted drive, on which nothing is said to be saved.
LEMMA TextBoot ==
  ASSUME TextInv, write_sector, writes[1].what = "boot"
  PROVE  Holds' /\ QueueSays'
<1> DEFINE w == writes[1]
<1>0. TypeInv
  BY DEF TextInv, OverInv
<1>1. /\ here \in Drives /\ here' = here /\ 1 \in DOMAIN writes
      /\ \A i \in DOMAIN writes' : i + 1 \in DOMAIN writes /\ writes'[i] = writes[i + 1]
      /\ w \in Requests
  BY <1>0, Shift
<1>2. PICK h, new : Carries(writes, h, new)
  BY <1>0, Shift
<1>3. Head(writes) = w
  BY <1>0, TailOfQueue DEF write_sector, TypeInv
<1>4. data' = data /\ dir' = dir /\ said' = [said EXCEPT ![here] = ZeroSectors]
  BY <1>3 DEF write_sector
<1>5. w.by = "FORMAT"
  BY <1>1, RequestKinds
<1>6. \A i \in DOMAIN writes' : writes'[i].what \in {"boot", "dir"}
  BY <1>1, <1>2, <1>5 DEF TextInv, QueueSays, Formats, Carries
<1> HIDE DEF w
<1>7. /\ \A l \in Sectors : said'[here][l] = Blank
      /\ \A d \in Drives : d # here => said'[d] = said[d]
  BY <1>0, <1>1, <1>4 DEF TypeInv, TypeOK, ZeroSectors
<1>8. Holds'
  <2> SUFFICES ASSUME NEW d \in Drives, NEW l \in Sectors, said'[d][l] # Blank
               PROVE  data[d][l] = said'[d][l] /\ (l < AppLba => HasFile(dir[d], l))
    BY <1>4 DEF Holds, HasFile
  <2>1. d # here
    BY <1>7
  <2> QED
    BY <1>7, <2>1 DEF TextInv, Holds
<1>9. Formats'
  BY <1>1, <1>6, <1>7 DEF Formats
<1>10. Overwrites' /\ InOrder' /\ Backed'
  BY <1>6 DEF Overwrites, InOrder, Backed
<1> QED
  BY <1>8, <1>9, <1>10 DEF QueueSays

\* Whatever sector it is.
LEMMA TextWrites ==
  ASSUME TextInv, write_sector
  PROVE  Holds' /\ QueueSays' /\ Placed'
<1>0. TypeInv
  BY DEF TextInv, OverInv
<1>1. writes[1].what \in {"boot", "dir", "data", "said"}
  BY <1>0, Shift, RequestKinds
<1> QED
  BY <1>1, PlacedWrites, TextData, TextDir, TextSaid, TextBoot

\* Queues of two and of three requests.
LEMMA TwoRequests ==
  ASSUME NEW x, NEW y
  PROVE  LET q == <<x>> \o <<y>>
         IN  DOMAIN q = 1 .. 2 /\ q[1] = x /\ q[2] = y
<1> DEFINE q == <<x>> \o <<y>>
<1>1. <<x>> \in Seq({x, y}) /\ <<y>> \in Seq({x, y}) /\ Len(<<x>>) = 1 /\ Len(<<y>>) = 1
      /\ <<x>>[1] = x /\ <<y>>[1] = y
  OBVIOUS
<1>2. /\ q \in Seq({x, y}) /\ Len(q) = 1 + 1
      /\ \A i \in 1 .. 1 + 1 : q[i] = IF i <= 1 THEN <<x>>[i] ELSE <<y>>[i - 1]
  BY <1>1, ConcatProperties
<1> HIDE DEF q
<1>3. DOMAIN q = 1 .. 2
  BY <1>2, LenProperties
<1> QED
  BY <1>1, <1>2, <1>3 DEF q

\* A handler that queues three requests.
LEMMA ThreeRequests ==
  ASSUME NEW x, NEW y, NEW z
  PROVE  LET q == <<x>> \o <<y>> \o <<z>>
         IN  DOMAIN q = 1 .. 3 /\ q[1] = x /\ q[2] = y /\ q[3] = z
<1> DEFINE p == <<x>> \o <<y>>
           q == p \o <<z>>
           S == {x, y, z}
<1>1. <<x>> \in Seq(S) /\ <<y>> \in Seq(S) /\ <<z>> \in Seq(S) /\ Len(<<z>>) = 1
      /\ <<z>>[1] = z
  OBVIOUS
<1>2. p \in Seq(S) /\ DOMAIN p = 1 .. 2 /\ p[1] = x /\ p[2] = y
  BY <1>1, TwoRequests, ConcatProperties
<1> HIDE DEF p
<1>3. Len(p) = 2
  BY <1>2, LenProperties
<1>4. /\ q \in Seq(S) /\ Len(q) = 2 + 1
      /\ \A i \in 1 .. 2 + 1 : q[i] = IF i <= 2 THEN p[i] ELSE <<z>>[i - 2]
  BY <1>1, <1>2, <1>3, ConcatProperties
<1> HIDE DEF q
<1>5. DOMAIN q = 1 .. 3
  BY <1>4, LenProperties
<1> QED
  BY <1>1, <1>2, <1>4, <1>5 DEF q, p

\* A handler that changes no disk, and what it leaves to be written: nothing,
LEMMA SaysNothing ==
  ASSUME TextInv, UNCHANGED <<dir, data, said>>, writes' = <<>>
  PROVE  Holds' /\ QueueSays' /\ Placed'
<1>1. Holds' /\ Placed'
  BY DEF TextInv, Holds, Placed, HasFile, FilesAt
<1> QED
  BY <1>1 DEF QueueSays, Formats, Overwrites, InOrder, Backed

\* or directories.
LEMMA SaysDirs ==
  ASSUME TextInv, UNCHANGED <<dir, data, said>>, PutsOnly,
         \A i \in DOMAIN writes' : writes'[i].by # "FORMAT" /\ FilesAt(writes'[i].value)
  PROVE  Holds' /\ QueueSays' /\ Placed'
<1>1. Holds' /\ Placed'
  BY DEF TextInv, Holds, Placed, HasFile, FilesAt
<1>2. Formats' /\ Overwrites' /\ InOrder' /\ Backed'
  BY DEF PutsOnly, Formats, Overwrites, InOrder, Backed
<1> QED
  BY <1>1, <1>2 DEF QueueSays

\* An entry in its place.
LEMMA FilesAtPut ==
  ASSUME NEW e \in [Slots -> Entries], FilesAt(e), NEW slot \in Slots, NEW x \in Entries,
         x.type = 1 => x.start = SaveLba(slot) \/ x.start >= AppLba
  PROVE  FilesAt([e EXCEPT ![slot] = x])
<1> DEFINE new == [e EXCEPT ![slot] = x]
<1>1. new[slot] = x /\ \A s \in Slots : s # slot => new[s] = e[s]
  OBVIOUS
<1> HIDE DEF new
<1>2. FilesAt(new)
  BY <1>1 DEF FilesAt
<1> QED
  BY <1>2 DEF new

\* The handlers that write a directory and nothing else.
LEMMA SaysEntry ==
  ASSUME TextInv, UNCHANGED <<dir, data, said>>, "read" \notin Faults, PutsOnly,
         NEW h, NEW before, NEW entries \in Reads(dir, before), NEW slot, NEW x,
         Puts(h, entries, slot, x), h # "FORMAT", x.type = 2 \/ x.start = AppLba
  PROVE  Holds' /\ QueueSays' /\ Placed'
<1>0. TypeInv /\ here # NoDrive
  BY DEF TextInv, OverInv, Puts
<1>1. entries = dir[here] /\ here \in Drives /\ entries \in [Slots -> Entries]
  BY <1>0, ReadsTheDisk
<1>2. FilesAt(entries) /\ slot \in Slots /\ x \in Entries
  BY <1>1 DEF TextInv, Placed, Puts
<1>3. AppLba >= AppLba
  BY LayoutAssumption
<1>4. FilesAt([entries EXCEPT ![slot] = x])
  BY <1>1, <1>2, <1>3, FilesAtPut
<1>5. \A i \in DOMAIN writes' :
        writes'[i].by = h /\ writes'[i].value = [entries EXCEPT ![slot] = x]
  BY DEF Puts, Carries, PutsOnly
<1> QED
  BY <1>4, <1>5, SaysDirs

\* FORMAT.
LEMMA SaysFormat ==
  ASSUME TextInv, format
  PROVE  Holds' /\ QueueSays' /\ Placed'
<1> DEFINE x == [by |-> "FORMAT", what |-> "boot", lba |-> 0, value |-> "cfs"]
           y == [by |-> "FORMAT", what |-> "dir", lba |-> 0, value |-> ZeroDir]
           q == <<x>> \o <<y>>
<1>1. UNCHANGED <<dir, data, said>> /\ (writes' = <<>> \/ writes' = q)
  BY DEF format, Queue, Write, WriteDir, disk
<1>2. DOMAIN q = 1 .. 2 /\ q[1] = x /\ q[2] = y
  BY TwoRequests
<1>3. /\ x.by = "FORMAT" /\ x.what = "boot"
      /\ y.by = "FORMAT" /\ y.what = "dir" /\ y.value = ZeroDir
  OBVIOUS
<1>4. FilesAt(ZeroDir)
  BY DEF FilesAt, ZeroDir, Entry
<1> HIDE DEF x, y, q
<1>5. CASE writes' = q
  <2>1. DOMAIN writes' = 1 .. 2 /\ writes'[1] = x /\ writes'[2] = y
    BY <1>2, <1>5
  <2>2. Holds' /\ Placed'
    BY <1>1, <1>3, <1>4, <2>1 DEF TextInv, Holds, Placed, HasFile, FilesAt
  <2>3. Formats'
    BY <1>3, <2>1 DEF Formats
  <2>4. Overwrites' /\ InOrder' /\ Backed'
    BY <1>3, <2>1 DEF Overwrites, InOrder, Backed
  <2> QED
    BY <2>2, <2>3, <2>4 DEF QueueSays
<1> QED
  BY <1>1, <1>5, SaysNothing

\* SAVE: its file has an entry on the drive, or lies behind the saved texts.
LEMMA SaysSave ==
  ASSUME TextInv, KnownOK, save
  PROVE  Holds' /\ QueueSays' /\ Placed'
<1> DEFINE x == [by |-> "SAVE", what |-> "data", lba |-> active_file_lba, value |-> content]
           y == [by |-> "SAVE", what |-> "said", lba |-> active_file_lba, value |-> content]
           z == [by |-> "SAVE", what |-> "data", lba |-> Scratch, value |-> content]
           q == <<x>> \o <<y>>
           r == <<z>>
<1>1. /\ UNCHANGED <<dir, data, said>> /\ here' = here /\ Idle
      /\ writes' = <<>> \/ (here # NoDrive /\ writes' = r)
           \/ (here # NoDrive /\ active_file_lba > 0 /\ writes' = q)
  BY DEF save, Queue, Write, disk, here
<1>2. DOMAIN q = 1 .. 2 /\ q[1] = x /\ q[2] = y
  BY TwoRequests
<1>3. DOMAIN r = 1 .. 1 /\ r[1] = z
  OBVIOUS
<1>4. /\ x.by = "SAVE" /\ x.what = "data" /\ x.lba = active_file_lba /\ x.value = content
      /\ y.by = "SAVE" /\ y.what = "said" /\ y.lba = active_file_lba /\ y.value = content
      /\ z.by = "SAVE" /\ z.what = "data"
  OBVIOUS
<1>5. active_file_lba \in Sectors
  BY DEF TextInv, OverInv, TypeInv, TypeOK
<1>6. Holds'
  BY <1>1 DEF TextInv, Holds, HasFile
<1>7. ASSUME \A i \in DOMAIN writes' : writes'[i].what # "dir"
      PROVE  Placed'
  BY <1>1, <1>7 DEF TextInv, Placed, FilesAt
<1> HIDE DEF x, y, z, q, r
<1>8. CASE writes' = r
  <2>1. \A i \in DOMAIN writes' : writes'[i].by = "SAVE" /\ writes'[i].what = "data"
    BY <1>3, <1>4, <1>8
  <2>2. Formats' /\ Overwrites' /\ InOrder' /\ Backed'
    BY <2>1 DEF Formats, Overwrites, InOrder, Backed
  <2> QED
    BY <1>6, <1>7, <2>1, <2>2 DEF QueueSays
<1>9. CASE here # NoDrive /\ active_file_lba > 0 /\ writes' = q
  <2>1. DOMAIN writes' = 1 .. 2 /\ writes'[1] = x /\ writes'[2] = y
    BY <1>2, <1>9
  <2>2. \A i \in DOMAIN writes' : writes'[i].by = "SAVE" /\ writes'[i].what # "dir"
    BY <1>4, <2>1
  <2>3. Formats' /\ Overwrites'
    BY <2>2 DEF Formats, Overwrites
  <2>4. InOrder'
    BY <1>4, <2>1 DEF InOrder
  <2>5. active_file_lba < AppLba => HasFile(dir'[here], active_file_lba)
    <3>1. active_file_lba # 0
      BY <1>5, <1>9, LayoutAssumption DEF Sectors
    <3> QED
      BY <1>1, <1>9, <3>1, KnownIdle DEF Known
  <2>6. Backed'
    <3> SUFFICES ASSUME NEW i \in DOMAIN writes', writes'[i].what = "said"
                 PROVE  DataFirst(i)' /\ EntryFirst(i)'
      BY DEF Backed
    <3>1. i = 2 /\ writes'[i] = y /\ 1 \in DOMAIN writes' /\ 1 < i
      BY <1>4, <2>1
    <3>2. DataFirst(i)'
      BY <1>4, <2>1, <3>1 DEF DataFirst
    <3>3. EntryFirst(i)'
      BY <1>1, <1>4, <2>5, <3>1 DEF EntryFirst, HasFile
    <3> QED
      BY <3>2, <3>3
  <2> QED
    BY <1>6, <1>7, <2>2, <2>3, <2>4, <2>6 DEF QueueSays
<1> QED
  BY <1>1, <1>8, <1>9, SaysNothing

\* The last step of the SAVE AS dialog: nothing was said of the block of a slot
\* that is free.
LEMMA SaysSaveAs ==
  ASSUME TextInv, "read" \notin Faults, save_as
  PROVE  Holds' /\ QueueSays' /\ Placed'
<1>0. TypeInv /\ UNCHANGED <<dir, data, said>> /\ here' = here
  BY DEF TextInv, OverInv, save_as, disk, here
<1>1. ASSUME NEW entries \in Reads(dir, buf_dir), NEW slot, NEW file,
             Puts("SAVE AS", entries, slot, file),
             file = Entry(1, SaveLba(slot), FileSectors, current_folder_id),
             writes' = Write("SAVE AS", "data", SaveLba(slot), content)
                         \o WriteDir("SAVE AS", [entries EXCEPT ![slot] = file])
                         \o Write("SAVE AS", "said", SaveLba(slot), content)
      PROVE  Holds' /\ QueueSays' /\ Placed'
  <2> DEFINE new == [entries EXCEPT ![slot] = file]
             lba == SaveLba(slot)
             x == [by |-> "SAVE AS", what |-> "data", lba |-> lba, value |-> content]
             y == [by |-> "SAVE AS", what |-> "dir", lba |-> 0, value |-> new]
             z == [by |-> "SAVE AS", what |-> "said", lba |-> lba, value |-> content]
             q == <<x>> \o <<y>> \o <<z>>
  <2>1. /\ here # NoDrive /\ slot \in Slots /\ entries[slot].type = 0 /\ file \in Entries
        /\ file.type = 1 /\ file.start = lba
    BY <1>1 DEF Puts, Entry
  <2>2. entries = dir[here] /\ here \in Drives /\ entries \in [Slots -> Entries]
    BY <1>0, <2>1, ReadsTheDisk
  <2>3. writes' = q
    BY <1>1 DEF Write, WriteDir
  <2>4. DOMAIN q = 1 .. 3 /\ q[1] = x /\ q[2] = y /\ q[3] = z
    <3> HIDE DEF x, y, z
    <3> QED
      BY ThreeRequests
  <2>5. /\ x.by = "SAVE AS" /\ x.what = "data" /\ x.lba = lba /\ x.value = content
        /\ y.by = "SAVE AS" /\ y.what = "dir" /\ y.value = new
        /\ z.by = "SAVE AS" /\ z.what = "said" /\ z.lba = lba /\ z.value = content
    OBVIOUS
  <2>6. FilesAt(entries)
    BY <2>2 DEF TextInv, Placed
  <2>7. FilesAt(new) /\ HasFile(new, lba)
    BY <2>1, <2>2, <2>6, FilesAtPut, FilePut
  <2>8. /\ lba \in Nat /\ lba < AppLba /\ lba \in Sectors
        /\ \A s \in Slots : SaveLba(s) = lba => s = slot
    <3>1. lba + FileSectors <= AppLba /\ lba \in Nat /\ FileSectors \in Nat \ {0}
          /\ AppLba \in Nat /\ AppLba <= LastSector /\ LastSector \in Nat
      BY <2>1, LayoutFits, LayoutAssumption
    <3>2. \A s \in Slots : SaveLba(s) = lba => s = slot
      BY <2>1, LayoutAssumption DEF SaveLba, Slots
    <3> HIDE DEF lba
    <3> QED
      BY <3>1, <3>2 DEF Sectors
  <2>9. said[here][lba] = Blank
    <3>1. CASE HasFile(dir[here], lba)
      <4>1. PICK s \in Slots : dir[here][s].type = 1 /\ dir[here][s].start = lba
        BY <3>1 DEF HasFile
      <4>2. ~ (lba >= AppLba)
        BY <2>8, LayoutAssumption
      <4>3. s = slot
        BY <2>2, <2>6, <2>8, <4>1, <4>2 DEF FilesAt
      <4> QED
        BY <2>1, <2>2, <4>1, <4>3
    <3>2. CASE ~ HasFile(dir[here], lba)
      BY <2>2, <2>8, <3>2 DEF TextInv, Holds
    <3> QED
      BY <3>1, <3>2
  <2> HIDE DEF new, lba, x, y, z, q
  <2>10. /\ writes'[1] = x /\ writes'[2] = y /\ writes'[3] = z
         /\ 1 \in DOMAIN writes' /\ 2 \in DOMAIN writes' /\ 3 \in DOMAIN writes'
         /\ \A i \in DOMAIN writes' : i = 1 \/ i = 2 \/ i = 3
    BY <2>3, <2>4
  <2>11. Holds'
    BY <1>0 DEF TextInv, Holds, HasFile
  <2>12. Placed'
    BY <1>0, <2>5, <2>7, <2>10 DEF TextInv, Placed, FilesAt
  <2>13. Formats'
    BY <2>5, <2>10 DEF Formats
  <2>14. Overwrites'
    BY <1>0, <2>5, <2>9, <2>10 DEF Overwrites
  <2>15. InOrder'
    <3>1. \A i \in DOMAIN writes' : writes'[i].what = "said" => i = 3
      BY <2>5, <2>10
    <3>2. \A i \in DOMAIN writes' : writes'[i].what = "data" => i = 1
      BY <2>5, <2>10
    <3>3. 1 < 3
      OBVIOUS
    <3>4. writes'[3].value = writes'[1].value
      BY <2>5, <2>10, Zenon
    <3> QED
      BY <3>1, <3>2, <3>3, <3>4 DEF InOrder
  <2>16. Backed'
    <3> SUFFICES ASSUME NEW i \in DOMAIN writes', writes'[i].what = "said"
                 PROVE  DataFirst(i)' /\ EntryFirst(i)'
      BY DEF Backed
    <3>0. i = 3
      BY <2>5, <2>10
    <3>1. writes'[i] = z /\ 1 < i /\ 2 < i
      BY <2>10, <3>0
    <3>2. DataFirst(i)'
      BY <2>5, <2>10, <3>1 DEF DataFirst
    <3>3. HasFile(writes'[2].value, writes'[i].lba)
      BY <2>5, <2>7, <2>10, <3>1
    <3>4. EntryFirst(i)'
      BY <2>5, <2>10, <3>1, <3>3 DEF EntryFirst, HasFile
    <3> QED
      BY <3>2, <3>4
  <2> QED
    BY <2>11, <2>12, <2>13, <2>14, <2>15, <2>16 DEF QueueSays
<1>2. PutsNothing => Holds' /\ QueueSays' /\ Placed'
  BY <1>0, SaysNothing DEF PutsNothing
<1> QED
  BY <1>0, <1>1, <1>2, SaveAsTypes

\* Every step keeps what is said true.
LEMMA NextText ==
  ASSUME TextInv, "SAVE" \in Buttons => KnownOK, [Next]_vars, Exact,
         Faults \subseteq {"crash"}
  PROVE  TextInv'
<1>1. TypeInv /\ OverInv /\ OverInv' /\ "read" \notin Faults /\ "write" \notin Faults
  BY NextKeeps DEF TextInv, OverInv, Exact
<1>2. CASE write_sector
  BY <1>1, <1>2, TextWrites DEF TextInv
<1>3. CASE \/ crash \/ open_drive \/ back \/ back_to_root \/ \E d \in Drives : select(d)
           \/ \E s \in Slots : open_folder(s) \/ open_file(s)
           \/ \E t \in Texts : type_text(t)
           \/ \E step \in {"choose", "file", "folder", "closed"} : dialog(step)
  <2>1. writes' = <<>> /\ UNCHANGED <<dir, data, said>>
    BY <1>3 DEF crash, open_drive, back, back_to_root, select, open_folder, open_file,
       type_text, dialog, Idle, disk
  <2> QED
    BY <1>1, <2>1, SaysNothing DEF TextInv
<1>4. CASE format
  BY <1>1, <1>4, SaysFormat DEF TextInv
<1>5. CASE "SAVE" \in Buttons /\ save
  BY <1>1, <1>5, SaysSave DEF TextInv
<1>6. CASE save_as
  BY <1>1, <1>6, SaysSaveAs DEF TextInv
<1>7. CASE add_file \/ mkdir \/ new_folder
  <2>1. UNCHANGED <<dir, data, said>>
    BY <1>7 DEF add_file, mkdir, new_folder, disk
  <2>2. /\ \A e : App(e).start = AppLba
        /\ \A p : Entry(2, 0, 0, p).type = 2
    BY DEF App, Entry
  <2>3. PutsNothing => Holds' /\ QueueSays' /\ Placed'
    BY <2>1, SaysNothing DEF PutsNothing
  <2> HIDE DEF App, Entry
  <2>4. CASE add_file
    <3>1. PutsOnly
      BY <1>1, <2>4, AddFileTypes
    <3>2. ASSUME NEW entries \in Reads(dir, ZeroDir), NEW slot,
                 Puts("+ FILE", entries, slot, App(entries[slot]))
          PROVE  Holds' /\ QueueSays' /\ Placed'
      BY <1>1, <2>1, <2>2, <3>1, <3>2, SaysEntry
    <3>3. Holds' /\ QueueSays' /\ Placed'
      BY <1>1, <2>3, <2>4, <3>2, AddFileTypes
    <3> QED
      BY <1>1, <3>3 DEF TextInv
  <2>5. CASE mkdir
    <3>1. PutsOnly
      BY <1>1, <2>5, MkdirTypes
    <3>2. ASSUME NEW entries \in Reads(dir, buf_dir), NEW slot,
                 Puts("MKDIR", entries, slot, Entry(2, 0, 0, entries[slot].parent))
          PROVE  Holds' /\ QueueSays' /\ Placed'
      BY <1>1, <2>1, <2>2, <3>1, <3>2, SaysEntry
    <3>3. Holds' /\ QueueSays' /\ Placed'
      BY <1>1, <2>3, <2>5, <3>2, MkdirTypes
    <3> QED
      BY <1>1, <3>3 DEF TextInv
  <2>6. CASE new_folder
    <3>1. PutsOnly
      BY <1>1, <2>6, NewFolderTypes
    <3>2. ASSUME NEW entries \in Reads(dir, buf_dir), NEW slot, NEW x,
                 Puts("NEW FOLDER", entries, slot, x), x = Entry(2, 0, 0, current_folder_id)
          PROVE  Holds' /\ QueueSays' /\ Placed'
      BY <1>1, <2>1, <2>2, <3>1, <3>2, SaysEntry
    <3>3. Holds' /\ QueueSays' /\ Placed'
      BY <1>1, <2>3, <2>6, <3>2, NewFolderTypes
    <3> QED
      BY <1>1, <3>3 DEF TextInv
  <2> QED
    BY <1>7, <2>4, <2>5, <2>6
<1>8. CASE UNCHANGED vars
  <2>1. UNCHANGED <<dir, data, said, writes>> /\ here' = here
    BY <1>8 DEF vars, disk, here
  <2>2. Holds' /\ Placed'
    BY <2>1 DEF TextInv, Holds, Placed, HasFile, FilesAt
  <2>3. Formats' /\ Overwrites' /\ InOrder'
    BY <2>1 DEF TextInv, QueueSays, Formats, Overwrites, InOrder
  <2>4. Backed'
    BY <2>1 DEF TextInv, QueueSays, Backed, DataFirst, EntryFirst, HasFile
  <2> QED
    BY <1>1, <2>2, <2>3, <2>4 DEF TextInv, QueueSays
<1> QED
  BY <1>1, <1>2, <1>3, <1>4, <1>5, <1>6, <1>7, <1>8 DEF Next, Pressed, Exact, lose_sector

\* What the program said it saved is on the disk and under an entry, at every moment
\* and after a power failure, as long as every sector is written and read and no
\* sectors are copied or installed.  With SAVE this takes one drive that is not
\* formatted: SAVE writes to the drive selected now, where the notepad's file need
\* not be.  INSTALL takes its sectors from the explorer's copy, which may be another
\* drive's, and the blocks of PASTE overlap the sectors of SAVE AS.
THEOREM TextsAreSaved ==
  Kinds \subseteq FileSystems /\ Faults \subseteq {"crash"} /\ Exact
    /\ ("SAVE" \in Buttons => OneDrive)
    => (Spec => []SavedIsSaved)
<1> SUFFICES ASSUME Kinds \subseteq FileSystems, Faults \subseteq {"crash"}, Exact,
                    "SAVE" \in Buttons => OneDrive
             PROVE  Spec => []SavedIsSaved
  OBVIOUS
<1> DEFINE Inv == TextInv /\ ("SAVE" \in Buttons => KnownOK)
<1>1. Init => Inv
  <2> SUFFICES ASSUME Init PROVE Inv
    OBVIOUS
  <2>1. OverInv /\ KnownOK
    BY InitTypeInv DEF Init, OverInv, PendingKeeps, KnownOK, Fresh, here
  <2>2. Holds
    BY DEF Init, Holds, ZeroSectors
  <2>3. Placed
    BY DEF Init, Placed, FilesAt, ZeroDir, Entry
  <2>4. QueueSays
    BY DEF Init, QueueSays, Formats, Overwrites, InOrder, Backed
  <2> QED
    BY <2>1, <2>2, <2>3, <2>4 DEF TextInv
<1>2. Inv /\ [Next]_vars => Inv'
  BY NextText, NextKnown DEF TextInv, OverInv
<1>3. Inv => SavedIsSaved
  BY HoldsIsSaved DEF TextInv, OverInv
<1> HIDE DEF Inv
<1> QED
  BY <1>1, <1>2, <1>3, PTL DEF Spec

====
