--------------------------- MODULE DiskMgr32Proofs --------------------------
(***************************************************************************)
(* Theorems about DiskMgr32, for any number of drives and slots, any       *)
(* formats and any session of the user.                                    *)
(***************************************************************************)
EXTENDS DiskMgr32, SequenceTheorems, WellFoundedInduction, TLAPS

-----------------------------------------------------------------------------
(* Slots.                                                                  *)

\* The loops that look for the first free slot find one if there is one.
LEMMA MinOfSlots ==
  ASSUME NEW T, T \subseteq Slots, T # {}
  PROVE  Min(T) \in T
<1>1. T \subseteq Nat
  BY LayoutAssumption DEF Slots
<1> DEFINE Less == {ss \in Nat \X Nat : ss[1] < ss[2]}
<1>2. IsWellFoundedOn(Less, Nat)
  BY NatLessThanWellFounded DEF OpToRel
<1> HIDE DEF Less
<1>4. \E x \in T : \A y \in T : ~ (<<y, x>> \in Less)
  BY <1>1, <1>2, WFMin
<1>5. ASSUME NEW x \in Nat, NEW y \in Nat, y < x PROVE <<y, x>> \in Less
  BY <1>5 DEF Less
<1>6. PICK x \in T : \A y \in T : ~ (<<y, x>> \in Less)
  BY <1>4
<1>7. ASSUME NEW y \in T PROVE x <= y
  <2>1. x \in Nat /\ y \in Nat
    BY <1>1
  <2>2. ~ (y < x)
    BY <1>5, <1>6, <2>1
  <2> QED
    BY <2>1, <2>2
<1>3. \E m \in T : \A y \in T : m <= y
  BY <1>7
<1> QED
  BY <1>3 DEF Min

\* The last CFS drive of COPY TO CFS is one.
LEMMA MaxOfTargets == CopyTargets # {} => Max(CopyTargets) \in CopyTargets
<1> SUFFICES ASSUME CopyTargets # {} PROVE Max(CopyTargets) \in CopyTargets
  OBVIOUS
<1>1. CopyTargets \subseteq 1 .. 3
  BY DEF CopyTargets
<1> HIDE DEF CopyTargets
<1>2. \E x \in CopyTargets : \A y \in CopyTargets : x >= y
  <2>1. CASE 3 \in CopyTargets
    <3>1. \A y \in CopyTargets : 3 >= y
      BY <1>1
    <3> QED
      BY <2>1, <3>1
  <2>2. CASE 3 \notin CopyTargets /\ 2 \in CopyTargets
    <3>1. \A y \in CopyTargets : 2 >= y
      BY <1>1, <2>2
    <3> QED
      BY <2>2, <3>1
  <2>3. CASE 3 \notin CopyTargets /\ 2 \notin CopyTargets
    <3>1. \A y \in CopyTargets : y = 1
      BY <1>1, <2>3
    <3>2. PICK x \in CopyTargets : TRUE
      OBVIOUS
    <3> QED
      BY <3>1, <3>2
  <2> QED
    BY <2>1, <2>2, <2>3
<1> QED
  BY <1>2 DEF Max

\* Directories whose entries are sound, and the sectors a handler writes.
SoundDirs == {e \in [Slots -> Entries] : \A s \in Slots : SoundEntry(e[s], s)}
Writers == {"FORMAT", "+", "DEL", "RENAME", "COPY", "SAVE", "SAVE AS", "CREATE", "RECOVER"}
Item(what, ats, values) ==
  [drive : Drives, by : Writers, what : {what}, at : ats, value : values]
Items == Item("dir", Nat, SoundDirs) \cup Item("boot", {0}, {"cfs"})
           \cup Item("data", Sectors, Texts \cup {Blank})

\* What the handlers make of a sound directory is sound.
LEMMA MadeSound ==
  ASSUME NEW e \in SoundDirs, NEW s \in Slots, NEW t \in 1 .. 2
  PROVE  Made(e, t, s) \in SoundDirs
<1>1. SaveBase + s \in Sectors /\ 0 \in Sectors
  BY LayoutAssumption DEF Slots, Sectors
<1> QED
  BY <1>1, LayoutAssumption DEF Made, Entry, SoundDirs, SoundEntry, Entries

\* A formatted directory is sound.
LEMMA ZeroSound == ZeroDir \in SoundDirs
<1>1. 0 \in Sectors
  BY LayoutAssumption DEF Sectors
<1> QED
  BY <1>1 DEF ZeroDir, SoundDirs, SoundEntry, Entries

\* The sectors of a sound directory may be queued.
LEMMA WriteDirItems ==
  ASSUME NEW d, NEW h \in Writers, NEW e \in SoundDirs
  PROVE  /\ WriteDir(d, h, e) \in Seq(Items)
         /\ \A i \in DOMAIN WriteDir(d, h, e) : WriteDir(d, h, e)[i].what = "dir"
<1>1. DirSectors \in Nat \ {0}
  BY LayoutAssumption DEF DirSectors, SectorOf
<1>2. CASE d \in Drives
  <2>1. WriteDir(d, h, e) = [i \in 1 .. DirSectors |->
           [drive |-> d, by |-> h, what |-> "dir", at |-> i - 1, value |-> e]]
    BY <1>2 DEF WriteDir
  <2>2. \A i \in 1 .. DirSectors :
           [drive |-> d, by |-> h, what |-> "dir", at |-> i - 1, value |-> e] \in Items
    BY <1>1, <1>2 DEF Items, Item
  <2> QED
    BY <1>1, <2>1, <2>2
<1>3. CASE d \notin Drives
  BY <1>3 DEF WriteDir
<1> QED
  BY <1>2, <1>3

-----------------------------------------------------------------------------
(* Types.                                                                  *)

\* The inductive invariant: with the types, every directory that is on a disk
\* or on its way there is sound, and a handler's data sector goes out first,
\* to a sector that no file of the directory owns.
DataFirst == \A i \in DOMAIN writes : writes[i].what = "data" => i = 1
WritesOK  == /\ dir \in [Drives -> SoundDirs]
             /\ writes \in Seq(Items)
             /\ DataFirst
IInv == TypeOK /\ DriveWhileOpen /\ WritesOK /\ CreateSparesFiles

\* Start-up.
LEMMA InitIInv == Init /\ Formats \subseteq [Drives -> {"cfs", "fat", "none"}] => IInv
<1> SUFFICES ASSUME Init, Formats \subseteq [Drives -> {"cfs", "fat", "none"}] PROVE IInv
  OBVIOUS
<1>1. 0 \in Sectors
  BY LayoutAssumption DEF Sectors
<1>2. NoFiles \in [Slots -> Files]
  BY <1>1 DEF NoFiles, Gone, File, Files
<1>3. ZeroDir \in [Slots -> Entries]
  BY <1>1 DEF ZeroDir, Entries
<1>4. TypeOK
  BY <1>2, <1>3 DEF Init, TypeOK
<1>5. WritesOK
  BY ZeroSound DEF Init, WritesOK, DataFirst
<1>6. DOMAIN writes = {}
  BY DEF Init
<1>7. CreateSparesFiles
  BY <1>6 DEF CreateSparesFiles
<1> QED
  BY <1>4, <1>5, <1>7 DEF IInv, Init, DriveWhileOpen

\* A handler that starts writing: its sectors are new, the disk is as it was.
LEMMA QueueDir ==
  ASSUME NEW d, NEW h \in Writers, NEW e \in SoundDirs
  PROVE  IInv /\ dir' = dir /\ writes' = WriteDir(d, h, e) => WritesOK' /\ CreateSparesFiles'
<1> SUFFICES ASSUME IInv, dir' = dir, writes' = WriteDir(d, h, e)
             PROVE  WritesOK' /\ CreateSparesFiles'
  OBVIOUS
<1>1. writes' \in Seq(Items) /\ \A i \in DOMAIN writes' : writes'[i].what = "dir"
  BY WriteDirItems
<1> QED
  BY <1>1 DEF IInv, WritesOK, DataFirst, CreateSparesFiles

\* A step that neither queues nor writes.
LEMMA NoQueue == IInv /\ UNCHANGED <<dir, writes>> => WritesOK' /\ CreateSparesFiles'
BY DEF IInv, WritesOK, DataFirst, CreateSparesFiles

\* SAVE AS and COPY TO CFS: one sector of data for a slot that is free.
LEMMA QueueFile ==
  ASSUME NEW d \in Drives, NEW h \in Writers, NEW s \in Slots, NEW v \in Texts \cup {Blank}
  PROVE  /\ IInv /\ dir' = dir /\ dir[d][s].type = 0
         /\ writes' = Write(d, h, "data", SaveBase + s, v)
                        \o WriteDir(d, h, Made(dir[d], 1, s))
         => WritesOK' /\ CreateSparesFiles'
<1> SUFFICES ASSUME IInv, dir' = dir, dir[d][s].type = 0,
                    writes' = Write(d, h, "data", SaveBase + s, v)
                                \o WriteDir(d, h, Made(dir[d], 1, s))
             PROVE  WritesOK' /\ CreateSparesFiles'
  OBVIOUS
<1> DEFINE w == [drive |-> d, by |-> h, what |-> "data", at |-> SaveBase + s, value |-> v]
           ws == WriteDir(d, h, Made(dir[d], 1, s))
<1>1. Made(dir[d], 1, s) \in SoundDirs
  BY MadeSound DEF IInv, WritesOK
<1>2. ws \in Seq(Items) /\ \A i \in DOMAIN ws : ws[i].what = "dir"
  BY <1>1, WriteDirItems
<1>3. SaveBase + s \in Sectors
  BY LayoutAssumption DEF Slots, Sectors
<1>4. w \in Items
  BY <1>3 DEF Items, Item
<1>5. writes' = <<w>> \o ws
  BY DEF Write
<1> HIDE DEF w, ws
<1>12. <<w>> \in Seq(Items) /\ Len(<<w>>) = 1 /\ <<w>>[1] = w
  BY <1>4
<1>13. /\ writes' \in Seq(Items)
       /\ Len(writes') = 1 + Len(ws)
       /\ \A i \in 1 .. 1 + Len(ws) : writes'[i] = IF i <= 1 THEN <<w>>[i] ELSE ws[i - 1]
  <2>1. /\ <<w>> \o ws \in Seq(Items)
        /\ Len(<<w>> \o ws) = Len(<<w>>) + Len(ws)
        /\ \A i \in 1 .. Len(<<w>>) + Len(ws) :
             (<<w>> \o ws)[i] = IF i <= Len(<<w>>) THEN <<w>>[i] ELSE ws[i - Len(<<w>>)]
    BY <1>2, <1>12, ConcatProperties
  <2> QED
    BY <1>5, <1>12, <2>1
<1>6. writes' \in Seq(Items)
  BY <1>13
<1>14. Len(ws) \in Nat
  BY <1>2
<1>10. writes'[1] = w /\ DOMAIN writes' = 1 .. 1 + Len(ws)
  BY <1>12, <1>13, <1>14
<1>11. ASSUME NEW i \in 2 .. 1 + Len(ws) PROVE writes'[i].what = "dir"
  <2>1. writes'[i] = ws[i - 1] /\ i - 1 \in DOMAIN ws
    BY <1>2, <1>13, <1>14
  <2> QED
    BY <1>2, <2>1
<1>7. \A i \in DOMAIN writes' : (i = 1 /\ writes'[i] = w) \/ (i # 1 /\ writes'[i].what = "dir")
  BY <1>2, <1>10, <1>11
<1>8. \A u \in Slots : dir[d][u].type = 1 => dir[d][u].start # SaveBase + s
  <2>1. \A u \in Slots : SoundEntry(dir[d][u], u)
    BY DEF IInv, WritesOK, SoundDirs
  <2> QED
    BY <2>1, LayoutAssumption DEF SoundEntry, Slots
<1>9. CreateSparesFiles'
  <2> SUFFICES ASSUME NEW i \in DOMAIN writes', writes'[i].what = "data", NEW u \in Slots,
                      dir[writes'[i].drive][u].type = 1
               PROVE  dir[writes'[i].drive][u].start # writes'[i].at
    BY DEF CreateSparesFiles
  <2>1. writes'[i] = w
    BY <1>7
  <2>2. w.drive = d /\ w.at = SaveBase + s
    BY DEF w
  <2> QED
    BY <1>8, <2>1, <2>2
<1> QED
  BY <1>6, <1>7, <1>9 DEF IInv, WritesOK, DataFirst

-----------------------------------------------------------------------------
(* Steps.                                                                  *)

\* One sector reaches the disk: a directory stays sound when it is new in one
\* sector and old in the others.
LEMMA SectorStep == IInv /\ write_sector => IInv'
<1> SUFFICES ASSUME IInv, write_sector PROVE IInv'
  OBVIOUS
<1> DEFINE w == Head(writes)
<1>1. /\ writes \in Seq(Items) /\ writes # <<>> /\ writes' = Tail(writes)
  BY DEF IInv, WritesOK, write_sector, Idle
<1>2. /\ w \in Items /\ w = writes[1] /\ 1 \in DOMAIN writes
      /\ writes' \in Seq(Items)
      /\ \A i \in DOMAIN writes' : i + 1 \in DOMAIN writes /\ i \in Nat \ {0}
                                   /\ writes'[i] = writes[i + 1]
  BY <1>1, HeadTailProperties
<1>3. \A i \in DOMAIN writes' : writes'[i].what # "data"
  BY <1>2 DEF IInv, WritesOK, DataFirst
<1>4. dir' \in [Drives -> SoundDirs]
  <2>1. CASE w.what = "dir"
    <3>1. w.drive \in Drives /\ w.value \in SoundDirs
      BY <1>2, <2>1 DEF Items, Item
    <3> DEFINE e == [s \in Slots |-> IF SectorOf(s) = w.at THEN w.value[s]
                                     ELSE dir[w.drive][s]]
    <3>2. dir[w.drive] \in SoundDirs
      BY <3>1 DEF IInv, WritesOK
    <3>3. e \in SoundDirs
      BY <3>1, <3>2 DEF SoundDirs
    <3>4. dir' = [dir EXCEPT ![w.drive] = e]
      BY <2>1 DEF write_sector
    <3> HIDE DEF e
    <3> QED
      BY <3>1, <3>3, <3>4 DEF IInv, WritesOK
  <2>2. CASE w.what # "dir"
    BY <2>2 DEF write_sector, IInv, WritesOK
  <2> QED
    BY <2>1, <2>2
<1>5. boot' \in [Drives -> {"cfs", "fat", "none"}]
  <2>1. w.what = "boot" => w.drive \in Drives /\ w.value = "cfs"
    BY <1>2 DEF Items, Item
  <2> QED
    BY <2>1 DEF write_sector, IInv, TypeOK
<1>6. data' \in [Drives -> [Sectors -> Texts \cup {Blank}]]
  <2>1. w.what = "data" => /\ w.drive \in Drives /\ w.at \in Sectors
                           /\ w.value \in Texts \cup {Blank}
    BY <1>2 DEF Items, Item
  <2>2. CASE w.what = "data"
    <3>1. data' = [data EXCEPT ![w.drive][w.at] = w.value]
      BY <2>2 DEF write_sector
    <3>2. data \in [Drives -> [Sectors -> Texts \cup {Blank}]]
      BY DEF IInv, TypeOK
    <3> HIDE DEF w
    <3> QED
      BY <2>1, <2>2, <3>1, <3>2
  <2>3. CASE w.what # "data"
    BY <2>3 DEF write_sector, IInv, TypeOK
  <2> QED
    BY <2>2, <2>3
<1>7. dir' \in [Drives -> [Slots -> Entries]]
  BY <1>4 DEF SoundDirs
<1>8. TypeOK'
  BY <1>5, <1>6, <1>7 DEF write_sector, IInv, TypeOK, drive, view, note
<1>9. WritesOK' /\ CreateSparesFiles'
  BY <1>2, <1>3, <1>4 DEF WritesOK, DataFirst, CreateSparesFiles
<1> QED
  BY <1>8, <1>9 DEF IInv, DriveWhileOpen, write_sector, drive, view

\* A power failure leaves the disk, and RAM as at start-up.
LEMMA CrashStep == IInv /\ crash => IInv'
<1> SUFFICES ASSUME IInv, crash PROVE IInv'
  OBVIOUS
<1>1. 0 \in Sectors
  BY LayoutAssumption DEF Sectors
<1>2. NoFiles \in [Slots -> Files]
  BY <1>1 DEF NoFiles, Gone, File, Files
<1>3. TypeOK'
  BY <1>2 DEF crash, IInv, TypeOK, disk
<1>4. DOMAIN writes' = {} /\ writes' \in Seq(Items)
  BY DEF crash
<1>5. WritesOK' /\ CreateSparesFiles'
  BY <1>4 DEF crash, disk, IInv, WritesOK, DataFirst, CreateSparesFiles
<1> QED
  BY <1>3, <1>5 DEF IInv, DriveWhileOpen, crash

\* What OPEN DRIVE and the dialog make of file_table.
LEMMA TableTypes ==
  ASSUME TypeOK
  PROVE  /\ FatFiles \in [Slots -> Files]
         /\ \A d \in Drives : CfsFiles(dir[d]) \in [Slots -> Files]
         /\ [s \in Slots |-> Gone(file_table[s])] \in [Slots -> Files]
<1>1. FatLba \in Sectors
  BY LayoutAssumption DEF Sectors
<1>2. \A s \in Slots : file_table[s] \in Files /\ Gone(file_table[s]) \in Files
  BY DEF TypeOK, Files, Gone
<1>3. \A x \in BOOLEAN, l \in Sectors, p \in Slots \cup {Root} : File(x, l, p) \in Files
  BY DEF File, Files
<1>4. \A d \in Drives, s \in Slots : dir[d][s] \in Entries
  BY DEF TypeOK
<1>5. \A d \in Drives, s \in Slots :
        File(dir[d][s].type = 2, dir[d][s].start, Root) \in Files
  BY <1>3, <1>4 DEF Entries
<1>6. File(FALSE, FatLba, Root) \in Files
  BY <1>1, <1>3
<1> QED
  BY <1>2, <1>5, <1>6 DEF FatFiles, CfsFiles

\* The handlers that write nothing.
QuietStep ==
  \/ \E d \in Drives : select_drive(d)
  \/ go_home \/ refresh \/ reopen_window \/ open_drive \/ enter_key
  \/ back_to_drives \/ back_to_root \/ arrow_key
  \/ \E t \in 1 .. 2 : new_in_folder(t)
  \/ \E f \in Slots : rename_entry(f) \/ click_row(f)
  \/ type_note
  \/ open_dialog \/ close_dialog \/ draw_dialog \/ next_drive \/ leave_drive_step
  \/ \E p \in Slots \cup {Root} : choose_folder(p)

\* A click on a row leaves the view and the note in their ranges.
OpenedOK == /\ dsk_view \in 0 .. 2 /\ file_selection \in Slots \cup {-1}
            /\ current_folder_view_idx \in Slots \cup {-1}
            /\ current_path_id \in Slots \cup {Root}
            /\ current_open_file \in Slots \cup {-1} /\ note_buf \in Texts \cup {Blank}
LEMMA OpenRowTypes ==
  ASSUME TypeOK, active_drive_idx \in Drives, NEW f \in Slots, OpenRow(f)
  PROVE  OpenedOK'
<1>1. data[active_drive_idx][file_table[f].lba] \in Texts \cup {Blank}
  <2>1. file_table[f].lba \in Sectors
    BY DEF TypeOK, Files
  <2> QED
    BY <2>1 DEF TypeOK
<1>2. CASE file_table[f].folder
  BY <1>2 DEF TypeOK, OpenRow, OpenedOK, note
<1>3. CASE ~file_table[f].folder
  <2>1. note_buf' \in Texts \cup {Blank}
    BY <1>1, <1>3 DEF OpenRow, here
  <2> QED
    BY <1>3, <2>1 DEF TypeOK, OpenRow, OpenedOK
<1> QED
  BY <1>2, <1>3

\* The handlers that only change what is shown.
LEMMA QuietTypes ==
  TypeOK /\ DriveWhileOpen /\ QuietStep => TypeOK' /\ UNCHANGED <<dir, writes>>
<1> SUFFICES ASSUME TypeOK, DriveWhileOpen, QuietStep PROVE TypeOK' /\ UNCHANGED <<dir, writes>>
  OBVIOUS
<1> USE DEF disk, drive, view, note, here
<1>a. 0 \in Drives /\ 0 \in Sectors /\ KeyFiles - 1 \in Slots /\ KeyFiles \in Nat \ {0}
  BY DriveAssumption, LayoutAssumption DEF Drives, Sectors, Slots
<1>1. ASSUME NEW d \in Drives, select_drive(d) PROVE TypeOK' /\ UNCHANGED <<dir, writes>>
  BY <1>1 DEF TypeOK, select_drive
<1>2. CASE go_home
  BY <1>2 DEF TypeOK, go_home
<1>3. CASE refresh
  BY <1>3 DEF TypeOK, refresh, ahci_mount_drive
<1>4. CASE reopen_window
  BY <1>4 DEF TypeOK, reopen_window, ahci_mount_drive
<1>5. CASE open_drive
  <2>1. active_drive_idx \in Drives
    BY <1>5 DEF TypeOK, open_drive
  <2>2. file_table' \in {CfsFiles(dir[active_drive_idx]), FatFiles, file_table}
    BY <1>5, Zenon DEF open_drive
  <2>3. file_table' \in [Slots -> Files]
    BY <2>1, <2>2, TableTypes DEF TypeOK
  <2> QED
    BY <1>5, <2>3 DEF TypeOK, open_drive
<1>6. CASE back_to_drives \/ enter_key
  BY <1>6 DEF TypeOK, back_to_drives, enter_key
<1>7. CASE back_to_root
  BY <1>7 DEF TypeOK, back_to_root
<1>8. CASE arrow_key
  <2>1. file_selection' \in Slots
    <3>1. file_selection \in Slots \cup {-1}
      BY DEF TypeOK
    <3> QED
      BY <1>a, <1>8, <3>1, LayoutAssumption DEF arrow_key, Slots
  <2> QED
    BY <1>8, <2>1 DEF TypeOK, arrow_key
<1>9. ASSUME NEW t \in 1 .. 2, new_in_folder(t) PROVE TypeOK' /\ UNCHANGED <<dir, writes>>
  <2> DEFINE free == {s \in Slots : ~file_table[s].exists}
             s == Min(free)
             lba == IF t = 1 THEN SaveBase + s ELSE 0
  <2>1. s \in Slots
    BY <1>9, MinOfSlots DEF new_in_folder
  <2>2. file_table' = [file_table EXCEPT ![s] = File(t = 2, lba, current_folder_view_idx)]
    BY <1>9 DEF new_in_folder
  <2> HIDE DEF free, s
  <2>3. lba \in Sectors
    BY <1>a, <2>1, LayoutAssumption DEF Slots, Sectors
  <2>4. current_folder_view_idx \in Slots
    <3>1. current_folder_view_idx \in Slots \cup {-1}
      BY DEF TypeOK
    <3>2. current_folder_view_idx >= 0
      BY <1>9 DEF new_in_folder
    <3> QED
      BY <3>1, <3>2
  <2> HIDE DEF lba
  <2>5. File(t = 2, lba, current_folder_view_idx) \in Files
    BY <2>3, <2>4 DEF File, Files
  <2>6. file_table' \in [Slots -> Files]
    BY <2>1, <2>2, <2>5 DEF TypeOK
  <2> QED
    BY <1>9, <2>6 DEF TypeOK, new_in_folder
<1>10. ASSUME NEW f \in Slots, rename_entry(f) PROVE TypeOK' /\ UNCHANGED <<dir, writes>>
  BY <1>10 DEF TypeOK, rename_entry
<1>11. ASSUME NEW f \in Slots, click_row(f) PROVE TypeOK' /\ UNCHANGED <<dir, writes>>
  <2>1. active_drive_idx \in Drives
    BY <1>11 DEF click_row, InRoot, InFolder, DriveWhileOpen
  <2>2. OpenedOK'
    BY <1>11, <2>1, OpenRowTypes DEF click_row
  <2> QED
    BY <1>11, <2>2 DEF TypeOK, OpenedOK, click_row
<1>12. CASE type_note
  BY <1>12 DEF TypeOK, type_note
<1>13. CASE open_dialog \/ close_dialog
  BY <1>13 DEF TypeOK, open_dialog, close_dialog
<1>14. Chosen \in Drives
  BY <1>a DEF Chosen
<1>15. CASE draw_dialog \/ leave_drive_step
  BY <1>14, <1>15 DEF TypeOK, draw_dialog, leave_drive_step
<1>16. CASE next_drive
  <2> DEFINE d == (Chosen + 1) % NumDrives
  <2>1. d \in Drives
    BY <1>14, DriveAssumption DEF Drives
  <2>2. file_table' \in {CfsFiles(dir[d]), [s \in Slots |-> Gone(file_table[s])]}
    BY <1>16 DEF next_drive
  <2>3. file_table' \in [Slots -> Files]
    BY <2>1, <2>2, TableTypes
  <2> HIDE DEF d
  <2>4. active_drive_idx' = d
    BY <1>16 DEF next_drive, d
  <2> QED
    BY <1>16, <2>1, <2>3, <2>4 DEF TypeOK, next_drive
<1>17. ASSUME NEW p \in Slots \cup {Root}, choose_folder(p)
       PROVE  TypeOK' /\ UNCHANGED <<dir, writes>>
  BY <1>14, <1>17 DEF TypeOK, choose_folder
<1> QED
  BY <1>1, <1>2, <1>3, <1>4, <1>5, <1>6, <1>7, <1>8, <1>9, <1>10, <1>11, <1>12, <1>13,
     <1>15, <1>16, <1>17 DEF QuietStep

\* A deleted entry, a recovered one and one with another name are sound too.
LEMMA EntryEdits ==
  ASSUME NEW e \in SoundDirs, NEW f \in Slots
  PROVE  /\ [e EXCEPT ![f].type = 0] \in SoundDirs
         /\ \A named \in BOOLEAN : [e EXCEPT ![f].named = named] \in SoundDirs
         /\ e[f].type = 0 =>
              [e EXCEPT ![f].type = IF e[f].start > 0 THEN 1 ELSE 2] \in SoundDirs
<1>1. SaveBase + f > 0 /\ SaveBase + f \in Nat
  BY LayoutAssumption DEF Slots
<1> QED
  BY <1>1 DEF SoundDirs, SoundEntry, Entries

\* The handlers that write a disk leave what they do not name.
WriteStep ==
  \/ format_cfs \/ rename_save \/ save_note
  \/ \E t \in 1 .. 2 : new_entry(t)
  \/ \E f \in Slots : delete_in_root(f) \/ delete_in_folder(f) \/ copy_to_cfs(f) \/ recover(f)
  \/ \E d \in Drives : save_as(d) \/ create_folder(d)

\* The slot that a handler finds in a directory with room.
LEMMA FreeSlotOf ==
  ASSUME NEW d \in Drives, Free(dir[d]) # {}
  PROVE  Min(Free(dir[d])) \in Slots /\ dir[d][Min(Free(dir[d]))].type = 0
<1>1. Free(dir[d]) \subseteq Slots
  BY DEF Free
<1>2. Min(Free(dir[d])) \in Free(dir[d])
  BY <1>1, MinOfSlots
<1> QED
  BY <1>2 DEF Free

\* What the writers do to the disk.
LEMMA WriteSound == IInv /\ WriteStep => WritesOK' /\ CreateSparesFiles'
<1> SUFFICES ASSUME IInv, WriteStep PROVE WritesOK' /\ CreateSparesFiles'
  OBVIOUS
<1> USE DEF disk, here
<1>a. /\ IInv /\ TypeOK /\ DriveWhileOpen /\ dir \in [Drives -> SoundDirs]
      /\ \A d \in Drives : dir[d] \in SoundDirs
  BY DEF IInv, WritesOK
<1>1. CASE format_cfs
  <2>1. Idle /\ dir' = dir /\ active_drive_idx \in Drives
    BY <1>1, <1>a DEF format_cfs, TypeOK
  <2> DEFINE d == active_drive_idx
             ws == WriteDir(d, "FORMAT", ZeroDir)
             w  == [drive |-> d, by |-> "FORMAT", what |-> "boot", at |-> 0, value |-> "cfs"]
  <2>2. ws \in Seq(Items) /\ \A i \in DOMAIN ws : ws[i].what = "dir"
    BY ZeroSound, WriteDirItems DEF Writers
  <2>3. <<w>> \in Seq(Items) /\ Len(<<w>>) = 1 /\ <<w>>[1].what = "boot"
    BY <2>1 DEF Items, Item, Writers
  <2>4. writes' = <<w>> \o ws
    BY <1>1, <2>1 DEF format_cfs, Write
  <2> HIDE DEF w, ws
  <2>5. /\ <<w>> \o ws \in Seq(Items)
        /\ Len(<<w>> \o ws) = Len(<<w>>) + Len(ws)
        /\ \A i \in 1 .. Len(<<w>>) + Len(ws) :
             (<<w>> \o ws)[i] = IF i <= Len(<<w>>) THEN <<w>>[i] ELSE ws[i - Len(<<w>>)]
    BY <2>2, <2>3, ConcatProperties
  <2>6. ASSUME NEW i \in DOMAIN writes' PROVE writes'[i].what # "data"
    <3>1. i \in 1 .. 1 + Len(ws) /\ Len(ws) \in Nat
      BY <2>2, <2>3, <2>4, <2>5
    <3>2. CASE i = 1
      BY <2>3, <2>4, <2>5, <3>1, <3>2
    <3>3. CASE i # 1
      <4>1. writes'[i] = ws[i - 1] /\ i - 1 \in DOMAIN ws
        BY <2>2, <2>3, <2>4, <2>5, <3>1, <3>3
      <4> QED
        BY <2>2, <4>1
    <3> QED
      BY <3>2, <3>3
  <2> QED
    BY <1>a, <2>1, <2>4, <2>5, <2>6 DEF WritesOK, DataFirst, CreateSparesFiles
<1>2. CASE rename_save
  <2>1. PICK d \in Port(active_drive_idx), named \in BOOLEAN :
          writes' = WriteDir(d, "RENAME",
                      IF d \in Drives
                      THEN [dir[d] EXCEPT ![renaming_file_idx].named = named] ELSE ZeroDir)
    BY <1>2 DEF rename_save
  <2>2. renaming_file_idx \in Slots /\ Idle /\ dir' = dir
    BY <1>2, <1>a DEF rename_save, TypeOK
  <2> DEFINE e == IF d \in Drives
                  THEN [dir[d] EXCEPT ![renaming_file_idx].named = named] ELSE ZeroDir
  <2>3. e \in SoundDirs
    BY <1>a, <2>2, EntryEdits, ZeroSound
  <2> HIDE DEF e
  <2>4. writes' = WriteDir(d, "RENAME", e)
    BY <2>1 DEF e
  <2> QED
    BY <2>2, <2>3, <2>4, <1>a, QueueDir DEF Writers
<1>3. CASE save_note
  <2>1. PICK d \in Port(active_drive_idx) :
          writes' = Write(d, "SAVE", "data", file_table[current_open_file].lba, note_buf)
    BY <1>3 DEF save_note
  <2>2. /\ current_open_file \in Slots /\ Idle /\ dir' = dir
        /\ note_buf \in Texts \cup {Blank}
    BY <1>3, <1>a DEF save_note, TypeOK
  <2>3. file_table[current_open_file].lba \in Sectors
    BY <1>a, <2>2 DEF TypeOK, Files
  <2>4. CASE d \in Drives
    <3> DEFINE w == [drive |-> d, by |-> "SAVE", what |-> "data",
                     at |-> file_table[current_open_file].lba, value |-> note_buf]
    <3>1. w \in Items /\ w.by = "SAVE"
      BY <2>2, <2>3, <2>4 DEF Items, Item, Writers
    <3>2. writes' = <<w>>
      BY <2>1, <2>4 DEF Write
    <3> HIDE DEF w
    <3>3. DOMAIN writes' = {1} /\ writes'[1] = w /\ writes' \in Seq(Items)
      BY <3>1, <3>2
    <3> QED
      BY <1>a, <2>2, <3>1, <3>3 DEF WritesOK, DataFirst, CreateSparesFiles
  <2>5. CASE d \notin Drives
    <3>1. DOMAIN writes' = {} /\ writes' \in Seq(Items)
      BY <2>1, <2>5 DEF Write
    <3> QED
      BY <1>a, <2>2, <3>1 DEF WritesOK, DataFirst, CreateSparesFiles
  <2> QED
    BY <2>4, <2>5
<1>4. ASSUME NEW t \in 1 .. 2, new_entry(t) PROVE WritesOK' /\ CreateSparesFiles'
  <2> DEFINE s == Min(Free(dir[active_drive_idx]))
  <2>1. active_drive_idx \in Drives /\ Free(dir[active_drive_idx]) # {} /\ dir' = dir
    <3>1. dsk_view = 1 /\ Free(dir[active_drive_idx]) # {} /\ dir' = dir
      BY <1>4 DEF new_entry
    <3> QED
      BY <1>a, <3>1 DEF DriveWhileOpen
  <2>2. s \in Slots
    BY <2>1, FreeSlotOf
  <2>3. Made(dir[active_drive_idx], t, s) \in SoundDirs
    BY <1>a, <2>1, <2>2, MadeSound
  <2>4. writes' = WriteDir(active_drive_idx, "+", Made(dir[active_drive_idx], t, s))
    BY <1>4 DEF new_entry
  <2> QED
    BY <2>1, <2>3, <2>4, <1>a, QueueDir DEF Writers
<1>5. ASSUME NEW f \in Slots, delete_in_root(f) \/ delete_in_folder(f)
      PROVE  WritesOK' /\ CreateSparesFiles'
  <2>1. active_drive_idx \in Drives /\ Idle /\ dir' = dir
    BY <1>5, <1>a DEF delete_in_root, delete_in_folder, InRoot, InFolder, DriveWhileOpen,
       DeleteEntry
  <2>2. writes' = WriteDir(active_drive_idx, "DEL", [dir[active_drive_idx] EXCEPT ![f].type = 0])
    BY <1>5 DEF delete_in_root, delete_in_folder, DeleteEntry
  <2>3. [dir[active_drive_idx] EXCEPT ![f].type = 0] \in SoundDirs
    BY <1>a, <2>1, EntryEdits
  <2> QED
    BY <2>1, <2>2, <2>3, <1>a, QueueDir DEF Writers
<1>6. ASSUME NEW f \in Slots, copy_to_cfs(f) PROVE WritesOK' /\ CreateSparesFiles'
  <2> DEFINE d == Max(CopyTargets)
             s == Min(Free(dir[d]))
  <2>1. d \in Drives
    BY <1>6, MaxOfTargets DEF copy_to_cfs, CopyTargets
  <2>2. Free(dir[d]) # {} /\ Idle /\ dir' = dir
    BY <1>6 DEF copy_to_cfs
  <2>3. s \in Slots /\ dir[d][s].type = 0
    BY <2>1, <2>2, FreeSlotOf
  <2>4. data[active_drive_idx][file_table[f].lba] \in Texts \cup {Blank}
    <3>1. active_drive_idx \in Drives
      BY <1>6, <1>a DEF copy_to_cfs, InRoot, DriveWhileOpen
    <3>2. file_table[f].lba \in Sectors
      BY <1>a DEF TypeOK, Files
    <3> QED
      BY <1>a, <3>1, <3>2 DEF TypeOK
  <2>5. writes' = Write(d, "COPY", "data", SaveBase + s, data[active_drive_idx][file_table[f].lba])
                    \o WriteDir(d, "COPY", Made(dir[d], 1, s))
    BY <1>6 DEF copy_to_cfs
  <2> HIDE DEF d, s
  <2> QED
    BY <2>1, <2>2, <2>3, <2>4, <2>5, <1>a, QueueFile DEF Writers
<1>7. ASSUME NEW s \in Slots, recover(s) PROVE WritesOK' /\ CreateSparesFiles'
  <2>1. active_drive_idx \in Drives /\ dir[active_drive_idx][s].type = 0 /\ Idle /\ dir' = dir
    BY <1>7, <1>a DEF recover, TypeOK
  <2> DEFINE e == [dir[active_drive_idx] EXCEPT ![s].type =
                     IF dir[active_drive_idx][s].start > 0 THEN 1 ELSE 2]
  <2>2. e \in SoundDirs
    BY <1>a, <2>1, EntryEdits
  <2>3. writes' = WriteDir(active_drive_idx, "RECOVER", e)
    BY <1>7 DEF recover
  <2> HIDE DEF e
  <2> QED
    BY <2>1, <2>2, <2>3, <1>a, QueueDir DEF Writers
<1>8. ASSUME NEW d \in Drives, save_as(d) PROVE WritesOK' /\ CreateSparesFiles'
  <2>1. Idle /\ dir' = dir
    BY <1>8 DEF save_as
  <2>2. CASE Free(dir[d]) = {}
    BY <1>8, <2>1, <2>2, <1>a, NoQueue DEF save_as, FreeSlots
  <2>3. CASE Free(dir[d]) # {}
    <3> DEFINE s == Min(Free(dir[d]))
    <3>1. s \in Slots /\ dir[d][s].type = 0
      BY <2>3, FreeSlotOf
    <3>2. note_buf \in Texts \cup {Blank}
      BY <1>a DEF TypeOK
    <3>3. writes' = Write(d, "SAVE AS", "data", SaveBase + s, note_buf)
                      \o WriteDir(d, "SAVE AS", Made(dir[d], 1, s))
      BY <1>8, <2>3 DEF save_as, FreeSlots, TextFirst
    <3> HIDE DEF s
    <3> QED
      BY <2>1, <3>1, <3>2, <3>3, <1>a, QueueFile DEF Writers
  <2> QED
    BY <2>2, <2>3
<1>9. ASSUME NEW d \in Drives, create_folder(d) PROVE WritesOK' /\ CreateSparesFiles'
  <2>1. Idle /\ dir' = dir
    BY <1>9 DEF create_folder
  <2>2. CASE Free(dir[d]) = {}
    BY <1>9, <2>1, <2>2, <1>a, NoQueue DEF create_folder, Idle
  <2>3. CASE Free(dir[d]) # {}
    <3> DEFINE e == Made(dir[d], 2, Min(Free(dir[d])))
    <3>1. e \in SoundDirs
      BY <1>a, <2>3, FreeSlotOf, MadeSound
    <3>2. writes' = WriteDir(d, "CREATE", e)
      BY <1>9, <2>3 DEF create_folder
    <3> HIDE DEF e
    <3> QED
      BY <2>1, <3>1, <3>2, <1>a, QueueDir DEF Writers
  <2> QED
    BY <2>2, <2>3
<1> QED
  BY <1>1, <1>2, <1>3, <1>4, <1>5, <1>6, <1>7, <1>8, <1>9 DEF WriteStep

\* The handlers that write.
LEMMA WriteTypes == IInv /\ WriteStep => TypeOK'
<1> SUFFICES ASSUME IInv, WriteStep PROVE TypeOK'
  OBVIOUS
<1> USE DEF disk, drive, view, note, here
<1>a. TypeOK /\ DriveWhileOpen
  BY DEF IInv
<1>b. \A x \in BOOLEAN, l \in Sectors, p \in Slots \cup {Root} : File(x, l, p) \in Files
  BY DEF File, Files
<1>c. \A s \in Slots : SaveBase + s \in Sectors /\ 0 \in Sectors
  BY LayoutAssumption DEF Slots, Sectors
<1>1. CASE format_cfs
  <2>1. model' \in [Drives -> {"cfs", "[CFS]", "fat", "none"}]
    BY <1>1, <1>a DEF format_cfs, TypeOK
  <2> QED
    BY <1>1, <1>a, <2>1 DEF format_cfs, TypeOK
<1>2. CASE rename_save
  BY <1>2, <1>a DEF rename_save, TypeOK
<1>3. CASE save_note
  BY <1>3, <1>a DEF save_note, TypeOK
<1>4. ASSUME NEW t \in 1 .. 2, new_entry(t) PROVE TypeOK'
  <2> DEFINE s == Min(Free(dir[active_drive_idx]))
             lba == IF t = 1 THEN SaveBase + s ELSE 0
  <2>1. active_drive_idx \in Drives /\ Free(dir[active_drive_idx]) # {}
    <3>1. dsk_view = 1 /\ Free(dir[active_drive_idx]) # {}
      BY <1>4 DEF new_entry
    <3> QED
      BY <1>a, <3>1 DEF DriveWhileOpen
  <2>2. s \in Slots
    BY <2>1, FreeSlotOf
  <2>3. file_table' = [file_table EXCEPT ![s] = File(t = 2, lba, file_table[s].parent)]
    BY <1>4 DEF new_entry
  <2> HIDE DEF s
  <2>4. lba \in Sectors
    BY <1>c, <2>2
  <2>5. file_table[s].parent \in Slots \cup {Root}
    BY <1>a, <2>2 DEF TypeOK, Files
  <2> HIDE DEF lba
  <2>6. File(t = 2, lba, file_table[s].parent) \in Files
    BY <1>b, <2>4, <2>5
  <2>7. file_table' \in [Slots -> Files]
    BY <1>a, <2>2, <2>3, <2>6 DEF TypeOK
  <2> QED
    BY <1>4, <1>a, <2>7 DEF new_entry, TypeOK
<1>5. ASSUME NEW f \in Slots, delete_in_root(f) \/ delete_in_folder(f) PROVE TypeOK'
  <2>1. DeleteEntry(f)
    BY <1>5 DEF delete_in_root, delete_in_folder
  <2>2. Gone(file_table[f]) \in Files
    BY <1>a DEF TypeOK, Gone, Files
  <2>3. OpenedOK'
    <3>1. CASE delete_in_root(f)
      BY <1>a, <3>1 DEF delete_in_root, TypeOK, OpenedOK
    <3>2. CASE delete_in_folder(f)
      <4>1. active_drive_idx \in Drives
        BY <1>a, <3>2 DEF delete_in_folder, InFolder, DriveWhileOpen
      <4> QED
        BY <1>a, <3>2, <4>1, OpenRowTypes DEF delete_in_folder
    <3> QED
      BY <1>5, <3>1, <3>2
  <2> QED
    BY <1>a, <2>1, <2>2, <2>3 DEF DeleteEntry, TypeOK, OpenedOK
<1>6. ASSUME NEW f \in Slots, copy_to_cfs(f) \/ recover(f) PROVE TypeOK'
  BY <1>6, <1>a DEF copy_to_cfs, recover, TypeOK
<1>7. ASSUME NEW d \in Drives, save_as(d) PROVE TypeOK'
  <2>1. CASE Free(dir[d]) = {}
    BY <1>7, <1>a, <2>1 DEF save_as, FreeSlots, TypeOK
  <2>2. CASE Free(dir[d]) # {}
    <3> DEFINE s == Min(Free(dir[d]))
    <3>1. s \in Slots
      BY <2>2, FreeSlotOf
    <3>2. file_table' = [file_table EXCEPT ![s] = File(FALSE, SaveBase + s, current_path_id)]
      BY <1>7, <2>2 DEF save_as, FreeSlots
    <3> HIDE DEF s
    <3>3. File(FALSE, SaveBase + s, current_path_id) \in Files
      BY <1>a, <1>b, <1>c, <3>1 DEF TypeOK
    <3>4. file_table' \in [Slots -> Files]
      BY <1>a, <3>1, <3>2, <3>3 DEF TypeOK
    <3> QED
      BY <1>7, <1>a, <3>4 DEF save_as, TypeOK
  <2> QED
    BY <2>1, <2>2
<1>8. ASSUME NEW d \in Drives, create_folder(d) PROVE TypeOK'
  BY <1>8, <1>a DEF create_folder, TypeOK
<1> QED
  BY <1>1, <1>2, <1>3, <1>4, <1>5, <1>6, <1>7, <1>8 DEF WriteStep

\* A view of files needs a drive: every handler that opens one has a drive,
\* and the one that drops the drive closes the view.
LEMMA ViewHasDrive == IInv /\ (QuietStep \/ WriteStep) => DriveWhileOpen'
<1> SUFFICES ASSUME IInv, QuietStep \/ WriteStep PROVE DriveWhileOpen'
  OBVIOUS
<1> USE DEF drive, view, here, DriveWhileOpen
<1>a. /\ dsk_view # 0 => active_drive_idx \in Drives
      /\ active_drive_idx \in Drives \cup {-1}
  BY DEF IInv, TypeOK
<1>b. Chosen \in Drives
  BY DriveAssumption DEF Chosen, Drives
<1>1. CASE WriteStep
  <2>1. ASSUME NEW f \in Slots, delete_in_folder(f) PROVE DriveWhileOpen'
    <3>1. dsk_view = 2 /\ OpenRow(f) /\ UNCHANGED drive
      BY <2>1 DEF delete_in_folder, InFolder, DeleteEntry
    <3> QED
      BY <1>a, <3>1 DEF OpenRow
  <2>2. CASE ~ \E f \in Slots : delete_in_folder(f)
    <3>1. active_drive_idx' = active_drive_idx /\ dsk_view' = dsk_view
      BY <1>1, <2>2 DEF WriteStep, format_cfs, rename_save, save_note, new_entry, delete_in_root,
         DeleteEntry, copy_to_cfs, recover, save_as, create_folder
    <3> QED
      BY <1>a, <3>1
  <2> QED
    BY <2>1, <2>2
<1>2. ASSUME NEW d \in Drives, select_drive(d) PROVE DriveWhileOpen'
  BY <1>2 DEF select_drive
<1>3. CASE go_home \/ reopen_window \/ back_to_drives
  BY <1>3 DEF go_home, reopen_window, back_to_drives
<1>4. CASE refresh \/ arrow_key \/ type_note \/ open_dialog \/ close_dialog
  BY <1>4, <1>a DEF refresh, arrow_key, type_note, open_dialog, close_dialog
<1>5. CASE open_drive \/ enter_key
  BY <1>5, <1>a DEF open_drive, enter_key
<1>6. CASE back_to_root
  BY <1>6, <1>a DEF back_to_root
<1>7. ASSUME NEW t \in 1 .. 2, new_in_folder(t) PROVE DriveWhileOpen'
  BY <1>7, <1>a DEF new_in_folder
<1>8. ASSUME NEW f \in Slots, rename_entry(f) PROVE DriveWhileOpen'
  BY <1>8, <1>a DEF rename_entry
<1>9. ASSUME NEW f \in Slots, click_row(f) PROVE DriveWhileOpen'
  <2>1. dsk_view # 0 /\ OpenRow(f) /\ UNCHANGED drive
    BY <1>9 DEF click_row, InRoot, InFolder
  <2> QED
    BY <1>a, <2>1 DEF OpenRow
<1>10. CASE draw_dialog \/ leave_drive_step
  BY <1>10, <1>b DEF draw_dialog, leave_drive_step
<1>11. CASE next_drive
  <2>1. (Chosen + 1) % NumDrives \in Drives
    BY <1>b, DriveAssumption DEF Drives
  <2> QED
    BY <1>11, <2>1 DEF next_drive
<1>12. ASSUME NEW p \in Slots \cup {Root}, choose_folder(p) PROVE DriveWhileOpen'
  BY <1>12, <1>b DEF choose_folder
<1> QED
  BY <1>1, <1>2, <1>3, <1>4, <1>5, <1>6, <1>7, <1>8, <1>9, <1>10, <1>11, <1>12 DEF QuietStep

\* Every step keeps the inductive invariant.
LEMMA StepIInv == IInv /\ [Next]_vars => IInv'
<1> SUFFICES ASSUME IInv, [Next]_vars PROVE IInv'
  OBVIOUS
<1>1. CASE write_sector
  BY <1>1, SectorStep
<1>2. CASE crash
  BY <1>2, CrashStep
<1>3. CASE QuietStep
  <2>1. TypeOK' /\ UNCHANGED <<dir, writes>>
    BY <1>3, QuietTypes DEF IInv
  <2>2. WritesOK' /\ CreateSparesFiles'
    BY <2>1, NoQueue
  <2> QED
    BY <1>3, <2>1, <2>2, ViewHasDrive DEF IInv
<1>4. CASE WriteStep
  BY <1>4, WriteTypes, WriteSound, ViewHasDrive DEF IInv
<1>5. CASE UNCHANGED vars
  <2>1. TypeOK' /\ DriveWhileOpen' /\ UNCHANGED <<dir, writes>>
    BY <1>5 DEF vars, disk, drive, view, note, IInv, TypeOK, DriveWhileOpen
  <2>2. WritesOK' /\ CreateSparesFiles'
    BY <2>1, NoQueue
  <2> QED
    BY <2>1, <2>2 DEF IInv
<1>6. Explorer => QuietStep \/ WriteStep
  BY DEF Explorer, QuietStep, WriteStep
<1>7. Notepad => QuietStep \/ WriteStep
  BY DEF Notepad, QuietStep, WriteStep
<1> QED
  BY <1>1, <1>2, <1>3, <1>4, <1>5, <1>6, <1>7 DEF Next

-----------------------------------------------------------------------------
(* The theorems.  Sector 0 of a drive names CFS, FAT32 or neither.         *)

\* Every state that the handlers, the disk and power failures reach has the
\* properties of the inductive invariant.
LEMMA SpecIInv == Formats \subseteq [Drives -> {"cfs", "fat", "none"}] => (Spec => []IInv)
<1> SUFFICES ASSUME Formats \subseteq [Drives -> {"cfs", "fat", "none"}] PROVE Spec => []IInv
  OBVIOUS
<1>1. Init => IInv
  BY InitIInv
<1>2. IInv /\ [Next]_vars => IInv'
  BY StepIInv
<1> QED
  BY <1>1, <1>2, PTL DEF Spec

\* The fields have their types: no handler indexes outside of file_table or
\* of the directory, and no sector beyond the disk is written.
THEOREM TypeCorrect ==
  Formats \subseteq [Drives -> {"cfs", "fat", "none"}] => (Spec => []TypeOK)
<1>1. IInv => TypeOK
  BY DEF IInv
<1> QED
  BY <1>1, SpecIInv, PTL

\* In every reachable state of the disk a file has the sector of its slot.
THEOREM SlotsOwnSectors ==
  Formats \subseteq [Drives -> {"cfs", "fat", "none"}] => (Spec => []SlotOwnsSector)
<1>1. IInv => SlotOwnsSector
  BY DEF IInv, WritesOK, SoundDirs, SlotOwnsSector
<1> QED
  BY <1>1, SpecIInv, PTL

\* SAVE AS and COPY TO CFS spare the files of the directory.
THEOREM CreatingSparesFiles ==
  Formats \subseteq [Drives -> {"cfs", "fat", "none"}] => (Spec => []CreateSparesFiles)
<1>1. IInv => CreateSparesFiles
  BY DEF IInv
<1> QED
  BY <1>1, SpecIInv, PTL

\* drives[active_drive_idx] exists whenever files are shown.
THEOREM DriveWhileFilesShown ==
  Formats \subseteq [Drives -> {"cfs", "fat", "none"}] => (Spec => []DriveWhileOpen)
<1>1. IInv => DriveWhileOpen
  BY DEF IInv
<1> QED
  BY <1>1, SpecIInv, PTL

-----------------------------------------------------------------------------
(* The text of SAVE AS is on the disk before its entry.                    *)

\* While SAVE AS writes, every sector of the directory that is still to come is of the
\* same directory, and a file that this one has and the disk has not yet finds its text:
\* in the sector that goes out first, and on the disk once that one is out.
BySaveAs(w) == w.by = "SAVE AS"
TextAt(d, l) ==
  IF writes[1].what = "data"
  THEN writes[1].drive = d /\ writes[1].at = l /\ writes[1].value = note_buf
  ELSE data[d][l] = note_buf
TextBefore ==
  \A i \in DOMAIN writes : BySaveAs(writes[i]) /\ writes[i].what = "dir" =>
    /\ \A j \in DOMAIN writes : writes[j].what = "dir" =>
         writes[j].drive = writes[i].drive /\ writes[j].value = writes[i].value
    /\ \A s \in Slots :
         writes[i].value[s].type = 1 /\ dir[writes[i].drive][s].type = 0 =>
           TextAt(writes[i].drive, writes[i].value[s].start)

\* One sector before a directory.
LEMMA Joined ==
  ASSUME NEW w \in Items, NEW ws \in Seq(Items)
  PROVE  LET q == <<w>> \o ws
         IN  /\ q[1] = w /\ 1 \in DOMAIN q
             /\ \A i \in DOMAIN q : (i = 1 /\ q[i] = w) \/ \E j \in DOMAIN ws : q[i] = ws[j]
<1> DEFINE q == <<w>> \o ws
<1>1. <<w>> \in Seq(Items) /\ Len(<<w>>) = 1 /\ <<w>>[1] = w
  OBVIOUS
<1>2. Len(ws) \in Nat /\ DOMAIN ws = 1 .. Len(ws)
  BY LenProperties
<1> HIDE DEF Items
<1>3. /\ q \in Seq(Items) /\ Len(q) = 1 + Len(ws)
      /\ \A i \in 1 .. 1 + Len(ws) : q[i] = IF i <= 1 THEN <<w>>[i] ELSE ws[i - 1]
  BY <1>1, ConcatProperties
<1>4. DOMAIN q = 1 .. 1 + Len(ws)
  BY <1>3, LenProperties
<1> HIDE DEF q
<1>5. q[1] = w /\ 1 \in DOMAIN q
  BY <1>1, <1>2, <1>3, <1>4
<1>6. ASSUME NEW i \in DOMAIN q, i # 1 PROVE \E j \in DOMAIN ws : q[i] = ws[j]
  <2>1. i - 1 \in DOMAIN ws /\ q[i] = ws[i - 1]
    BY <1>2, <1>3, <1>4, <1>6
  <2> QED
    BY <2>1
<1> QED
  BY <1>5, <1>6 DEF q

\* The sectors of a directory.
LEMMA DirItems ==
  ASSUME NEW d, NEW h, NEW e
  PROVE  \A i \in DOMAIN WriteDir(d, h, e) :
           /\ WriteDir(d, h, e)[i].what = "dir" /\ WriteDir(d, h, e)[i].by = h
           /\ WriteDir(d, h, e)[i].drive = d /\ WriteDir(d, h, e)[i].value = e
<1>1. CASE d \in Drives
  BY <1>1 DEF WriteDir
<1>2. CASE d \notin Drives
  BY <1>2 DEF WriteDir
<1> QED
  BY <1>1, <1>2

\* What is not of SAVE AS.
Others == Writers \ {"SAVE AS"}
LEMMA NotOfSaveAs == \A w : w.by \in Others => ~BySaveAs(w)
  BY Zenon DEF Others, BySaveAs

LEMMA OtherWriters ==
  "FORMAT" \in Others /\ "SAVE" \in Others /\ "COPY" \in Others
  /\ \A h \in {"+", "DEL", "RENAME", "CREATE", "RECOVER"} : h \in Others
  BY Zenon DEF Others, Writers

\* The other handlers queue nothing of SAVE AS.
LEMMA OthersQueue ==
  ASSUME IInv, WriteStep, ~ \E d \in Drives : save_as(d)
  PROVE  \A i \in DOMAIN writes' : ~BySaveAs(writes'[i])
<1>0. /\ TypeOK /\ DriveWhileOpen /\ \A d \in Drives : dir[d] \in SoundDirs
  BY DEF IInv, WritesOK
<1>1. CASE format_cfs
  <2> DEFINE d == active_drive_idx
             w == [drive |-> d, by |-> "FORMAT", what |-> "boot", at |-> 0, value |-> "cfs"]
             ws == WriteDir(d, "FORMAT", ZeroDir)
  <2>1. d \in Drives
    BY <1>0, <1>1 DEF format_cfs, TypeOK, here
  <2>2. w \in Items /\ w.by = "FORMAT"
    BY <2>1 DEF Items, Item, Writers
  <2>3. ws \in Seq(Items) /\ \A i \in DOMAIN ws : ws[i].by = "FORMAT"
    <3>1. "FORMAT" \in Writers
      BY DEF Writers
    <3>2. WriteDir(d, "FORMAT", ZeroDir) \in Seq(Items)
      BY <3>1, ZeroSound, WriteDirItems
    <3>3. \A i \in DOMAIN WriteDir(d, "FORMAT", ZeroDir) :
            WriteDir(d, "FORMAT", ZeroDir)[i].by = "FORMAT"
      BY DirItems
    <3> QED
      BY <3>2, <3>3
  <2>4. writes' = <<w>> \o ws
    BY <1>1, <2>1 DEF format_cfs, Write, here
  <2> HIDE DEF w, ws, Items
  <2>5. \A i \in DOMAIN writes' : (i = 1 /\ writes'[i] = w) \/ \E j \in DOMAIN ws : writes'[i] = ws[j]
    BY <2>2, <2>3, <2>4, Joined
  <2> QED
    BY <2>2, <2>3, <2>5, OtherWriters, NotOfSaveAs
<1>2. ASSUME NEW d, NEW e, NEW h \in {"+", "DEL", "RENAME", "CREATE", "RECOVER"},
             writes' = WriteDir(d, h, e)
      PROVE  \A i \in DOMAIN writes' : ~BySaveAs(writes'[i])
  <2>1. \A i \in DOMAIN WriteDir(d, h, e) : WriteDir(d, h, e)[i].by = h
    BY DirItems
  <2>2. h \in Others
    BY OtherWriters
  <2> QED
    BY <1>2, <2>1, <2>2, NotOfSaveAs
<1>3. CASE rename_save
  BY <1>2, <1>3 DEF rename_save
<1>4. CASE save_note
  <2>1. PICK d \in Port(here) :
          writes' = Write(d, "SAVE", "data", file_table[current_open_file].lba, note_buf)
    BY <1>4 DEF save_note
  <2> DEFINE w == [drive |-> d, by |-> "SAVE", what |-> "data",
                   at |-> file_table[current_open_file].lba, value |-> note_buf]
  <2>2. writes' = <<w>> \/ writes' = <<>>
    BY <2>1 DEF Write
  <2>3. w.by = "SAVE"
    OBVIOUS
  <2> HIDE DEF w
  <2>4. CASE writes' = <<w>>
    <3>1. \A i \in DOMAIN writes' : writes'[i] = w
      BY <2>4
    <3> QED
      BY <2>3, <3>1, OtherWriters, NotOfSaveAs
  <2>5. CASE writes' = <<>>
    <3>1. DOMAIN writes' = {}
      BY <2>5
    <3> QED
      BY <3>1
  <2> QED
    BY <2>2, <2>4, <2>5
<1>5. ASSUME NEW t \in 1 .. 2, new_entry(t) PROVE \A i \in DOMAIN writes' : ~BySaveAs(writes'[i])
  BY <1>2, <1>5 DEF new_entry
<1>6. ASSUME NEW f \in Slots, delete_in_root(f) \/ delete_in_folder(f) \/ recover(f)
      PROVE  \A i \in DOMAIN writes' : ~BySaveAs(writes'[i])
  BY <1>2, <1>6 DEF delete_in_root, delete_in_folder, recover, DeleteEntry
<1>7. ASSUME NEW f \in Slots, copy_to_cfs(f)
      PROVE  \A i \in DOMAIN writes' : ~BySaveAs(writes'[i])
  <2> DEFINE d == Max(CopyTargets)
             s == Min(Free(dir[d]))
             v == data[here][file_table[f].lba]
             w == [drive |-> d, by |-> "COPY", what |-> "data", at |-> SaveBase + s, value |-> v]
             ws == WriteDir(d, "COPY", Made(dir[d], 1, s))
  <2>1. d \in Drives /\ Free(dir[d]) # {}
    BY <1>7, MaxOfTargets DEF copy_to_cfs, CopyTargets
  <2>2. s \in Slots
    BY <2>1, FreeSlotOf
  <2>3. v \in Texts \cup {Blank}
    <3>1. here \in Drives /\ file_table[f].lba \in Sectors
      BY <1>0, <1>7 DEF copy_to_cfs, InRoot, DriveWhileOpen, here, TypeOK, Files
    <3> QED
      BY <1>0, <3>1 DEF TypeOK
  <2>4. writes' = Write(d, "COPY", "data", SaveBase + s, v) \o ws
    BY <1>7 DEF copy_to_cfs
  <2> HIDE DEF d, s, v
  <2>5. SaveBase + s \in Sectors
    BY <2>2, LayoutAssumption DEF Slots, Sectors
  <2>6. w \in Items /\ w.by = "COPY"
    BY <2>1, <2>3, <2>5 DEF Items, Item, Writers
  <2>7. Made(dir[d], 1, s) \in SoundDirs
    BY <1>0, <2>1, <2>2, MadeSound
  <2>8. ws \in Seq(Items) /\ \A i \in DOMAIN ws : ws[i].by = "COPY"
    <3> DEFINE e == Made(dir[d], 1, s)
    <3>1. "COPY" \in Writers /\ e \in SoundDirs
      BY <2>7 DEF Writers
    <3> HIDE DEF e
    <3>2. WriteDir(d, "COPY", e) \in Seq(Items)
      BY <3>1, WriteDirItems
    <3>3. \A i \in DOMAIN WriteDir(d, "COPY", e) : WriteDir(d, "COPY", e)[i].by = "COPY"
      BY DirItems
    <3> QED
      BY <3>2, <3>3 DEF e
  <2>9. writes' = <<w>> \o ws
    BY <2>1, <2>4 DEF Write
  <2> HIDE DEF w, ws, Items
  <2> QED
    BY <2>6, <2>8, <2>9, Joined, OtherWriters, NotOfSaveAs
<1>8. ASSUME NEW d \in Drives, create_folder(d)
      PROVE  \A i \in DOMAIN writes' : ~BySaveAs(writes'[i])
  <2>1. CASE Free(dir[d]) = {}
    <3>1. writes' = <<>>
      BY <1>8, <2>1 DEF create_folder
    <3>2. DOMAIN writes' = {}
      BY <3>1
    <3> QED
      BY <3>2
  <2>2. CASE Free(dir[d]) # {}
    BY <1>2, <1>8, <2>2 DEF create_folder
  <2> QED
    BY <2>1, <2>2
<1> QED
  BY <1>1, <1>3, <1>4, <1>5, <1>6, <1>7, <1>8 DEF WriteStep

\* SAVE AS queues the text first, and a directory with one file more.
LEMMA SaveAsQueues ==
  ASSUME IInv, NEW d \in Drives, save_as(d)
  PROVE  TextBefore'
<1>0. /\ TypeOK /\ dir[d] \in SoundDirs /\ UNCHANGED <<dir, data, note_buf>> /\ Idle
  BY DEF IInv, WritesOK, save_as, disk, note
<1>1. CASE Free(dir[d]) = {}
  <2>1. writes' = <<>>
    BY <1>0, <1>1 DEF save_as, FreeSlots, Idle
  <2>2. DOMAIN writes' = {}
    BY <2>1
  <2> QED
    BY <2>2 DEF TextBefore
<1>2. CASE Free(dir[d]) # {}
  <2> DEFINE s == Min(Free(dir[d]))
             e == Made(dir[d], 1, s)
             w == [drive |-> d, by |-> "SAVE AS", what |-> "data", at |-> SaveBase + s,
                   value |-> note_buf]
             ws == WriteDir(d, "SAVE AS", e)
  <2>1. s \in Slots /\ dir[d][s].type = 0
    BY <1>2, FreeSlotOf
  <2>2. writes' = Write(d, "SAVE AS", "data", SaveBase + s, note_buf) \o ws
    BY <1>2 DEF save_as, FreeSlots, TextFirst
  <2> HIDE DEF s
  <2>3. SaveBase + s \in Sectors
    BY <2>1, LayoutAssumption DEF Slots, Sectors
  <2>4. /\ w \in Items /\ w.what = "data" /\ w.drive = d /\ w.at = SaveBase + s
        /\ w.value = note_buf
    BY <1>0, <2>3 DEF Items, Item, Writers, TypeOK
  <2>5. e \in SoundDirs
    BY <1>0, <2>1, MadeSound
  <2>6. /\ \A t \in Slots : t # s => e[t] = dir[d][t]
        /\ e[s].start = SaveBase + s
    BY <1>0, <2>1 DEF Made, Entry, SoundDirs
  <2>7. writes' = <<w>> \o ws
    BY <2>2 DEF Write
  <2> HIDE DEF e
  <2>8. /\ ws \in Seq(Items)
        /\ \A i \in DOMAIN ws : ws[i].what = "dir" /\ ws[i].drive = d /\ ws[i].value = e
    <3>1. "SAVE AS" \in Writers
      BY DEF Writers
    <3>2. WriteDir(d, "SAVE AS", e) \in Seq(Items)
      BY <2>5, <3>1, WriteDirItems
    <3> HIDE DEF ws
    <3>3. \A i \in DOMAIN ws :
            ws[i].what = "dir" /\ ws[i].drive = d /\ ws[i].value = e
      <4>1. \A h : \A i \in DOMAIN WriteDir(d, h, e) :
              /\ WriteDir(d, h, e)[i].what = "dir" /\ WriteDir(d, h, e)[i].drive = d
              /\ WriteDir(d, h, e)[i].value = e
        BY DirItems
      <4> QED
        BY <4>1, Zenon DEF ws
    <3> QED
      BY <3>2, <3>3 DEF ws
  <2> HIDE DEF w, ws, Items
  <2>9. /\ writes'[1] = w
        /\ \A i \in DOMAIN writes' : writes'[i].what = "dir" =>
             writes'[i].drive = d /\ writes'[i].value = e
    <3>1. /\ writes'[1] = w
          /\ \A i \in DOMAIN writes' : (i = 1 /\ writes'[i] = w) \/ \E j \in DOMAIN ws : writes'[i] = ws[j]
      BY <2>4, <2>7, <2>8, Joined
    <3> QED
      BY <2>4, <2>8, <3>1
  <2>10. ASSUME NEW t \in Slots, e[t].type = 1, dir'[d][t].type = 0
         PROVE  /\ writes'[1].what = "data" /\ writes'[1].drive = d
                /\ writes'[1].at = e[t].start /\ writes'[1].value = note_buf'
    <3>1. t = s
      <4>1. dir'[d][t] = dir[d][t]
        BY <1>0
      <4>2. t # s => e[t].type = 0
        BY <2>6, <2>10, <4>1
      <4> QED
        BY <2>10, <4>2
    <3>2. note_buf' = note_buf
      BY <1>0
    <3>3. writes'[1] = w
      BY <2>9
    <3> QED
      BY <2>4, <2>6, <3>1, <3>2, <3>3
  <2>11. ASSUME NEW i \in DOMAIN writes', writes'[i].what = "dir"
         PROVE  /\ \A j \in DOMAIN writes' : writes'[j].what = "dir" =>
                     writes'[j].drive = writes'[i].drive /\ writes'[j].value = writes'[i].value
                /\ \A t \in Slots :
                     writes'[i].value[t].type = 1 /\ dir'[writes'[i].drive][t].type = 0 =>
                       /\ writes'[1].what = "data" /\ writes'[1].drive = writes'[i].drive
                       /\ writes'[1].at = writes'[i].value[t].start
                       /\ writes'[1].value = note_buf'
    <3>1. writes'[i].drive = d /\ writes'[i].value = e
      BY <2>9, <2>11
    <3>2. \A j \in DOMAIN writes' : writes'[j].what = "dir" =>
            writes'[j].drive = writes'[i].drive /\ writes'[j].value = writes'[i].value
      BY <2>9, <3>1
    <3>3. \A t \in Slots :
            e[t].type = 1 /\ dir'[d][t].type = 0 =>
              /\ writes'[1].what = "data" /\ writes'[1].drive = d
              /\ writes'[1].at = e[t].start /\ writes'[1].value = note_buf'
      BY <2>10
    <3> QED
      BY <3>1, <3>2, <3>3
  <2> QED
    BY <2>11 DEF TextBefore, TextAt
<1> QED
  BY <1>1, <1>2

\* One sector reaches the disk.
LEMMA SectorText ==
  ASSUME IInv, TextBefore, write_sector
  PROVE  TextBefore'
<1> DEFINE w == Head(writes)
<1>1. /\ writes \in Seq(Items) /\ writes # <<>> /\ writes' = Tail(writes)
      /\ note_buf' = note_buf
  BY DEF IInv, WritesOK, write_sector, Idle, note
<1>2. /\ w \in Items /\ w = writes[1] /\ 1 \in DOMAIN writes
      /\ \A i \in DOMAIN writes' : i + 1 \in DOMAIN writes /\ i \in Nat \ {0}
                                   /\ writes'[i] = writes[i + 1]
  BY <1>1, HeadTailProperties
<1>3. \A i \in DOMAIN writes' : writes'[i].what # "data"
  BY <1>2 DEF IInv, WritesOK, DataFirst
<1>4. /\ dir \in [Drives -> SoundDirs] /\ data \in [Drives -> [Sectors -> Texts \cup {Blank}]]
  BY DEF IInv, WritesOK, TypeOK
<1>5. ASSUME NEW i \in DOMAIN writes', BySaveAs(writes'[i]), writes'[i].what = "dir"
      PROVE  /\ \A j \in DOMAIN writes' : writes'[j].what = "dir" =>
                  writes'[j].drive = writes'[i].drive /\ writes'[j].value = writes'[i].value
             /\ \A s \in Slots :
                  writes'[i].value[s].type = 1 /\ dir'[writes'[i].drive][s].type = 0 =>
                    data'[writes'[i].drive][writes'[i].value[s].start] = note_buf'
  <2> DEFINE u == writes'[i]
  <2>1. u = writes[i + 1] /\ i + 1 \in DOMAIN writes
    BY <1>2
  <2>2. /\ \A j \in DOMAIN writes : writes[j].what = "dir" =>
             writes[j].drive = u.drive /\ writes[j].value = u.value
        /\ \A s \in Slots : u.value[s].type = 1 /\ dir[u.drive][s].type = 0 =>
             TextAt(u.drive, u.value[s].start)
    BY <1>5, <2>1 DEF TextBefore
  <2>3. u.drive \in Drives /\ u.value \in SoundDirs
    <3>1. u \in Items
      BY <1>1, <2>1, ElementOfSeq
    <3> QED
      BY <1>5, <3>1 DEF Items, Item
  <2>4. \A j \in DOMAIN writes' : writes'[j].what = "dir" =>
          writes'[j].drive = u.drive /\ writes'[j].value = u.value
    BY <1>2, <2>2
  <2>5. ASSUME NEW s \in Slots, u.value[s].type = 1, dir'[u.drive][s].type = 0
        PROVE  data'[u.drive][u.value[s].start] = note_buf
    <3>1. u.value[s].start \in Sectors
      BY <2>3 DEF SoundDirs, Entries
    <3>2. CASE w.what = "data"
      <4>1. dir' = dir /\ data' = [data EXCEPT ![w.drive][w.at] = w.value]
        BY <3>2 DEF write_sector
      <4>2. w.drive = u.drive /\ w.at = u.value[s].start /\ w.value = note_buf
        BY <1>2, <2>2, <2>5, <3>2, <4>1 DEF TextAt
      <4> HIDE DEF w, u
      <4> QED
        BY <1>4, <2>3, <3>1, <4>1, <4>2
    <3>3. CASE w.what # "data"
      <4>1. data' = data
        BY <3>3 DEF write_sector
      <4>2. dir[u.drive][s].type = 0
        <5>1. CASE w.what = "dir"
          <6>1. w.drive = u.drive /\ w.value = u.value
            BY <1>2, <2>2, <5>1
          <6> DEFINE e == [t \in Slots |-> IF SectorOf(t) = w.at THEN w.value[t]
                                           ELSE dir[w.drive][t]]
          <6>2. dir' = [dir EXCEPT ![w.drive] = e]
            BY <5>1 DEF write_sector
          <6>3. dir'[u.drive] = e
            <7> HIDE DEF e
            <7> QED
              BY <1>4, <2>3, <6>1, <6>2
          <6>4. dir'[u.drive][s] = u.value[s] \/ dir'[u.drive][s] = dir[u.drive][s]
            BY <6>1, <6>3
          <6> HIDE DEF u, w
          <6> QED
            BY <2>5, <6>4
        <5>2. CASE w.what # "dir"
          BY <2>5, <5>2 DEF write_sector
        <5> QED
          BY <5>1, <5>2
      <4>3. TextAt(u.drive, u.value[s].start)
        BY <2>2, <2>5, <4>2
      <4> QED
        BY <1>2, <3>3, <4>1, <4>3 DEF TextAt
    <3> QED
      BY <3>2, <3>3
  <2> QED
    BY <1>1, <2>4, <2>5
<1>6. (DOMAIN writes' # {}) => writes'[1].what # "data"
  <2>1. Tail(writes) \in Seq(Items) /\ DOMAIN Tail(writes) = 1 .. Len(Tail(writes))
        /\ Len(Tail(writes)) \in Nat
    BY <1>1, HeadTailProperties, LenProperties
  <2>2. (DOMAIN writes' # {}) => 1 \in DOMAIN writes'
    BY <1>1, <2>1
  <2> QED
    BY <1>3, <2>2
<1> QED
  BY <1>5, <1>6 DEF TextBefore, TextAt

\* A step that is not the disk's queues anew or leaves the empty queue.
LEMMA StepText == IInv /\ TextBefore /\ [Next]_vars => TextBefore'
<1> SUFFICES ASSUME IInv, TextBefore, [Next]_vars PROVE TextBefore'
  OBVIOUS
<1>1. CASE write_sector
  BY <1>1, SectorText
<1>2. CASE crash
  <2>1. writes' = <<>>
    BY <1>2 DEF crash
  <2>2. DOMAIN writes' = {}
    BY <2>1
  <2> QED
    BY <2>2 DEF TextBefore
<1>3. CASE QuietStep
  <2>1. writes' = writes
    BY <1>3, QuietTypes DEF IInv
  <2>2. writes = <<>>
    BY <1>3 DEF QuietStep, select_drive, go_home, refresh, reopen_window, open_drive,
                enter_key, back_to_drives, back_to_root, arrow_key, new_in_folder, rename_entry,
                click_row, type_note, open_dialog, close_dialog, draw_dialog, next_drive,
                leave_drive_step, choose_folder, Idle
  <2>3. DOMAIN writes' = {}
    BY <2>1, <2>2
  <2> QED
    BY <2>3 DEF TextBefore
<1>4. CASE WriteStep
  <2>1. CASE \E d \in Drives : save_as(d)
    BY <2>1, SaveAsQueues
  <2>2. CASE ~ \E d \in Drives : save_as(d)
    BY <1>4, <2>2, OthersQueue DEF TextBefore
  <2> QED
    BY <2>1, <2>2
<1>5. CASE UNCHANGED vars
  <2>1. UNCHANGED <<writes, dir, data, note_buf>>
    BY <1>5 DEF vars, disk, note
  <2> QED
    BY <2>1 DEF TextBefore, TextAt
<1>6. (Explorer => QuietStep \/ WriteStep) /\ (Notepad => QuietStep \/ WriteStep)
  BY DEF Explorer, Notepad, QuietStep, WriteStep
<1> QED
  BY <1>1, <1>2, <1>3, <1>4, <1>5, <1>6 DEF Next

\* The disk makes an entry of SAVE AS a file only when its text is there.
LEMMA EntryHasText ==
  ASSUME IInv, TextBefore, [Next]_vars, NEW d \in Drives, NEW s \in Slots,
         dir[d][s].type = 0, dir'[d][s].type = 1, ~Idle, BySaveAs(Head(writes))
  PROVE  data[d][dir'[d][s].start] = note_buf
<1>0. ~Idle /\ [Next]_vars /\ IInv /\ TextBefore
  OBVIOUS
<1>11. dir[d][s].type = 0
  OBVIOUS
<1>12. dir'[d][s].type = 1
  OBVIOUS
<1>13. BySaveAs(Head(writes))
  OBVIOUS
<1>14. dir'[d][s] # dir[d][s]
  <2>1. 0 # 1
    OBVIOUS
  <2>2. dir'[d][s].type # dir[d][s].type
    BY <1>11, <1>12, <2>1, Zenon
  <2> QED
    BY <2>2, Zenon
<1> DEFINE w == Head(writes)
<1>10. dir' # dir
  <2> SUFFICES ASSUME dir' = dir PROVE FALSE
    OBVIOUS
  <2>1. dir'[d][s] = dir[d][s]
    OBVIOUS
  <2> QED
    BY <1>14, <2>1
<1>1. write_sector
  <2>1. CASE WriteStep
    <3>1. dir' = dir
      BY <2>1 DEF WriteStep, format_cfs, rename_save, save_note, new_entry, delete_in_root,
         delete_in_folder, DeleteEntry, copy_to_cfs, recover, save_as, create_folder, disk
    <3> QED
      BY <1>10, <3>1
  <2>2. CASE QuietStep
    <3>1. dir' = dir
      BY <2>2, QuietTypes DEF IInv
    <3> QED
      BY <1>10, <3>1
  <2>3. CASE crash \/ UNCHANGED vars
    <3>1. dir' = dir
      BY <2>3 DEF crash, vars, disk
    <3> QED
      BY <1>10, <3>1
  <2>4. (Explorer => QuietStep \/ WriteStep) /\ (Notepad => QuietStep \/ WriteStep)
    BY DEF Explorer, Notepad, QuietStep, WriteStep
  <2> QED
    BY <1>0, <2>1, <2>2, <2>3, <2>4 DEF Next
<1>2. writes \in Seq(Items) /\ writes # <<>> /\ dir \in [Drives -> SoundDirs]
  BY <1>0 DEF IInv, WritesOK, Idle
<1>3. w \in Items /\ w = writes[1] /\ 1 \in DOMAIN writes
  <2> HIDE DEF Items
  <2>1. Head(writes) \in Items /\ Head(writes) = writes[1]
    BY <1>2, HeadTailProperties
  <2>2. 1 \in DOMAIN writes
    <3>1. Len(writes) \in Nat /\ DOMAIN writes = 1 .. Len(writes) /\ Len(writes) # 0
      BY <1>2, LenProperties, EmptySeq
    <3> QED
      BY <3>1
  <2> QED
    BY <2>1, <2>2
<1>4. w.what = "dir"
  <2> SUFFICES ASSUME w.what # "dir" PROVE FALSE
    OBVIOUS
  <2>1. dir' = dir
    BY <1>1 DEF write_sector
  <2> QED
    BY <1>10, <2>1
<1>5. w.drive \in Drives
  BY <1>3, <1>4 DEF Items, Item
<1> DEFINE e == [t \in Slots |-> IF SectorOf(t) = w.at THEN w.value[t] ELSE dir[w.drive][t]]
<1>6. dir' = [dir EXCEPT ![w.drive] = e]
  BY <1>1, <1>4 DEF write_sector
<1>7. d = w.drive /\ dir'[d] = e
  <2> HIDE DEF e, w
  <2>1. d # w.drive => dir'[d] = dir[d]
    BY <1>2, <1>5, <1>6
  <2>2. dir'[w.drive] = e
    BY <1>2, <1>5, <1>6
  <2>3. d = w.drive
    <3> SUFFICES ASSUME d # w.drive PROVE FALSE
      OBVIOUS
    <3>1. dir'[d][s] = dir[d][s]
      BY <2>1
    <3> QED
      BY <1>14, <3>1
  <2> QED
    BY <2>2, <2>3
<1>8. dir'[d][s] = w.value[s]
  <2>1. dir'[d][s] = w.value[s] \/ dir'[d][s] = dir[d][s]
    BY <1>7
  <2> HIDE DEF w
  <2> QED
    BY <1>14, <2>1
<1>9. TextAt(d, w.value[s].start)
  <2>1. BySaveAs(w) /\ d = w.drive /\ w.value[s].type = 1 /\ dir[w.drive][s].type = 0
    BY <1>7, <1>8, <1>11, <1>12, <1>13
  <2>2. BySaveAs(writes[1]) /\ writes[1].what = "dir"
    BY <1>3, <1>4, <2>1
  <2>3. \A t \in Slots :
          writes[1].value[t].type = 1 /\ dir[writes[1].drive][t].type = 0 =>
            TextAt(writes[1].drive, writes[1].value[t].start)
    BY <1>0, <1>3, <2>2 DEF TextBefore
  <2> HIDE DEF w
  <2> QED
    BY <1>3, <2>1, <2>3
<1> QED
  BY <1>3, <1>4, <1>8, <1>9 DEF TextAt

\* A file that SAVE AS adds to the directory has its text by then, in the middle of the
\* write too: a power failure leaves the file or nothing, however many drives there are.
THEOREM EntriesComeAfterText ==
  Formats \subseteq [Drives -> {"cfs", "fat", "none"}] => (Spec => EntryAfterText)
<1> SUFFICES ASSUME Formats \subseteq [Drives -> {"cfs", "fat", "none"}]
             PROVE  Spec => EntryAfterText
  OBVIOUS
<1> DEFINE A == \A d \in Drives, s \in Slots :
                  /\ dir[d][s].type = 0 /\ dir'[d][s].type = 1
                  /\ ~Idle /\ Head(writes).by = "SAVE AS"
                  => data[d][dir'[d][s].start] = note_buf
<1>1. Init => TextBefore
  <2>1. Init => DOMAIN writes = {}
    BY DEF Init
  <2> QED
    BY <2>1 DEF TextBefore
<1>2. IInv /\ TextBefore /\ [Next]_vars => TextBefore'
  BY StepText
<1>3. IInv /\ TextBefore /\ [Next]_vars => [A]_vars
  BY EntryHasText, Zenon DEF BySaveAs
<1>4. Spec => []IInv
  BY SpecIInv
<1>5. Spec => [][A]_vars
  <2> HIDE DEF A
  <2> QED
    BY <1>1, <1>2, <1>3, <1>4, PTL DEF Spec
<1> QED
  BY <1>5 DEF EntryAfterText

=============================================================================
