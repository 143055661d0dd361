------------------------------- MODULE DiskMgr -------------------------------
(***************************************************************************)
(* The disk manager of kernel_main.cpp: the CFS V2 directory in sector     *)
(* 1002, its copy cfs_files in RAM, and every handler that writes a disk:  *)
(* FORMAT, + FILE, PASTE, the SAVE AS dialog, the notepad's SAVE, MKDIR    *)
(* and INSTALL, with the explorer they work through.                       *)
(*                                                                         *)
(* All handlers belong to task 0 and run one after the other.  A handler   *)
(* is one step for RAM; the sectors it writes are queued in writes and     *)
(* reach the disk one by one, in its order, before the next handler; a     *)
(* power failure may come between two of them.  The constants scale the    *)
(* layout down: the slots of a directory, the sectors of a pasted file.    *)
(***************************************************************************)
EXTENDS Integers, Sequences, FiniteSets, FiniteSetsExt

CONSTANTS Drives,       \* drives[]
          Kinds,        \* what Drives may hold at the start
          Texts,        \* texts of at most one sector
          Blank,        \* a zeroed sector, or no text
          NoDrive,      \* selected_drive_idx = -1
          NumSlots,     \* 28 entries of a directory
          MkdirSlots,   \* 8: the entries MKDIR looks at
          PageFiles,    \* 10 files that the explorer shows
          FileSectors,  \* 10 sectors that COPY and PASTE move
          SaveBase,     \* 4000, first sector of saved and pasted files
          AppLba,       \* 10000, where build.sh puts APP.BIN
          PkgBase,      \* 11000, first sector of installed packages
          PkgSectors,   \* the lengths of the packages there are, in sectors
          SizeWrap,     \* 128 sectors: file_size has 16 bits
          LastSector,   \* the end of the disk (bound)
          Buttons,      \* the handlers the user makes use of
          Faults        \* of "crash", "read", "write"

ASSUME DriveAssumption  == NoDrive \notin Drives /\ Blank \notin Texts
ASSUME LayoutAssumption ==
  /\ NumSlots \in Nat \ {0} /\ MkdirSlots \in 1 .. NumSlots
  /\ PageFiles \in Nat \ {0} /\ FileSectors \in Nat \ {0} /\ SizeWrap \in Nat \ {0}
  /\ PkgSectors \subseteq Nat \ {0}
  /\ {SaveBase, AppLba, PkgBase, LastSector} \subseteq Nat
  /\ 1 < SaveBase /\ SaveBase + NumSlots * FileSectors <= AppLba
  /\ AppLba + FileSectors <= PkgBase /\ PkgBase + FileSectors <= LastSector

Slots   == 0 .. NumSlots - 1
Root    == 255
Sectors == 0 .. LastSector
Scratch == 1                      \* 500, where a text without a file goes
Foreign == AppLba                 \* where a foreign file system has its file

\* an entry is free (0), a file (1) or a folder (2); file_size in sectors
Entries == [type : 0 .. 2, start : Sectors, size : Nat, parent : Slots \cup {Root}]
Entry(t, lba, n, p) == [type |-> t, start |-> lba, size |-> n, parent |-> p]
ZeroDir == [s \in Slots |-> Entry(0, 0, 0, 0)]      \* zeroed: parent_idx 0
NoFiles == [s \in Slots |-> Entry(0, 0, 0, Root)]   \* cfs_files when empty
ZeroFile    == [k \in 0 .. FileSectors - 1 |-> Blank]
NoClipboard == [active |-> FALSE, folder |-> FALSE]
ZeroSectors == [l \in Sectors |-> Blank]

VARIABLES
  fs,                   \* boot sector of every drive: cfs, fat, ntfs or raw
  dir,                  \* sector 1002 of every drive
  data,                 \* the other sectors
  said,                 \* history: the text a file was said to be saved with
  writes,               \* the sectors the running handler has yet to write
  selected_drive_idx,
  is_mounted,
  is_ntfs_drive,
  is_fat32_drive,
  dsk_mgr_opened,       \* view 2, the explorer, is shown
  current_folder_id,
  cfs_files,            \* the explorer's copy of the directory
  buf_dir,              \* the shared directory buffer at 0x00901000
  file_ram,             \* the shared file buffer at 0x09000000
  clipboard,            \* [active, folder] of COPY
  active_file_lba,      \* the sector of the notepad's file, or 0
  content,              \* the notepad's text
  save_step             \* of the SAVE AS dialog

disk     == <<fs, dir, data, said>>
mount    == <<is_mounted, is_ntfs_drive, is_fat32_drive>>
explorer == <<dsk_mgr_opened, current_folder_id>>
notepad  == <<active_file_lba, content, save_step>>
buffers  == <<file_ram, clipboard>>
vars == <<disk, writes, selected_drive_idx, mount, explorer, cfs_files, buf_dir,
          buffers, notepad>>

-----------------------------------------------------------------------------
Init ==
  /\ fs \in [Drives -> Kinds]
  /\ dir = [d \in Drives |-> ZeroDir]
  /\ data = [d \in Drives |-> [l \in Sectors |-> Blank]]
  /\ said = [d \in Drives |-> ZeroSectors]
  /\ writes = <<>>
  /\ selected_drive_idx = NoDrive
  /\ is_mounted = FALSE /\ is_ntfs_drive = FALSE /\ is_fat32_drive = FALSE
  /\ dsk_mgr_opened = FALSE /\ current_folder_id = Root
  /\ cfs_files = NoFiles
  /\ buf_dir = ZeroDir
  /\ file_ram = ZeroFile
  /\ clipboard = NoClipboard
  /\ active_file_lba = 0 /\ content = Blank /\ save_step = "closed"

\* the handlers take turns, and each completes its writes
Idle == writes = <<>>
here == selected_drive_idx

\* disk_write_auto: without a drive nothing is written
Queue(ws) == writes' = IF here = NoDrive THEN <<>> ELSE ws
Write(handler, what, lba, value) ==
  <<[by |-> handler, what |-> what, lba |-> lba, value |-> value]>>
WriteDir(handler, entries) == Write(handler, "dir", 0, entries)

\* disk_read_auto: a read that fails leaves the buffer as it was
Reads(sector, before) ==
  (IF here # NoDrive THEN {sector[here]} ELSE {}) \cup
  (IF here = NoDrive \/ "read" \in Faults THEN {before} ELSE {})

\* (faulty variant: only folders count as used)
FreeUnlessFolder(entries, n) == {s \in 0 .. n - 1 : entries[s].type # 2}
Free(entries, n) == {s \in 0 .. n - 1 : entries[s].type = 0}

-----------------------------------------------------------------------------
(* The disk.                                                               *)

\* one sector reaches the disk; "said" is the success message at the end
write_sector ==
  /\ ~Idle
  /\ writes' = Tail(writes)
  /\ LET w == Head(writes)
     IN  /\ fs'   = IF w.what = "boot" THEN [fs EXCEPT ![here] = "cfs"] ELSE fs
         /\ dir'  = IF w.what = "dir" THEN [dir EXCEPT ![here] = w.value] ELSE dir
         /\ data' = IF w.what = "data"
                    THEN [data EXCEPT ![here][w.lba] = w.value] ELSE data
         /\ said' = CASE w.what = "said" -> [said EXCEPT ![here][w.lba] = w.value]
                      [] w.what = "boot" ->
                           [said EXCEPT ![here] = ZeroSectors]
                      [] w.what = "data" /\ w.by = "SAVE" ->
                           [said EXCEPT ![here][w.lba] = Blank]
                      [] OTHER -> said
  /\ UNCHANGED <<selected_drive_idx, mount, explorer, cfs_files, buf_dir, buffers,
                 notepad>>

\* or is lost: only the notepad's SAVE looks at the result.  UHCI sticks
\* (type 4) lose every write.
lose_sector ==
  /\ "write" \in Faults /\ ~Idle
  /\ Head(writes).what # "said"
  /\ writes' = IF Head(writes).by = "SAVE" THEN <<>> ELSE Tail(writes)
  /\ UNCHANGED <<disk, selected_drive_idx, mount, explorer, cfs_files, buf_dir,
                 buffers, notepad>>

\* power failure, or REBOOT, between two writes
crash ==
  /\ "crash" \in Faults
  /\ writes' = <<>>
  /\ selected_drive_idx' = NoDrive
  /\ is_mounted' = FALSE /\ is_ntfs_drive' = FALSE /\ is_fat32_drive' = FALSE
  /\ dsk_mgr_opened' = FALSE /\ current_folder_id' = Root
  /\ cfs_files' = NoFiles
  /\ buf_dir' = ZeroDir
  /\ file_ram' = ZeroFile
  /\ clipboard' = NoClipboard
  /\ active_file_lba' = 0 /\ content' = Blank /\ save_step' = "closed"
  /\ UNCHANGED disk

-----------------------------------------------------------------------------
(* View 1, the list of drives.                                             *)

\* (faulty variant: the drives can be clicked while the explorer is shown)
select_anywhere(d) ==
  /\ Idle
  /\ selected_drive_idx' = d
  /\ is_mounted' = FALSE
  /\ UNCHANGED <<disk, writes, is_ntfs_drive, is_fat32_drive, explorer, cfs_files,
                 buf_dir, buffers, notepad>>

select(d) ==
  /\ Idle /\ ~dsk_mgr_opened
  /\ selected_drive_idx' = d
  /\ is_mounted' = FALSE
  /\ UNCHANGED <<disk, writes, is_ntfs_drive, is_fat32_drive, explorer, cfs_files,
                 buf_dir, buffers, notepad>>

format ==
  /\ Idle /\ ~dsk_mgr_opened /\ here # NoDrive
  /\ Queue(Write("FORMAT", "boot", 0, "cfs") \o WriteDir("FORMAT", ZeroDir))
  /\ buf_dir' = ZeroDir
  /\ cfs_files' = NoFiles
  /\ is_mounted' = FALSE
  /\ current_folder_id' = Root
  /\ UNCHANGED <<disk, selected_drive_idx, is_ntfs_drive, is_fat32_drive,
                 dsk_mgr_opened, buffers, notepad>>

\* what the refresh of view 2 finds in folder p of a foreign file system: a
\* folder and a file.  It believes the flags, and a FAT32 reader finds nothing
\* on a drive that is not FAT32.
Listing(p, ntfs) ==
  IF ntfs \/ fs[here] = "fat"
  THEN [s \in Slots |-> CASE s = 0 -> Entry(2, 0, 0, p)
                         [] s = 1 -> Entry(1, Foreign, FileSectors, p)
                         [] OTHER -> Entry(0, 0, 0, Root)]
  ELSE NoFiles

\* the copy that mounting a CFS drive makes of its directory
Copied(entries) == [s \in Slots |-> IF entries[s].type # 0 THEN entries[s]
                                    ELSE NoFiles[s]]

\* a boot sector that is none of the three leaves the flags of the last drive
\* (faulty variant: the flag of a FAT32 drive opened before is asked first)
IsNtfsAfterFat(boot) == boot = "ntfs" /\ ~is_fat32_drive
IsNtfs(boot) == boot = "ntfs" \/ (boot = "raw" /\ is_ntfs_drive)
IsFat32(boot) == boot = "fat" \/ (boot \in {"cfs", "raw"} /\ is_fat32_drive)

\* the OPEN button of a drive, and the refresh it asks for.  On a CFS drive the
\* refresh of a FAT32 drive opened before replaces the copy just made.
open_drive ==
  /\ Idle /\ ~dsk_mgr_opened /\ here # NoDrive
  /\ \E boot \in Reads(fs, "raw"), entries \in Reads(dir, ZeroDir) :
       /\ is_ntfs_drive' = IsNtfs(boot)
       /\ is_fat32_drive' = IsFat32(boot)
       /\ cfs_files' = CASE boot = "raw" -> NoFiles
                         [] boot = "cfs" /\ ~is_fat32_drive -> Copied(entries)
                         [] OTHER -> Listing(Root, boot = "ntfs")
       /\ buf_dir' = CASE boot = "raw" -> buf_dir
                       [] boot = "cfs" -> entries
                       [] OTHER -> ZeroDir
  /\ is_mounted' = TRUE
  /\ dsk_mgr_opened' = TRUE
  /\ current_folder_id' = Root
  /\ UNCHANGED <<disk, writes, selected_drive_idx, buffers, notepad>>

-----------------------------------------------------------------------------
(* View 2, the explorer.                                                   *)

Foreign_refresh(p) ==
  cfs_files' = IF is_ntfs_drive \/ is_fat32_drive THEN Listing(p, is_ntfs_drive)
               ELSE cfs_files

\* the list shows the first files of the open folder.  PREV and NEXT turn the
\* pages of foreign file systems only, whose pages are left out.
InFolder == {s \in Slots : cfs_files[s].type # 0
                             /\ cfs_files[s].parent = current_folder_id}
Shown    == {s \in InFolder : Cardinality({r \in InFolder : r < s}) < PageFiles}

\* BACK to the drives, which only the root offers
back_anywhere ==                 \* (faulty variant)
  /\ Idle /\ dsk_mgr_opened
  /\ dsk_mgr_opened' = FALSE
  /\ UNCHANGED <<disk, writes, selected_drive_idx, mount, current_folder_id,
                 cfs_files, buf_dir, buffers, notepad>>

back ==
  /\ Idle /\ dsk_mgr_opened /\ current_folder_id = Root
  /\ dsk_mgr_opened' = FALSE
  /\ UNCHANGED <<disk, writes, selected_drive_idx, mount, current_folder_id,
                 cfs_files, buf_dir, buffers, notepad>>

\* BACK to the root, which only a foreign file system offers
back_to_root ==
  /\ Idle /\ dsk_mgr_opened /\ current_folder_id # Root
  /\ is_ntfs_drive \/ is_fat32_drive
  /\ current_folder_id' = Root
  /\ Foreign_refresh(Root)
  /\ UNCHANGED <<disk, writes, selected_drive_idx, mount, dsk_mgr_opened, buf_dir,
                 buffers, notepad>>

\* OPEN on a folder
open_folder(s) ==
  /\ Idle /\ dsk_mgr_opened /\ s \in Shown /\ cfs_files[s].type = 2
  /\ current_folder_id' = s
  /\ Foreign_refresh(s)
  /\ UNCHANGED <<disk, writes, selected_drive_idx, mount, dsk_mgr_opened, buf_dir,
                 buffers, notepad>>

\* OPEN on a file: the directory is read into the buffer, and a text is shown
\* in the notepad; .BIN and .WAV files are not
open_file(s) ==
  /\ Idle /\ dsk_mgr_opened /\ s \in Shown /\ cfs_files[s].type = 1
  /\ buf_dir' \in Reads(dir, buf_dir)
  /\ \/ /\ active_file_lba' = cfs_files[s].start
        /\ content' \in {b[cfs_files[s].start] : b \in Reads(data, ZeroSectors)}
        /\ UNCHANGED save_step
     \/ UNCHANGED notepad
  /\ UNCHANGED <<disk, writes, selected_drive_idx, mount, explorer, cfs_files,
                 buffers>>

\* COPY: FileSectors sectors from the file's first go to the file buffer
copy(s) ==
  /\ Idle /\ dsk_mgr_opened /\ s \in Shown
  /\ \E sectors \in Reads(data, ZeroSectors) :
       file_ram' = IF cfs_files[s].type = 2 THEN file_ram
                   ELSE [k \in 0 .. FileSectors - 1 |-> sectors[cfs_files[s].start + k]]
  /\ clipboard' = [active |-> TRUE, folder |-> cfs_files[s].type = 2]
  /\ UNCHANGED <<disk, writes, selected_drive_idx, mount, explorer, cfs_files,
                 buf_dir, notepad>>

\* PASTE: the data, then an entry in the open folder; cfs_files is not updated
PasteLbaBytes(s) == SaveBase + s * FileSectors * 512     \* (faulty variant)
PasteLba(s)      == SaveBase + s * FileSectors

paste ==
  /\ Idle /\ dsk_mgr_opened /\ clipboard.active /\ ~is_ntfs_drive
  /\ \E entries \in Reads(dir, ZeroDir) :
       LET slot == Min(Free(entries, NumSlots))
           lba  == PasteLba(slot)
           new  == [entries EXCEPT ![slot] =
                      IF clipboard.folder THEN Entry(2, 0, 0, current_folder_id)
                      ELSE Entry(1, lba, FileSectors, current_folder_id)]
           body == [k \in 1 .. FileSectors |->
                      Write("PASTE", "data", lba + k - 1, file_ram[k - 1])[1]]
       IN  IF Free(entries, NumSlots) = {}
           THEN buf_dir' = entries /\ UNCHANGED <<writes, clipboard, cfs_files>>
           ELSE /\ Queue(IF clipboard.folder THEN WriteDir("PASTE", new)
                         ELSE body \o WriteDir("PASTE", new)
                                \o Write("PASTE", "said", lba, file_ram[0]))
                /\ buf_dir' = new
                /\ clipboard' = [clipboard EXCEPT !.active = FALSE]
                /\ Foreign_refresh(current_folder_id)
  /\ UNCHANGED <<disk, selected_drive_idx, mount, explorer, file_ram, notepad>>

\* + FILE: an entry for APP.BIN.  Its parent_idx is not set, on the disk or in
\* the copy.
App(e) == Entry(1, AppLba, FileSectors, e.parent)

add_file ==
  /\ Idle /\ dsk_mgr_opened
  /\ \E entries \in Reads(dir, ZeroDir) :
       LET slot == Min(Free(entries, NumSlots))
           new  == [entries EXCEPT ![slot] = App(@)]
       IN  IF Free(entries, NumSlots) = {}
           THEN buf_dir' = entries /\ UNCHANGED <<writes, cfs_files>>
           ELSE /\ Queue(WriteDir("+ FILE", new))
                /\ buf_dir' = new
                /\ cfs_files' = [cfs_files EXCEPT ![slot] = App(@)]
  /\ UNCHANGED <<disk, selected_drive_idx, mount, explorer, buffers, notepad>>

-----------------------------------------------------------------------------
(* The notepad and its SAVE AS dialog.                                     *)

type_text(t) ==
  /\ Idle
  /\ content' = t
  /\ UNCHANGED <<disk, writes, selected_drive_idx, mount, explorer, cfs_files,
                 buf_dir, buffers, active_file_lba, save_step>>

\* SAVE: to the sector of the notepad's file on the drive selected now.  (A
\* text without a file goes to the scratch sector, which no entry names.)
save ==
  /\ Idle
  /\ file_ram' = [file_ram EXCEPT ![0] = content]
  /\ Queue(IF active_file_lba > 0
           THEN Write("SAVE", "data", active_file_lba, content)
                  \o Write("SAVE", "said", active_file_lba, content)
           ELSE Write("SAVE", "data", Scratch, content))
  /\ UNCHANGED <<disk, selected_drive_idx, mount, explorer, cfs_files, buf_dir,
                 clipboard, notepad>>

\* the dialog asks for a mounted drive in its first step only
dialog(step) ==
  /\ Idle
  /\ \/ step = "choose"
     \/ step \in {"file", "folder"} /\ save_step = "choose" /\ is_mounted
     \/ step = "closed" /\ save_step # "closed"
  /\ save_step' = step
  /\ UNCHANGED <<disk, writes, selected_drive_idx, mount, explorer, cfs_files,
                 buf_dir, buffers, active_file_lba, content>>

SaveLbaFixed(s) == SaveBase      \* (faulty variant: every file at 4000)
SaveLba(s)      == SaveBase + s

save_as ==
  /\ Idle /\ save_step = "file"
  /\ file_ram' = [k \in 0 .. FileSectors - 1 |-> IF k = 0 THEN content ELSE Blank]
  /\ \E entries \in Reads(dir, buf_dir) :
       LET slot == Min(Free(entries, NumSlots))
           lba  == SaveLba(slot)
           file == Entry(1, lba, FileSectors, current_folder_id)
           new  == [entries EXCEPT ![slot] = file]
       IN  IF Free(entries, NumSlots) = {}
           THEN buf_dir' = entries /\ UNCHANGED <<writes, cfs_files, active_file_lba>>
           ELSE /\ Queue(Write("SAVE AS", "data", lba, content)
                           \o WriteDir("SAVE AS", new)
                           \o Write("SAVE AS", "said", lba, content))
                /\ buf_dir' = new
                /\ cfs_files' = [cfs_files EXCEPT ![slot] = file]
                /\ active_file_lba' = lba
  /\ save_step' = "closed"
  /\ UNCHANGED <<disk, selected_drive_idx, mount, explorer, clipboard, content>>

new_folder ==
  /\ Idle /\ save_step = "folder"
  /\ \E entries \in Reads(dir, buf_dir) :
       LET slot == Min(Free(entries, NumSlots))
           folder == Entry(2, 0, 0, current_folder_id)
           new  == [entries EXCEPT ![slot] = folder]
       IN  IF Free(entries, NumSlots) = {}
           THEN buf_dir' = entries /\ UNCHANGED <<writes, cfs_files>>
           ELSE /\ Queue(WriteDir("NEW FOLDER", new))
                /\ buf_dir' = new
                /\ cfs_files' = [cfs_files EXCEPT ![slot] = folder]
  /\ save_step' = "closed"
  /\ UNCHANGED <<disk, selected_drive_idx, mount, explorer, buffers,
                 active_file_lba, content>>

-----------------------------------------------------------------------------
(* The command window.                                                     *)

\* MKDIR: neither the parent of the entry nor the explorer's copy is set
mkdir ==
  /\ Idle
  /\ \E entries \in Reads(dir, buf_dir) :
       LET slot == Min(Free(entries, MkdirSlots))
           new  == [entries EXCEPT ![slot] = Entry(2, 0, 0, @.parent)]
       IN  IF Free(entries, MkdirSlots) = {}
           THEN buf_dir' = entries /\ UNCHANGED writes
           ELSE Queue(WriteDir("MKDIR", new)) /\ buf_dir' = new
  /\ UNCHANGED <<disk, selected_drive_idx, mount, explorer, cfs_files, buffers,
                 notepad>>

\* INSTALL of a package of n sectors: slot and sector come from cfs_files, the
\* directory from the disk
PkgEndUnsized(f) == f.start + 1                          \* (faulty variant)
PkgEnd(f)        == f.start + f.size + 1

NextLba ==
  LET next[i \in 0 .. NumSlots] ==
        IF i = 0 THEN PkgBase
        ELSE LET f == cfs_files[i - 1]
             IN  IF f.type # 0 /\ f.start >= next[i - 1] THEN PkgEnd(f) ELSE next[i - 1]
  IN  next[NumSlots]

install(n, t) ==
  LET lba  == NextLba
      slot == Min(Free(cfs_files, NumSlots))
      Pkg(e) == Entry(1, lba, n % SizeWrap, e.parent)
      Each(what) == [k \in 1 .. n |-> Write("INSTALL", what, lba + k - 1, t)[1]]
  IN  /\ Idle
      /\ Free(cfs_files, NumSlots) # {} /\ lba + n + FileSectors <= LastSector + 1
      /\ \E entries \in Reads(dir, buf_dir) :
           LET new == [entries EXCEPT ![slot] = Pkg(@)]
           IN  /\ Queue(WriteDir("INSTALL", new) \o Each("data") \o Each("said"))
               /\ buf_dir' = new
      /\ cfs_files' = [cfs_files EXCEPT ![slot] = Pkg(@)]
      /\ UNCHANGED <<disk, selected_drive_idx, mount, explorer, buffers, notepad>>

-----------------------------------------------------------------------------
Pressed(b) == b \in Buttons

Next ==
  \/ write_sector \/ lose_sector \/ crash
  \/ \E d \in Drives : select(d)
  \/ open_drive \/ back \/ back_to_root
  \/ \E s \in Slots : open_folder(s)
  \/ Pressed("FORMAT") /\ format
  \/ Pressed("OPEN")   /\ \E s \in Slots : open_file(s)
  \/ Pressed("COPY")   /\ (paste \/ \E s \in Slots : copy(s))
  \/ Pressed("+ FILE") /\ add_file
  \/ Pressed("SAVE")   /\ save
  \/ Pressed("EDIT")   /\ \E t \in Texts : type_text(t)
  \/ Pressed("SAVE AS") /\
       (save_as \/ \E step \in {"choose", "file", "closed"} : dialog(step))
  \/ Pressed("NEW FOLDER") /\
       (new_folder \/ \E step \in {"choose", "folder", "closed"} : dialog(step))
  \/ Pressed("MKDIR")   /\ mkdir
  \/ Pressed("INSTALL") /\ \E n \in PkgSectors, t \in Texts : install(n, t)

Spec == Init /\ [][Next]_vars

-----------------------------------------------------------------------------
(* Properties.                                                             *)

Used(d) == {s \in Slots : dir[d][s].type # 0}

\* Every variable has its type.
TypeOK ==
  /\ fs \in [Drives -> {"cfs", "fat", "ntfs", "raw"}]
  /\ dir \in [Drives -> [Slots -> Entries]]
  /\ data \in [Drives -> [Sectors -> Texts \cup {Blank}]]
  /\ said \in [Drives -> [Sectors -> Texts \cup {Blank}]]
  /\ selected_drive_idx \in Drives \cup {NoDrive}
  /\ ~Idle => selected_drive_idx \in Drives
  /\ {is_mounted, is_ntfs_drive, is_fat32_drive, dsk_mgr_opened} \subseteq BOOLEAN
  /\ current_folder_id \in Slots \cup {Root}
  /\ cfs_files \in [Slots -> Entries] /\ buf_dir \in [Slots -> Entries]
  /\ file_ram \in [0 .. FileSectors - 1 -> Texts \cup {Blank}]
  /\ active_file_lba \in Sectors
  /\ content \in Texts \cup {Blank}
  /\ save_step \in {"closed", "choose", "file", "folder"}

\* What the program said it saved is on the disk, under an entry of the
\* directory, and stays there until the same file is saved again or the drive
\* is formatted: at every moment of every later operation, and after a crash.
SavedIsSaved ==
  \A d \in Drives, l \in Sectors : said[d][l] # Blank =>
    /\ data[d][l] = said[d][l]
    /\ l < AppLba => \E s \in Used(d) : dir[d][s].type = 1 /\ dir[d][s].start = l

\* The explorer shows the directory of the drive it was opened on.
CopyAgrees ==
  dsk_mgr_opened /\ Idle /\ fs[here] = "cfs" => cfs_files = Copied(dir[here])

\* Every entry of a directory can be reached from the root: its parents are
\* folders of the same drive, and do not run in a circle.
TreeRooted ==
  \A d \in Drives : fs[d] = "cfs" =>
    \A S \in (SUBSET Used(d)) \ {{}} :
      \E s \in S : \/ dir[d][s].parent = Root
                   \/ dir[d][s].parent \in {f \in Used(d) \ S : dir[d][f].type = 2}

\* An entry that is in use is only ever changed by FORMAT.
NothingOverwritten ==
  [][\A d \in Drives : \A s \in Used(d) :
       dir'[d][s] = dir[d][s] \/ Head(writes).by = "FORMAT"]_vars

\* Outside the explorer the current folder is the root, so that the SAVE AS
\* dialog and a new drive never see the folder of an old one.
RootWhenClosed == ~dsk_mgr_opened => current_folder_id = Root

\* PASTE never writes to an NTFS drive: its flag is not stale.
PasteSparesNtfs ==
  \A i \in DOMAIN writes : writes[i].by = "PASTE" => fs[here] # "ntfs"

=============================================================================
