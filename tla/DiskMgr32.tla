------------------------------ MODULE DiskMgr32 -----------------------------
(***************************************************************************)
(* The disk manager of OS1, the 32-bit kernel.cpp that GRUB starts: the    *)
(* DISK MGR window, the notepad, the SAVE AS dialog and the forensics tool *)
(* (RECOVER) work on the CFS directory in sectors 1002 to 1005 and on its  *)
(* copy file_table in RAM.  Unlike kernel_main.cpp this one knows file     *)
(* systems by the text in drives[].model, keeps the file a note came from  *)
(* as an index into file_table, and gives a slot's file sector 4000 + slot.*)
(*                                                                         *)
(* One main loop runs all handlers; the dialog can be minimised between    *)
(* any two clicks.  A handler is one step for RAM; the sectors it writes   *)
(* are queued and reach the disk one by one; power may fail between two.   *)
(***************************************************************************)
EXTENDS Integers, Sequences, FiniteSets, FiniteSetsExt

CONSTANTS NumDrives,    \* drive_count; a drive's port is its index
          Formats,      \* what the drives may hold at the start: cfs, fat, none
          NumSlots,     \* 28 entries of a directory
          PerSector,    \* 8 entries of a sector
          KeyFiles,     \* 8: the entries a FAT32 root is read into
          Texts, Blank, \* notes, and the empty note
          SaveBase,     \* 4000
          FatLba,       \* where the file of a FAT32 drive starts
          LastSector,   \* the end of the disk (bound)
          Sessions      \* the sets of handlers that users make use of

ASSUME DriveAssumption  == NumDrives \in Nat \ {0} /\ Blank \notin Texts
ASSUME LayoutAssumption ==
  /\ NumSlots \in Nat \ {0} /\ PerSector \in Nat \ {0} /\ KeyFiles \in 1 .. NumSlots
  /\ SaveBase \in Nat \ {0} /\ LastSector \in Nat /\ SaveBase + NumSlots <= LastSector + 1
  /\ FatLba \in 1 .. LastSector

Drives  == 0 .. NumDrives - 1
Slots   == 0 .. NumSlots - 1
Sectors == 0 .. LastSector          \* 0: no sector assigned
Root    == 255                      \* parent_idx, current_path_id; no rename

\* CFS_DIR_ENTRY: free (0), file (1) or folder (2); has it a name?
Entries == [type : 0 .. 2, start : Sectors, named : BOOLEAN]
Entry(t, lba) == [type |-> t, start |-> lba, named |-> TRUE]
ZeroDir == [s \in Slots |-> [type |-> 0, start |-> 0, named |-> FALSE]]

\* FileEntry, its copy in file_table
Files == [exists : BOOLEAN, folder : BOOLEAN, lba : Sectors, parent : Slots \cup {Root}]
File(folder, lba, p) == [exists |-> TRUE, folder |-> folder, lba |-> lba, parent |-> p]
Gone(f) == [f EXCEPT !.exists = FALSE]
NoFiles == [s \in Slots |-> Gone(File(FALSE, 0, Root))]

VARIABLES
  boot,                    \* the file system that sector 0 of a drive names
  dir,                     \* sectors 1002 .. 1005 of every drive
  data,                    \* the other sectors
  writes,                  \* the sectors the running handler has yet to write
  model,                   \* the file system that drives[].model names
  active_drive_idx,
  dsk_view,                \* 0 drives, 1 root directory, 2 a folder
  file_selection,
  current_folder_view_idx,
  current_path_id,         \* the folder SAVE AS saves to
  file_table,
  renaming_file_idx,
  current_open_file,       \* the file_table index of the note, or -1
  note_buf,
  save_step,               \* of the SAVE AS dialog
  buttons                  \* the handlers this user makes use of

disk   == <<boot, dir, data>>
drive  == <<model, active_drive_idx>>
view   == <<dsk_view, file_selection, current_folder_view_idx, current_path_id>>
note   == <<current_open_file, note_buf>>
vars == <<disk, writes, drive, view, file_table, renaming_file_idx, note, save_step,
          buttons>>

-----------------------------------------------------------------------------
\* Start-up: ahci_mount_drive names the drives, ahci_read_mbr adds the file
\* system to every name.
Init ==
  /\ boot \in Formats /\ buttons \in Sessions
  /\ dir = [d \in Drives |-> ZeroDir]
  /\ data = [d \in Drives |-> [l \in Sectors |-> Blank]]
  /\ writes = <<>>
  /\ model = boot /\ active_drive_idx = -1
  /\ dsk_view = 0 /\ file_selection = -1
  /\ current_folder_view_idx = -1 /\ current_path_id = Root
  /\ file_table = NoFiles
  /\ renaming_file_idx = Root
  /\ current_open_file = -1 /\ note_buf = Blank
  /\ save_step = "closed"

-----------------------------------------------------------------------------
(* The disk.                                                               *)

Idle == writes = <<>>
here == active_drive_idx

\* drives[-1] lies before the array: its port may be any, or none
Port(i) == IF i \in Drives THEN {i} ELSE Drives \cup {-1}

Write(d, handler, what, at, value) ==
  IF d \in Drives
  THEN <<[drive |-> d, by |-> handler, what |-> what, at |-> at, value |-> value]>>
  ELSE <<>>

\* a directory goes out as the sectors 1002 .. 1005
SectorOf(s) == s \div PerSector
DirSectors  == SectorOf(NumSlots - 1) + 1
WriteDir(d, handler, entries) ==
  IF d \in Drives
  THEN [i \in 1 .. DirSectors |->
          [drive |-> d, by |-> handler, what |-> "dir", at |-> i - 1, value |-> entries]]
  ELSE <<>>

\* one sector reaches the disk
write_sector ==
  /\ ~Idle
  /\ writes' = Tail(writes)
  /\ LET w == Head(writes)
     IN  /\ boot' = IF w.what = "boot" THEN [boot EXCEPT ![w.drive] = w.value] ELSE boot
         /\ dir'  = IF w.what = "dir"
                    THEN [dir EXCEPT ![w.drive] =
                            [s \in Slots |-> IF SectorOf(s) = w.at THEN w.value[s]
                                             ELSE dir[w.drive][s]]]
                    ELSE dir
         /\ data' = IF w.what = "data"
                    THEN [data EXCEPT ![w.drive][w.at] = w.value] ELSE data
  /\ UNCHANGED <<buttons, drive, view, file_table, renaming_file_idx, note, save_step>>

\* power failure, or REBOOT, also between two sectors
crash ==
  /\ "crash" \in buttons
  /\ writes' = <<>>
  /\ model' = boot /\ active_drive_idx' = -1
  /\ dsk_view' = 0 /\ file_selection' = -1
  /\ current_folder_view_idx' = -1 /\ current_path_id' = Root
  /\ file_table' = NoFiles
  /\ renaming_file_idx' = Root
  /\ current_open_file' = -1 /\ note_buf' = Blank
  /\ save_step' = "closed"
  /\ UNCHANGED <<buttons, disk>>

\* free directory slots
Free(entries) == {s \in Slots : entries[s].type = 0}

-----------------------------------------------------------------------------
(* DISK MGR, the list of drives.                                           *)

\* a click on a drive, or an arrow key
select_drive(i) ==
  /\ Idle /\ dsk_view = 0 /\ (i = 0 \/ "DRIVES" \in buttons)
  /\ active_drive_idx' = i
  /\ UNCHANGED <<buttons, disk, writes, model, view, file_table, renaming_file_idx, note, save_step>>

\* HOME
go_home ==
  /\ Idle
  /\ dsk_view' = 0 /\ current_folder_view_idx' = -1 /\ current_path_id' = Root
  /\ UNCHANGED <<buttons, disk, writes, drive, file_selection, file_table, renaming_file_idx, note,
                 save_step>>

\* ahci_mount_drive asks every drive for its name again; the file systems
\* are not looked at
ahci_mount_drive == model' = [d \in Drives |-> "none"]

\* REF
refresh ==
  /\ Idle /\ "REF" \in buttons
  /\ ahci_mount_drive
  /\ UNCHANGED <<buttons, disk, writes, active_drive_idx, view, file_table, renaming_file_idx, note,
                 save_step>>

\* the window closed and opened again from the desktop
reopen_window ==
  /\ Idle /\ "REF" \in buttons
  /\ dsk_view' = 0 /\ current_path_id' = Root
  /\ ahci_mount_drive
  /\ UNCHANGED <<buttons, disk, writes, active_drive_idx, file_selection, current_folder_view_idx,
                 file_table, renaming_file_idx, note, save_step>>

\* file_table from a CFS directory: everything is in the root
CfsFiles(entries) ==
  [s \in Slots |-> IF entries[s].type # 0
                   THEN File(entries[s].type = 2, entries[s].start, Root)
                   ELSE Gone(file_table[s])]
\* and from a FAT32 root directory, whose entries take the first 8 places
FatFiles ==
  [s \in Slots |-> IF s = 0 THEN File(FALSE, FatLba, Root)
                   ELSE IF s < KeyFiles THEN Gone(file_table[s]) ELSE file_table[s]]

\* OPEN DRIVE; a drive that holds neither leaves the table as it was
open_drive ==
  /\ Idle /\ dsk_view = 0 /\ here # -1
  /\ dsk_view' = 1
  /\ file_table' = CASE boot[here] = "cfs" -> CfsFiles(dir[here])
                     [] boot[here] = "fat" -> FatFiles
                     [] OTHER -> file_table
  /\ UNCHANGED <<buttons, disk, writes, drive, file_selection, current_folder_view_idx,
                 current_path_id, renaming_file_idx, note, save_step>>

\* ENTER on the selected drive: the files are shown, and file_table stays as it
\* was (mbr_scan reads the partition table of the first drive for the display)
enter_key ==
  /\ Idle /\ "KEYS" \in buttons /\ dsk_view = 0 /\ here >= 0
  /\ dsk_view' = 1
  /\ UNCHANGED <<buttons, disk, writes, drive, file_selection, current_folder_view_idx,
                 current_path_id, file_table, renaming_file_idx, note, save_step>>

\* FORMAT CFS: not offered for a drive whose name shows a file system.
\* "[CFS]" is the name FORMAT gives, "cfs" the one of ahci_read_mbr.
format_cfs ==
  /\ Idle /\ "FORMAT" \in buttons /\ dsk_view = 0 /\ here # -1
  /\ model[here] = "none"
  /\ writes' = Write(here, "FORMAT", "boot", 0, "cfs") \o WriteDir(here, "FORMAT", ZeroDir)
  /\ model' = [model EXCEPT ![here] = "[CFS]"]
  /\ UNCHANGED <<buttons, disk, active_drive_idx, view, file_table, renaming_file_idx, note, save_step>>

IsCfs(d) == model[d] \in {"cfs", "[CFS]"}

-----------------------------------------------------------------------------
(* DISK MGR, the root directory.                                           *)

\* (faulty variant: the view stays)
back_keeping_view ==
  /\ Idle /\ dsk_view = 1
  /\ active_drive_idx' = -1
  /\ UNCHANGED <<buttons, disk, writes, model, view, file_table, renaming_file_idx, note, save_step>>
back_to_drives ==
  /\ Idle /\ dsk_view = 1
  /\ dsk_view' = 0 /\ active_drive_idx' = -1
  /\ UNCHANGED <<buttons, disk, writes, model, file_selection, current_folder_view_idx,
                 current_path_id, file_table, renaming_file_idx, note, save_step>>

\* what the new entry of a handler looks like: the other fields are set anew
\* (faulty variant: a folder keeps the sector of the file it replaces)
MadeKeepingSector(entries, t, s) == [entries EXCEPT ![s].type = t, ![s].named = TRUE,
                                       ![s].start = IF t = 1 THEN SaveBase + s ELSE @]
Made(entries, t, s) ==
  [entries EXCEPT ![s] = Entry(t, IF t = 1 THEN SaveBase + s ELSE 0)]

\* + FILE (1) and + DIR (2): the directory on the disk, then the table,
\* whose parent_idx is left as it was
new_entry(t) ==
  /\ Idle /\ <<"+ FILE", "+ DIR">>[t] \in buttons
  /\ dsk_view = 1 /\ IsCfs(here)
  /\ Free(dir[here]) # {}
  /\ LET s == Min(Free(dir[here]))
     IN  /\ writes' = WriteDir(here, "+", Made(dir[here], t, s))
         /\ file_table' = [file_table EXCEPT ![s] =
                             File(t = 2, IF t = 1 THEN SaveBase + s ELSE 0, @.parent)]
  /\ UNCHANGED <<buttons, disk, drive, view, renaming_file_idx, note, save_step>>

\* the rows of the root; none while a name is edited
InRoot(f) == /\ dsk_view = 1 /\ renaming_file_idx = Root
             /\ file_table[f].exists /\ file_table[f].parent = Root

\* the rows of a folder
InFolder(f) == /\ dsk_view = 2 /\ current_folder_view_idx >= 0
               /\ file_table[f].exists /\ file_table[f].parent = current_folder_view_idx

\* DEL of the selected row
DeleteEntry(f) ==
  /\ writes' = WriteDir(here, "DEL", [dir[here] EXCEPT ![f].type = 0])
  /\ file_table' = [file_table EXCEPT ![f] = Gone(@)]
  /\ UNCHANGED <<buttons, disk, drive, renaming_file_idx, save_step>>

delete_in_root(f) ==
  /\ Idle /\ "DEL" \in buttons
  /\ InRoot(f) /\ file_selection = f /\ IsCfs(here)
  /\ DeleteEntry(f)
  /\ file_selection' = -1
  /\ UNCHANGED <<dsk_view, current_folder_view_idx, current_path_id, note>>

\* an arrow key moves the selection, not the note
arrow_key ==
  /\ Idle /\ "KEYS" \in buttons /\ dsk_view = 1
  /\ file_selection' \in
       {IF file_selection > 0 THEN file_selection - 1 ELSE KeyFiles - 1,
        IF file_selection < KeyFiles - 1 THEN file_selection + 1 ELSE 0}
  /\ UNCHANGED <<buttons, disk, writes, drive, dsk_view, current_folder_view_idx, current_path_id,
                 file_table, renaming_file_idx, note, save_step>>

\* RENAME opens the keyboard for a row
rename_entry(f) ==
  /\ Idle /\ "RENAME" \in buttons
  /\ \/ InRoot(f) /\ file_selection = f /\ IsCfs(here)
     \/ InFolder(f)
  /\ renaming_file_idx' = f
  /\ UNCHANGED <<buttons, disk, writes, drive, view, file_table, note, save_step>>

\* the keyboard's SAVE, drawn in every window; the name may be empty
rename_save ==
  /\ Idle /\ renaming_file_idx # Root
  /\ \E d \in Port(here), named \in BOOLEAN :
       writes' = WriteDir(d, "RENAME",
                          IF d \in Drives
                          THEN [dir[d] EXCEPT ![renaming_file_idx].named = named] ELSE ZeroDir)
  /\ renaming_file_idx' = Root
  /\ UNCHANGED <<buttons, disk, drive, view, file_table, note, save_step>>

\* COPY TO CFS: the last drive that is named CFS, of the first four; port 0
\* stands for none.  One sector is copied, data first.
CopyTargets == {d \in Drives \cap 1 .. 3 : IsCfs(d)}
copy_to_cfs(f) ==
  /\ Idle /\ "COPY" \in buttons
  /\ InRoot(f) /\ file_selection = f /\ model[here] = "fat"
  /\ CopyTargets # {}
  /\ LET d == Max(CopyTargets)
     IN  /\ Free(dir[d]) # {}
         /\ LET s == Min(Free(dir[d]))
            IN  writes' = Write(d, "COPY", "data", SaveBase + s, data[here][file_table[f].lba])
                            \o WriteDir(d, "COPY", Made(dir[d], 1, s))
  /\ UNCHANGED <<buttons, disk, drive, view, file_table, renaming_file_idx, note, save_step>>

\* a click on a row: a folder is entered, a file goes to the notepad
OpenRow(f) ==
  /\ file_selection' = f
  /\ IF file_table[f].folder
     THEN /\ dsk_view' = 2 /\ current_folder_view_idx' = f /\ current_path_id' = f
          /\ UNCHANGED note
     ELSE /\ current_open_file' = f
          /\ note_buf' = IF file_table[f].lba = 0 THEN Blank ELSE data[here][file_table[f].lba]
          /\ UNCHANGED <<dsk_view, current_folder_view_idx, current_path_id>>

click_row(f) ==
  /\ Idle
  /\ \/ InRoot(f) /\ ~(file_selection = f /\ model[here] = "fat")
     \/ InFolder(f)
  /\ OpenRow(f)
  /\ UNCHANGED <<buttons, disk, writes, drive, file_table, renaming_file_idx, save_step>>

-----------------------------------------------------------------------------
(* DISK MGR, a folder.  Its toolbar works on file_table alone.             *)

back_to_root ==
  /\ Idle /\ dsk_view = 2
  /\ dsk_view' = 1 /\ current_path_id' = Root
  /\ UNCHANGED <<buttons, disk, writes, drive, file_selection, current_folder_view_idx, file_table,
                 renaming_file_idx, note, save_step>>

\* + FILE and + DIR of a folder
new_in_folder(t) ==
  /\ Idle /\ <<"+ FILE", "+ DIR">>[t] \in buttons
  /\ dsk_view = 2 /\ current_folder_view_idx >= 0 /\ IsCfs(here)
  /\ LET free == {s \in Slots : ~file_table[s].exists}
     IN  /\ free # {}
         /\ LET s == Min(free)
            IN  file_table' = [file_table EXCEPT ![s] =
                  File(t = 2, IF t = 1 THEN SaveBase + s ELSE 0, current_folder_view_idx)]
  /\ UNCHANGED <<buttons, disk, writes, drive, view, renaming_file_idx, note, save_step>>

\* DEL of a folder's row looks for "CFS" at the second letter of the name:
\* only the name that FORMAT gave has it there.  The entry it frees on the
\* disk is the one with the index of the row, and the same click opens the row,
\* which lies under the button.
delete_in_folder(f) ==
  /\ Idle /\ "DEL" \in buttons
  /\ InFolder(f) /\ file_selection = f /\ model[here] = "[CFS]"
  /\ DeleteEntry(f)
  /\ OpenRow(f)

-----------------------------------------------------------------------------
(* The notepad.                                                            *)

\* NEW, and typing
type_note ==
  /\ Idle
  /\ note_buf' \in Texts
  /\ current_open_file' \in {current_open_file, -1}
  /\ UNCHANGED <<buttons, disk, writes, drive, view, file_table, renaming_file_idx, save_step>>

\* SAVE: to the sector the table has now, of the drive that is active now
save_note ==
  /\ Idle /\ "SAVE" \in buttons
  /\ current_open_file # -1
  /\ file_table[current_open_file].lba # 0
  /\ \E d \in Port(here) :
       writes' = Write(d, "SAVE", "data", file_table[current_open_file].lba, note_buf)
  /\ UNCHANGED <<buttons, disk, drive, view, file_table, renaming_file_idx, note, save_step>>

-----------------------------------------------------------------------------
(* The SAVE AS dialog: 0 drive and folder, 1 name, 2 new folder.           *)

open_dialog ==
  /\ Idle /\ "SAVE AS" \in buttons
  /\ save_step' = "drive"
  /\ UNCHANGED <<buttons, disk, writes, drive, view, file_table, renaming_file_idx, note>>

close_dialog ==
  /\ Idle /\ save_step # "closed"
  /\ save_step' = "closed"
  /\ UNCHANGED <<buttons, disk, writes, drive, view, file_table, renaming_file_idx, note>>

\* step 0 is drawn: it takes a drive if there is none
Chosen == IF here \in Drives THEN here ELSE 0
draw_dialog ==
  /\ Idle /\ save_step = "drive"
  /\ active_drive_idx' = Chosen
  /\ UNCHANGED <<buttons, disk, writes, model, view, file_table, renaming_file_idx, note, save_step>>

\* a click on the drive: the next one, and its directory
next_drive ==
  /\ Idle /\ "DRIVES" \in buttons /\ save_step = "drive"
  /\ LET d == (Chosen + 1) % NumDrives
     IN  /\ active_drive_idx' = d
         /\ file_table' = IF IsCfs(d) THEN CfsFiles(dir[d])
                          ELSE [s \in Slots |-> Gone(file_table[s])]
  /\ current_path_id' = Root
  /\ UNCHANGED <<buttons, disk, writes, model, dsk_view, file_selection, current_folder_view_idx,
                 renaming_file_idx, note, save_step>>

\* a folder of the list, or [ .. BACK TO ROOT ]
choose_folder(p) ==
  /\ Idle /\ save_step = "drive"
  /\ active_drive_idx' = Chosen
  /\ \/ p = Root
     \/ /\ p \in Slots /\ file_table[p].exists /\ file_table[p].folder
        /\ file_table[p].parent = current_path_id
  /\ current_path_id' = p
  /\ UNCHANGED <<buttons, disk, writes, model, dsk_view, file_selection, current_folder_view_idx,
                 file_table, renaming_file_idx, note, save_step>>

\* NEXT and NEW FOLDER
leave_drive_step ==
  /\ Idle /\ save_step = "drive"
  /\ active_drive_idx' = Chosen
  /\ save_step' \in {"name"} \cup (IF "NEW FOLDER" \in buttons THEN {"folder"} ELSE {})
  /\ UNCHANGED <<buttons, disk, writes, model, view, file_table, renaming_file_idx, note>>

\* SAVE: the text, then the directory, of the active drive whatever it holds
\* (faulty variant: the free slot is looked for in file_table)
FreeInTable(entries) == {s \in Slots : ~file_table[s].exists}
FreeSlots(entries) == Free(entries)
\* (faulty variant: the directory goes first)
TextLast(d, s) == WriteDir(d, "SAVE AS", Made(dir[d], 1, s))
                    \o Write(d, "SAVE AS", "data", SaveBase + s, note_buf)
TextFirst(d, s) == Write(d, "SAVE AS", "data", SaveBase + s, note_buf)
                    \o WriteDir(d, "SAVE AS", Made(dir[d], 1, s))
save_as(d) ==
  /\ Idle /\ save_step = "name"
  /\ d \in Port(here) /\ d \in Drives
  /\ IF FreeSlots(dir[d]) = {}
     THEN UNCHANGED <<writes, file_table>>          \* "ROOT DIR FULL!"
     ELSE LET s == Min(FreeSlots(dir[d]))
          IN  /\ writes' = TextFirst(d, s)
              /\ file_table' = [file_table EXCEPT ![s] =
                                  File(FALSE, SaveBase + s, current_path_id)]
  /\ save_step' = "closed"
  /\ UNCHANGED <<buttons, disk, drive, view, renaming_file_idx, note>>

\* CREATE: a folder on the disk that file_table does not know of
create_folder(d) ==
  /\ Idle /\ save_step = "folder"
  /\ d \in Port(here) /\ d \in Drives
  /\ writes' = IF Free(dir[d]) = {} THEN <<>>
               ELSE WriteDir(d, "CREATE", Made(dir[d], 2, Min(Free(dir[d]))))
  /\ save_step' = "drive"
  /\ UNCHANGED <<buttons, disk, drive, view, file_table, renaming_file_idx, note>>

-----------------------------------------------------------------------------
(* CFS GHOST DATA RECOVERY, the forensics tool.                            *)

\* RECOVER of an entry that is free and still has a name
recover(s) ==
  /\ Idle /\ "RECOVER" \in buttons /\ here # -1
  /\ dir[here][s].type = 0 /\ dir[here][s].named
  /\ writes' = WriteDir(here, "RECOVER",
                 [dir[here] EXCEPT ![s].type = IF dir[here][s].start > 0 THEN 1 ELSE 2])
  /\ UNCHANGED <<buttons, disk, drive, view, file_table, renaming_file_idx, note, save_step>>

-----------------------------------------------------------------------------
Explorer ==
  \/ \E d \in Drives : select_drive(d)
  \/ go_home \/ refresh \/ reopen_window \/ open_drive \/ enter_key \/ format_cfs
  \/ back_to_drives \/ back_to_root \/ arrow_key \/ rename_save
  \/ \E t \in 1 .. 2 : new_entry(t) \/ new_in_folder(t)
  \/ \E f \in Slots : \/ delete_in_root(f) \/ delete_in_folder(f) \/ rename_entry(f)
                      \/ copy_to_cfs(f) \/ click_row(f) \/ recover(f)

Notepad ==
  \/ type_note \/ save_note
  \/ open_dialog \/ close_dialog \/ draw_dialog \/ next_drive \/ leave_drive_step
  \/ \E p \in Slots \cup {Root} : choose_folder(p)
  \/ \E d \in Drives : save_as(d) \/ create_folder(d)

Next == write_sector \/ crash \/ Explorer \/ Notepad

Spec == Init /\ [][Next]_vars

-----------------------------------------------------------------------------
(* Properties.                                                             *)

\* The shape of the state.
TypeOK ==
  /\ boot \in [Drives -> {"cfs", "fat", "none"}]
  /\ dir \in [Drives -> [Slots -> Entries]]
  /\ data \in [Drives -> [Sectors -> Texts \cup {Blank}]]
  /\ model \in [Drives -> {"cfs", "[CFS]", "fat", "none"}]
  /\ active_drive_idx \in Drives \cup {-1}
  /\ dsk_view \in 0 .. 2 /\ file_selection \in Slots \cup {-1}
  /\ current_folder_view_idx \in Slots \cup {-1} /\ current_path_id \in Slots \cup {Root}
  /\ file_table \in [Slots -> Files]
  /\ renaming_file_idx \in Slots \cup {Root}
  /\ current_open_file \in Slots \cup {-1} /\ note_buf \in Texts \cup {Blank}
  /\ save_step \in {"closed", "drive", "name", "folder"}
  /\ buttons \in Sessions

\* A directory on the disk never gives one data sector to two files, and what
\* RECOVER makes of a deleted entry is what it was: a file has the sector of
\* its slot, a folder has none, and a deleted entry kept the one it had.  This
\* holds in the middle of a directory write and after a power failure, for
\* entries that went through +, DEL, RENAME, RECOVER and COPY in any order.
SoundEntry(e, s) ==
  /\ e.type = 1 => e.start = SaveBase + s
  /\ e.type = 2 => e.start = 0
  /\ e.start \in {0, SaveBase + s}
SlotOwnsSector == \A d \in Drives, s \in Slots : SoundEntry(dir[d][s], s)

\* SAVE AS and COPY TO CFS never write over the data of a file that the
\* directory on the disk holds, however far file_table is from it.
CreateSparesFiles ==
  \A i \in DOMAIN writes :
    writes[i].what = "data" /\ writes[i].by \in {"SAVE AS", "COPY"} =>
      \A s \in Slots : dir[writes[i].drive][s].type = 1 =>
                          dir[writes[i].drive][s].start # writes[i].at

\* "CFS: SAVED VIA DMA!": a file that SAVE AS adds to the directory has its
\* text on the disk by then, so a power failure leaves the file or nothing.
EntryAfterText ==
  [][\A d \in Drives, s \in Slots :
       /\ dir[d][s].type = 0 /\ dir'[d][s].type = 1
       /\ ~Idle /\ Head(writes).by = "SAVE AS"
       => data[d][dir'[d][s].start] = note_buf]_vars

\* A view of a drive's files is shown only while there is a drive: views 1
\* and 2 use drives[active_drive_idx] without looking at the index.
DriveWhileOpen == dsk_view # 0 => active_drive_idx \in Drives

\* What the lock of the FORMAT button is for: a drive that holds a file
\* system is not formatted.  REF, and the desktop when it opens the window,
\* mount the drives again without looking for file systems, and the lock
\* goes by their names.
FormatSparesFileSystems ==
  [][\A d \in Drives : boot'[d] # boot[d] => boot[d] = "none"]_vars
=============================================================================
