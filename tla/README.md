# CosmOS Bare Metal in TLA+

CosmOS is a small PC operating system that boots two kernels: a 32-bit one
(OS1: boot, disk manager, network) and a 64-bit one (OS2: `kernel_main.cpp`, a
desktop with preemptive tasks, a disk manager with a file system of its own, a
TCP/IP client, a package manager and games). A third build (`hybrid-BM-LX`) runs
the desktop as a program under Linux. This directory holds TLA+ models of these
systems' core, TLC configurations that check them on small instances, and TLAPS
proofs of what holds for every instance.

`PROJECT.json` is the index: `map` gives the source lines of every definition,
`runs` the configurations, `hazards` what can go wrong and where, `theorems` what
is proved.

To check a run: `tlc -config MCDiskMgrSave.cfg MCDiskMgr`. To check the proofs:
`tlapm SchedulerProofs.tla`.

| module | what it is | section |
| --- | --- | --- |
| `Multitasking` | abstract: tasks that share a processor | 2 |
| `Scheduler` | tasks, timer interrupt, system calls, loaders, speaker; implements `Multitasking` | 2 |
| `DiskMgr` | OS2: the CFS V2 directory and every handler that writes a disk | 3 |
| `Download` | package manager, TCP client, and the network behind them | 4 |
| `E1000` | the network card's rings, their driver, DHCP and ARP | 5 |
| `SectorStore` | abstract: a call moves sectors and says whether it did | 6 |
| `Ahci` | the disk driver, the host adapter and the drives; implements `SectorStore` | 6 |
| `Desktop` | a frame of the desktop: keyboard, pointer, windows, drawing | 7 |
| `DiskMgr32` | OS1: the disk manager, its notepad, dialog and forensics tool | 8 |
| `Hybrid` | the Linux-hosted variant: SDL thread, kernel thread, threads of curl | 9 |
| `SchedulerProofs`, `DiskMgrProofs`, `DownloadProofs`, `E1000Proofs`, `AhciProofs`, `DesktopProofs`, `DiskMgr32Proofs`, `HybridProofs` | the theorems | with their module |
| `MCScheduler`, `MCDiskMgr`, `MCDownload`, `MCE1000`, `MCAhci`, `MCDesktop`, `MCDiskMgr32`, `MCHybrid` | the instances TLC checks | with their module |

## 1. The system

### 1.1 How the parts interact

Task 0 of OS2 is the function `main` of `kernel_main.cpp`: an endless loop that
once per frame polls keyboard and mouse, polls the network card in every tenth
round, advances the package manager, draws the windows and runs the handler of
whatever was clicked. **All handlers run in task 0, one after the other.**
Concurrency comes from six sides:

1. the timer (PIT, interrupt 32), which interrupts task 0 anywhere and runs
   other tasks, which share its memory, the screen, the keyboard and the speaker
   (`Scheduler`);
2. the system calls of those tasks (`int 0x80`), which run kernel code with
   interrupts off (`Scheduler`, and `Desktop` for the key);
3. the network, whose frames come in any order between two frames of the loop
   (`Download`);
4. the network card, which reads and writes descriptors in memory while the
   driver does (`E1000`);
5. the disk adapter, which fetches its command and moves the data on its own
   (`Ahci`), and the disk, where a power failure can come between two sector
   writes (`DiskMgr`, `DiskMgr32`);
6. in the Linux-hosted build, threads of the host over variables without a lock
   (`Hybrid`).

Nothing else runs concurrently: the keyboard interrupt is masked (`0xFE` in the
PIC mask), the drivers poll, and there are no locks because `cli` and the
single processor take their place. OS1 has one loop and no tasks.

The models meet where the code's layers do. `DiskMgr` and `DiskMgr32` take a disk
for a store that moves a sector or says no, or is cut off by a power failure: that
this is what the driver gives them is `StoreSpec`. `Download` takes the card for
a network that loses frames and does not alter them: that the rings add nothing
to that is `RxInOrder` and `TxInOrder`. `Scheduler` promises each loop of the kernel
its turn: `NoStarvation`.

### 1.2 Inventory

| component | state | operations | what is hard | correct when | modelled |
| --- | --- | --- | --- | --- | --- |
| Multitasking | `tasks[4]`, `current_task`, `num_tasks`, saved stacks, `system_ticks` | `create_task`, `schedule`, `sleep_ms`, system calls 0, 6 and 7, pause, kill, START, RUNAPP | the timer between any two steps; a slot freed while its task is preempted | the processor runs an active task on its own stack; nobody starves; a sleep ends | `Scheduler` |
| Disk manager | sector 1002 of each drive, `cfs_files`, the buffers at 0x00901000 and 0x09000000, `selected_drive_idx`, file-system flags, the notepad's file | select, OPEN, FORMAT, COPY, PASTE, + FILE, SAVE, SAVE AS, NEW FOLDER, MKDIR, INSTALL | copies of the directory in RAM; drives changed under an open dialog; crashes; ignored write errors | what was said to be saved stays saved; no entry is overwritten | `DiskMgr` |
| Package manager and TCP client | `browser_tcp`, the download buffer, `pkg_*` timers, `router_mac` | INSTALL, GET, retry, idle timer, ARP, DNS and TCP receivers | late, lost, repeated and reordered segments; retries that race answers | a file is one stream, whole, under the name it was asked for | `Download` |
| e1000, RTL8139 | rings of 32 descriptors, their indices | send, poll, reset | a ring that wraps before the card is done; a reset of one side only | frames are read and sent once, in their order | `E1000`; RTL8139 not |
| DHCP, UDP, ICMP, IPv6 | `my_ip`, gateway, DNS server | send DISCOVER, take OFFER or ACK, answer echo | answers that nobody asked for | an address comes from one answer | `E1000`, `Download`; in part |
| AHCI, drive scan | a command table per port, `PxCI`, `PxIS`, `drives[]` | start command, poll, read, write, mount | a timeout leaves the command issued; an error bit outlives its call | yes means that exactly this transfer was made | `Ahci`; scan not |
| USB: xHCI, mass storage, mouse | transfer, command and event rings with cycle bits, `mouse_ring` | enqueue, poll events, bulk transfer | two consumers of one event ring; a ring that wraps | every event is consumed once, by who waits for it | - |
| PCI, MMIO | page tables, BARs | scan, map | mappings of devices above 4 GB | a mapping leaves the others alone | - |
| Heap, page allocator, paging | free list at 0x03000000, `next_free_page`, page tables | `malloc`, `free`, `realloc`, `alloc_page`, `map_virtual_to_physical` | fixed regions that overlap; a free list without locks | allocated blocks are disjoint | - |
| Block store, TBA | 16 blocks of 256, flush buffer, ring head | put, flush | a ring that overwrites what others keep on the disk | what was flushed is found | - |
| CosmosFS, CFS format | `FileEntry[28]` in one sector of which 8 fit | init, save, create folder, flush, format | a table larger than the sector that keeps it | the table survives a restart | `DiskMgr32`; in part |
| FAT32, NTFS, ISO 9660, partitions | sector buffers | read boot sector, list, load | chains and tables that come from the disk | the listing is that of the disk | the flags: `DiskMgr`, `DiskMgr32` |
| ELF loader, user programs | segments in RAM | parse, load, run | sizes and addresses that come from the file | segments are copied as the header says | `Scheduler`; in part |
| Keyboard, mouse, windows, console | `key_scancode`, `last_app_key`, z-order, window contents | poll, focus, drag, draw, `print_win` | the order of the windows changes under the loop that draws them; one press seen by many windows; a console written by tasks and kernel | a press makes one button act; the order stays a permutation | `Desktop`; in part |
| Sound | speaker gate, HDA DMA list | `play_freq`, `play_sound`, play WAV | a tone whose task is gone | silence when muted or killed | speaker: `Scheduler` |
| Games, browser page, viewer, scripts | their own | one step per frame | none beyond the key of the frame | rules of each game | their keys and presses: `Desktop` |
| Boot, OS1 | page tables, GDT, mode; `file_table`, directory sectors 1002 to 1005, `active_drive_idx` | load OS2; format, + FILE, DEL, RENAME, COPY, SAVE AS, RECOVER | a directory of four sectors and its copy in RAM; crashes | two files never share a sector | `DiskMgr32`; in part |
| Linux-hosted variant | as OS2; one scan code, the button, one file and one buffer shared by threads | as OS2 | threads without locks; curls that outlive their command | keys keep their order; what is saved was asked for | `Hybrid`; in part |

Section 11 says what is left out of each and why.

## 2. Scheduler

### State and actions

A task's registers and stack are one value, its *context*: which creation it
comes from (`spawn`), which program it runs, the point it is at and its
interrupt flag. `cpu` is the context in the processor, `rsp` the one on every
slot's stack, as `tasks[].rsp` is. What a program computes is left out; what it
does to the shared state is not.

| code | definition |
| --- | --- |
| `pit_isr`, `schedule` (kernel_main.cpp 284-330) | `schedule`, `NextTask`, `Saved` |
| `create_task`, `has_free_task_slot` | `create_task`, `NewSlot`, `Free`, `has_free_task_slot` |
| `yield`, the idle task's and the worker's `hlt` | `yield` |
| `sleep_ms`, `play_sound`, `play_freq` | `kernel_sleep`, `sleep_return`, `play_sound`, `play_freq` |
| system calls 6 and 7 | `syscall_sound`, `syscall_freq` |
| the task manager's buttons, the mute button | `toggle_pause`, `kill`, `toggle_mute`, then `quiet` |
| START, RUNAPP (`load_and_run_bin`), INSTALL as far as it needs a slot | `cmd_start`, `load_and_run_bin`, `load_sector`, `load_done`, `cmd_install`, `install_elf`, `install_failed` |

Two C statements are one step where the processor has interrupts off
(`create_task` under `cli`; `pit_isr`), or where nothing another task does
comes between them; they are two steps where the timer can come between and it
shows: a button and the `play_freq(0)` it ends with, the sectors of a load and
the creation at its end, the two halves of a sleep. `wake` holds
`target_ticks - system_ticks`, which keeps the model finite without a bound on
time.

Left out: the drawing, the console, the memory apps use, and the XMM registers,
which `pit_isr` does not save.

### The refinement

`Multitasking` is what the programs are promised: a set of tasks, each born once,
ready, paused or gone, and one of them running. Nobody in it knows slots, stacks
or tables. `Scheduler` implements it (`ImplementsMultitasking`) with a task being
the creation its context comes from, `spawn`: the task of an active slot is ready
or paused, and the running task is that of `cpu`. A slot that is freed and used
again is a new task; a stack that went to the wrong slot would be a dispatch of a
task that is not ready; a creation that does nothing, as `create_task` does with a
full table, is a stutter.

### Runs

| run | instance | shows |
| --- | --- | --- |
| `MCSchedulerSafety` | 4 slots (the code's number), 4 creations, all system calls, one-tick sleeps; 1,183,262 states | `RunningIsRunnable`, `ContextsDistinct`, `LoadKeepsItsSlot`, `NoOrphanTone`, `MutedIsSilent`, `TaskLifecycle`, `ImplementsMultitasking` |
| `MCSchedulerLiveness` | 3 slots, sleeps of two ticks, apps that yield and set tones; 64,950 states | `NoStarvation`, `SleepEnds`, no deadlock |
| `MCSchedulerAppSound` | 3 slots, apps that call `play_sound` | **violates `SleepEnds`**: behind the gate of `int 0x80` interrupts are off, so the `hlt` of `sleep_ms` is for ever |

Bounds. `MaxSpawns` 4 fills the table, and lets a slot be freed and used again while the contexts of
its former tasks could still be told apart; three slots are the fewest with a
task between two others in the round robin. A sleep of two ticks is
interrupted at least once; longer ones only repeat that. One sector per app
has both outcomes of a read and a point where the timer comes before the
creation. The safety run has `CHECK_DEADLOCK FALSE` because the system call of
`MCSchedulerAppSound` does stop the machine.

Fairness. The PIT fires as long as interrupts are enabled: `WF(schedule)`. A
task gets about a millisecond per quantum, in which it completes any single step
modelled; a switch disables the step in between, so that weak fairness would
say nothing: `SF` on the end of a sleep, on `quiet` and on the loader's steps.
No fairness is assumed of the user, of the apps or of INSTALL.

### Proofs

`SchedulerProofs` proves, for any number of slots from two on, any set of system
calls, any length of sleeps and loads and any number of creations:

| theorem | statement |
| --- | --- |
| `TypeCorrect` | `Spec => []TypeOK` |
| `SwitchingIsSafe` | `Spec => [](RunningIsRunnable /\ ContextsDistinct)` |
| `StacksAreDistinct` | `Spec => []ContextsDistinct` |
| `LoadFindsItsSlot` | `Spec => []LoadKeepsItsSlot` |
| `SpeakerIsSafe` | `Spec => [](NoOrphanTone /\ MutedIsSilent)` |
| `MuteIsSilence` | `Spec => []MutedIsSilent` |
| `LifecycleIsSafe` | `Spec => TaskLifecycle` |
| `KernelIsMultitasking` | `Spec => ImplementsMultitasking` |

None of the invariants is inductive alone. `Inv` adds to them: slot 0 is the
kernel, active, never paused, and the only one whose program is the kernel
(`KernelIsTask0`), because `load`, `quiet` and the buttons belong to it; active
slots lie below `num_tasks` (`TableEnd`), without which the scan of `schedule`
could miss one; the creations of active slots have been counted
(`SpawnsCounted`), without which a new context could equal an old one; and a
load was begun with creations left (`LoadMaySpawn`), a consequence of the bound.
`Table` and `Load` and `Speaker` are each preserved given the type invariant;
the proof has one lemma per group, and in it one step per action. What makes
`Table` work is that every action is one of four shapes: a step of the running
task that touches the table not at all, a switch, a creation, a button; each
shape has its lemma. `LoadKeepsItsSlot` holds because only the kernel creates
tasks and the kernel is inside the load: kills and pauses cannot happen either.
The assumptions are those of the module: at least two slots, at least one
creation. The type invariant is not repeated in the run.

The refinement needs no more than `Inv`. The mapping is a set of creations, the
code a table, so the proof first says how a change of one slot shows in the sets
(`SharesBySlot`): a step that moves no task between slots shows nothing
(`SharesKept`); a button moves the one task of its slot, and that it is *one* is
`ContextsDistinct` (`SharesMoved`); a creation takes a number above all that were
given out, which is `SpawnsCounted` (`CreationIsCreate`); a switch runs a task that is
ready, which is `RunningIsRunnable` after it (`ScheduleIsDispatch`). Only the
liveness is left to TLC.

## 3. DiskMgr

### State and actions

A handler is one step for RAM. The sectors it writes go into `writes`, in the
order of its calls of `disk_write_auto`, and reach the disk one by one
(`write_sector`), may be lost (`lose_sector`: the code ignores the result
everywhere but in SAVE), or are cut off by a power failure (`crash`). The next
handler starts when they are done, as in the code, where handlers take turns.

| code | definition |
| --- | --- |
| click on a drive, OPEN, FORMAT | `select`, `open_drive`, `format` |
| explorer: folders, BACK | `open_folder`, `back`, `back_to_root` |
| explorer: OPEN on a file, COPY, PASTE, + FILE | `open_file`, `copy`, `paste`, `add_file` |
| notepad: typing, SAVE | `type_text`, `save` |
| SAVE AS dialog | `dialog`, `save_as`, `new_folder` |
| MKDIR; INSTALL once its package has come | `mkdir`, `install` |

A directory entry keeps what the handlers decide on: type, first sector, size
in sectors (with the 16 bits of `file_size`, `SizeWrap`) and parent. Names,
dates and the `drive_used_kb` of the list are left out. The redraw flag
`need_ui_refresh` is set by a click and acted on before the next one; the
refresh is part of the action that sets it. `said` is the one history variable:
what text the program told the user it had saved in which sector. It is set
behind the last write of a handler that reports success, and cleared when the
file is being saved again or the drive is formatted.

`disk_read_auto` on a failure leaves the buffer as it was. With `"read"` in
`Faults` a handler therefore goes on with the last handler's directory, which
may be another drive's. A drive that is not CFS is known by its kind and shows
one folder and one file: the readers' arithmetic is not part of this module.
Sector 1002 of such a drive is taken as blank.

The layout is scaled down with its shape kept: 28 slots become 2 or 3, the ten
sectors of a pasted file become 2 (one where pasting is not used), the regions
4000, 10000 and 11000 follow one another. What the overlap needs - the pasted
file of slot 1 covers the sector a file saved in a higher slot gets - is there
with 3 slots and 2 sectors.

### Runs

| run | instance | shows |
| --- | --- | --- |
| `MCDiskMgrSave` | 1 CFS drive, 3 slots, 2 texts, packages of 1 and 2 sectors; OPEN, SAVE, EDIT, SAVE AS, MKDIR, INSTALL; 1,193,566 states | `SavedIsSaved` |
| `MCDiskMgrExplorer` | 2 drives, CFS or blank, crashes; FORMAT, OPEN, EDIT, SAVE AS, NEW FOLDER; 2,237,545 states | `SavedIsSaved`, `CopyAgrees`, `TreeRooted`, `RootWhenClosed` |
| `MCDiskMgrWriters` | 2 drives, FAT32 or NTFS, lost writes; FORMAT, PASTE, + FILE, SAVE AS; 6,477,917 states | `TypeOK`, `PasteSparesNtfs`, `NothingOverwritten` |

Each run takes the handlers for which its properties hold; section 10
says what breaks them otherwise. Two drives are what a stale flag or folder
needs; two slots make the directory full and let a folder hold an entry; one
text tells saved from blank, two tell which save came last. `Writers` has no CFS drive: the CFS writers
are those of the other two runs, and a drive that FORMAT made CFS is one. No run sets
`CHECK_DEADLOCK FALSE`: the user can always select a drive or type. No liveness
is stated: nothing here happens without a click but the writes of a handler.

### Proofs

`DiskMgrProofs`, for any number of drives and slots and any layout that satisfies
`LayoutAssumption`. `Kinds`, `Faults` and `Buttons` are what the drives may hold, what
may go wrong and what the user has; a hypothesis on them excludes a deviation of
section 10. Dropping any one of them gives TLC a counterexample with two drives and two
slots (three for COPY in `TextsAreSaved`); only INSTALL in `TextsAreSaved` is more than
is needed: with one CFS drive and no FORMAT it does no harm, which `MCDiskMgrSave` checks.

| theorem | statement | for |
| --- | --- | --- |
| `DiskTypes` | `Spec => []TypeOK` | everything |
| `FolderIsRootOutside` | `Spec => []RootWhenClosed` | everything |
| `PasteIsSafe` | `Spec => []PasteSparesNtfs` | boot sectors that can be read: one that cannot leaves the flag of the drive before |
| `EntriesStay` | `Spec => NothingOverwritten` | reads that succeed, no INSTALL: INSTALL takes its slot from the explorer's copy, and a failed read leaves another drive's directory to be written. Writes may be lost |
| `ExplorerIsTrue` | `Spec => []CopyAgrees` | no FAT32 (its flag stays), no COPY, + FILE, MKDIR, INSTALL (they change the directory or the copy alone), no lost sectors or failed reads |
| `FoldersAreTrees` | `Spec => []TreeRooted` | CFS and blank drives (FORMAT of another one writes the boot sector before its directory), no + FILE, MKDIR, INSTALL (they leave `parent_idx`), no lost sectors. Reads may fail, unless PASTE is used: it zeroes its buffer first, so that the open folder is not in it |
| `TextsAreSaved` | `Spec => []SavedIsSaved` | no COPY, no INSTALL, no lost sectors or failed reads; with SAVE one drive that is not formatted: the notepad saves to whatever drive is selected |

Power failures are included everywhere. `MCDiskMgrExplorer` is an instance of the last
three rows and `MCDiskMgrWriters` of the first four; `MCDiskMgrSave` goes beyond
`TextsAreSaved` because it has INSTALL.

None but `RootWhenClosed` is inductive. The properties are about disks, and between
two sectors of a handler the disks depend on what is still queued, so every
invariant has a half about `writes`:

- `TypeInv`: all queued requests are well formed, and every directory, on a disk, in
  a buffer or queued, has files that end on the disk (`Directories`). The smallest
  free slot is a slot by `MinOfSlots`, a well-foundedness argument.
- `NtfsKnown`: while the explorer is open, the flag is that of the drive.
- `PendingKeeps`: a queued directory has every entry that is in use on the disk
  (FORMAT's apart). It holds because a handler queues the directory it has just
  read with one free slot filled (`Puts`), and only one handler writes at a time.
- `CopyInv`: the copy agrees with the directory *that will be there*, the queued one
  if there is one (`IsTarget`).
- `TreeInv`: directories on the disk, queued and in the buffer are trees; the current
  folder and the folders of the copy are folders of the one that will be there and of the
  one in the buffer, which a handler goes on with when its read fails. `TreePut` is the lemma
  that a new entry under a folder of the tree leaves a tree.
- `TextInv`: what is queued to be reported as saved has its data before it in the
  queue or on the disk, and likewise its entry; queued data goes where nothing has
  been reported unless it is SAVE's; files of the directory begin in the block of their
  slot (`Placed`), so that two slots never meet. `KnownOK` is for SAVE: the file the
  notepad has, and each that it may take from the copy, has an entry.

## 4. Download

### State and actions

The module has INSTALL and GET from the command to the saved file: the package
manager of `kernel_main.cpp`, the TCP client of `net.cpp`, and, external, the
servers and the network, of which the code says only what it sends and accepts.

| code | definition |
| --- | --- |
| INSTALL, GET | `command` |
| package manager, once per frame | `frame` = `retry` or `idle`, then `finish` with `Payload` |
| TCP receiver | `check_rx`: `syn_ack`, `data`, `fin`, `rst`, `stray` |
| ARP reply, DNS answer, network settings | `arp_reply`, `dns_answer`, `apply_static_ip` |
| `send_tcp_syn`, the GET it leads to | `send_tcp_syn`, `Get` |
| external | `server_syn`, `server_get`, `server_send`, `server_fin`, `lose`, `duplicate`, `reorder` |

A stream is a header and numbered segments; a segment in the download buffer is
a pair of its connection's port and its number, so that a saved file tells
which streams it was made of. There is one file per host. Acknowledgements are
left out: no answer to them depends on what they say, and a server that has not
seen one sends again, which is `duplicate`. A FIN in a segment with data is not
looked at by the code, nor by `data`.

**Two layouts of one object.** `net.h` declares `TCPSocket` with `state` first,
`kernel_main.cpp` (20-28) declares it with `state` last, at offset 20 of an
object that `net.cpp` makes 20 bytes long. C++ leaves this undefined. The model
has what `build.sh` produces with GCC, whose `.bss` puts `router_mac` behind
`browser_tcp` (compile `net.cpp` with the flags of `build.sh` and read `nm -n`):
the package manager's `browser_tcp.state` is the first four bytes of the
router's MAC address, and its `browser_tcp.remote_ip` is `net.cpp`'s `state`.
Hence `ReadsClosed`, `WritesClosed` and the value `"cut"` of `router_mac`. With
`AnyMac` the gateway takes frames for any MAC address, as the user network of
QEMU does, the machine the system is developed on (10.0.2.2); with `AnyMac =
FALSE` no connection is ever made, because every INSTALL cuts the address.

### Runs

| run | instance | shows |
| --- | --- | --- |
| `MCDownloadStreams` | 2 packages, one by name; 2 connections; streams of 3 segments; 2 under way; one loss, repetition or overtaking; 6,705,282 states | `TypeOK`, `OneStream`, `NoGap`, `WholeAfterFin` |

Bounds. A header and two segments are the fewest that can be swapped, doubled
or mixed behind a header. Two connections are one too many for a client that
keeps one. `Frames` is 60 in the code; 1 lets every timer expire and be reset.
One fault already makes every single defect of a stream; `NoGap` and
`WholeAfterFin` are about networks without one. Local ports are never drawn
twice, where the code draws one of 1000: a reuse needs an old segment on the
same port. The ports are symmetric, the packages are not. Liveness is not
claimed: section 10 says why it fails.

### Proofs

`DownloadProofs`, for any packages, names, ports, lengths of streams, sizes of the
buffer and of the network, timers, and faults; no hypothesis beyond the module's own
assumptions:

| theorem | statement |
| --- | --- |
| `DownloadTypes` | `Spec => []TypeOK` |
| `StreamsAreNotMixed` | `Spec => []OneStream` |
| `FilesHaveNoGap` | `Spec => []NoGap` |
| `FinMeansWhole` | `Spec => []WholeAfterFin` |

A file is a copy of the buffer, so the proofs are about the buffer, the connection
and everything that is under way to it. `StreamInv`: the buffer holds pieces of one
port; once the open connection's stream was asked for, by a GET on its way, a server
that sends or a segment in flight (`Asked`), that port is the connection's
(`ItsBuffer`); and a port that was not drawn was never asked for (`Drawn`). It holds
with every fault, because the port of a segment is looked at, and a SYN-ACK empties the
buffer before it asks.

`OrderInv` adds what is true while nothing was lost, repeated or overtaken
(`faulted = 0`), which the code needs since it looks at no sequence number: the
segments in flight of each stream are in order and end with the last one sent
(`InSequence`), a FIN is behind all of them (`FinLast`), the buffer is a run of
pieces (`Run`), and the next piece to be appended is the first in flight
(`NextPiece`). After a FIN has been taken the buffer is whole (`Whole`), and a
connection that opens afterwards has been asked for nothing (`Closed`), so that it
cannot add to the old buffer before its own SYN-ACK. The lemmas `HeadAndTail`,
`OneMore` and `OneLess` say where the elements of a queue are after one is taken,
appended or dropped. That a download ends at all is neither claimed nor true.

## 5. E1000

### State and actions

The Intel card and the driver in `net.cpp`, with the part of the frame handler that
gets the system on line. Card and driver share two rings in memory. The card's
side (`rdh`, `rdt`, `tdh`, `tdt`) and the driver's (`rx_cur_intel`,
`last_processed`, `tx_cur_intel`) are variables of their own, and the card moves
between any two steps of the loop.

| code | definition |
| --- | --- |
| `net_raw`, `send_arp_ping` | `net_raw`, `send_arp_ping` |
| `e1000_enable_rx`, `e1000_enable_tx`, at boot and again by the first NET | `Init`, `e1000_enable_rx`, `e1000_enable_tx`, `cmd_net` |
| NET, the D key, the DHCP button | `cmd_net`, `send_dhcp_discover` |
| a user who tries INSTALL or GET again | `send_tcp_syn` |
| `e1000_check_rx` | `check_incoming`, `handle_frame` per frame (`arp_request`, `arp_reply`, `dhcp`), `check_done` |
| external | `card_receive`, `card_send`, `lose`, `plug` |

A frame is its kind and the router it names: an ARP request for this machine, an
ARP reply, a reply of a DHCP server. `stored` and `queued` are history: the frames
the card has stored and the driver not yet read, and those queued and not yet
sent. Segments of a connection, which the same loop hands on, are `Download`'s.
The handler of a frame is one step, since it touches no descriptor the card owns
but through `net_raw`.

`LateNet = FALSE` says that the first NET command comes before the first frame is
read. Later it resets the card and not the driver's index, so the driver waits at
a descriptor the card reaches last (section 10).

### Run

`MCE1000Rings`: rings of 3 descriptors, one router; 413,460 states. It shows
`RxInOrder` and `TxInOrder` (however card and driver interleave, frames are read
and sent once and in their order, those that a full ring hides from the card
excepted: see section 10), `CardHasRoom` (the tail that is given back never
leaves the card without a descriptor), and under fairness `Delivered` (a stored
frame is read) and `OnLine` (a user who tries again gets the router's address).

Bounds. Three descriptors (32 in the code) are the fewest where the ring wraps and
a descriptor lies between head and tail without being either; the theorems are for
every length. One router: with a second one the address of the first is kept after
a lease named the other, which is a deviation of section 10.
`CHECK_DEADLOCK FALSE` is set because the network may simply be silent.

Fairness (`FairSpec`). The loop never stops, so the steps inside `e1000_check_rx`
and at the end of NET are weakly fair; it looks for frames only in every tenth
round and the user may be in between, hence `SF(check_incoming)`. The card sends
while the cable is in, and `SF` on the reply says that not every one of them is
lost; `SF(send_tcp_syn)` is the user who tries again. `OnLine` further assumes that
the cable stays in and, from some moment on, nothing is lost or overrun.

### Proofs

For rings of any length, any routers, and `LateNet = FALSE`: `RingsTyped`,
`ReceivedInOrder`, `SentInOrder`, `CardGoesOn`. `RxInOrder` is not inductive: it
says nothing of the rest of the ring. `RingsInvariant` adds that every other
descriptor is empty, that the card may fill no more than those
(`Dist(rdh, rdt) + Len(stored) < N`), that the descriptor given back is right
behind the driver, and for sending that `tx_cur_intel` is the tail. The
arithmetic of the ring is in one lemma (`RingArithmetic`), so that the steps need
no modulo. `Delivered` and `OnLine` are model-checked only.

## 6. Ahci and SectorStore

### State and actions

`SectorStore` is what the disk manager, the loaders and the notepad take a disk
for: a call moves sectors between a drive and memory and answers yes or no. Yes
means exactly this transfer, once; no means any first part of it. A drive that
failed answers no until it is mounted again.

`Ahci` is what `cosmos_ahci.cpp` does: one command table per port, filled in anew by
every call, slot 0 only; `PxCI` set and polled a million times; the error bit of
`PxIS` looked at in the end and cleared by nobody but a mount.

| code | definition |
| --- | --- |
| `ahci_read_sectors`, `ahci_write_sectors` | `begin` (fills in the table), `issue`, then `answer` or `timeout` |
| the callers' buffers | `fill` |
| `ahci_mount_drive` and the IDENTIFY of every port | `ahci_mount_drive` |
| external: adapter and drives | `fetch`, `complete`, `fail` |

The adapter reads the command when it starts and the list of buffers when it moves
the data, which is when a table that was filled in too early would show. After a
task file error it may stop with the command still issued, or drop it and go on.
`failed` of the store is the set of ports whose error bit is set; `made` is the
moment between the end of the command and the answer of the call.

### Run

`MCAhciStore`: 2 ports, 2 sectors, 2 buffers, calls of one or two sectors, mounts
at any time; 747,648 states. It shows `TypeOK` and `StoreSpec`. Two ports are what a
shared table would mix up; two sectors make a transfer that can fail in the
middle. `Slow = {}`: a drive answers, or has failed, when the driver stops polling.
`MCAhciSlow.cfg` takes a drive that does not; see section 10.

### Proofs

`AhciTypes` and `DriverIsStore` (`Spec => StoreSpec`), for any ports, sectors and
values, given `Slow = {}`. The invariant is `OneCommand`: a command the
adapter can see or works on is the call being made, its table is that call, and a
stopped adapter has its error bit set. From it every step is one of `SectorStore`
or a stutter.

## 7. Desktop

### State and actions

One turn of the main loop of `kernel_main.cpp`, in its order: read keyboard and
mouse, hand the key to a hotkey or the window on top, hand the press to the window
under the pointer or to what lies behind the windows, draw the windows from the
lowest to the top one. The buttons of a window act *while it is drawn*, so
`win_z` may change under the loop over `win_z`.

| code | definition |
| --- | --- |
| `handle_input`, `update_mouse_position` | `HandleInput` |
| hotkeys, `toggle_app`, keys of console, notepad and dialog | `Keyboard`, `toggle_app`, `Takes` |
| dragging, resizing, title buttons | `Route`: `Follow`, `Pass`, `PressFrame`, `LetGo` |
| the galaxy and the planets | `Space` |
| `focus_window` | `focused`, `OpenOnTop` |
| the loop that draws, the windows' buttons, the engines in `arcade.cpp` | `Draw`, `DrawWindow`, `MayAct`, `Act`, `Return`, `TakesInLoop` |
| system call 2 | `ReadKey` |
| end of the frame | `EndFrame` |

Geometry is left out: any shown window may be the one under the pointer, and a
press may meet any of its parts and buttons. `took`, `acts` and `drawn` are
history: who took the key, how many buttons acted on one press, which windows this
frame has drawn.

### Run

`MCDesktopWindows`: notepad, launcher, SAVE AS dialog, browser and Pong;
12,757,552 states. It shows `TypeOK` (`win_z` stays a permutation), `OneGrab`,
`OneAct` (one press, one button, over all windows and frames) and `FrameComplete`
(a button that moves a window under the loop hides at most one for a frame). The
five windows are one of each kind: a key of its own, a button that opens another
window, the dialog the others look at, an engine with and without START. `Cool` is
2 frames for 10 to 25: one that passes and one that does not.

No liveness is stated: a frame has no loop but the one over the windows.

### Proofs

`DesktopTypes`, `GrabsOneWindow`, `PressActsOnce`, `FramesAreComplete`, for any set of
windows and any rest. `OneAct` needs `PressUnused`: while a press is fresh and no button rests, none
has acted on it. `FocusKeepsOrder` is the lemma on `focus_window`.
`FrameComplete` speaks of the end of the loop; `DrawnBelow` says it of every index:
below it every shown window was drawn while no button has acted, and all but one
after. A button moves one window to the top and those above it down by one
(`FocusPlaces`), so one window at most slips below the index undrawn, and with
`OneAct` there is one such move in a frame.

## 8. DiskMgr32 (OS1)

### State and actions

The disk manager of `kernel.cpp`, the system GRUB starts: drives, the explorer, the
notepad, the SAVE AS dialog and the forensics tool. It works like OS2's but with a
directory of four sectors, a copy of it in `file_table` that folders, DEL and the
dialog change on their own, notes that know their file as an index of that table,
and file systems known by the text in `drives[].model`.

| code | definition |
| --- | --- |
| list of drives: click, HOME, REF, OPEN, ENTER, FORMAT | `select_drive`, `go_home`, `refresh`, `reopen_window`, `open_drive`, `enter_key`, `format_cfs` |
| root directory: + FILE, + DIR, DEL, RENAME, COPY TO CFS, keys, a row | `new_entry`, `delete_in_root`, `rename_entry`, `rename_save`, `copy_to_cfs`, `arrow_key`, `click_row`, `back_to_drives` |
| a folder | `new_in_folder`, `delete_in_folder`, `back_to_root` |
| notepad | `type_note`, `save_note` |
| SAVE AS dialog, steps 0 to 2 | `open_dialog`, `close_dialog`, `draw_dialog`, `next_drive`, `choose_folder`, `leave_drive_step`, `save_as`, `create_folder` |
| RECOVER | `recover` |
| sectors and power | `write_sector`, `crash` |

As in `DiskMgr` a handler is one step for RAM, and its sectors reach the disk one by
one. `drives[-1]`, which SAVE and RENAME can read after BACK, lies before the
array: its port is any port (`Port`). The button DEL of a folder's row lies on the
row, and the rows are asked after the buttons: `delete_in_folder` opens what it has
deleted (`OpenRow`, shared with `click_row`). In the root DEL holds the next press
back (`input_cooldown`). `enter_key` shows a drive with the table as it was.

### Run

`MCDiskMgr32Files`: 2 drives (CFS and FAT32, or two CFS), 2 slots, one entry per
sector, one text, five kinds of users, power failures; 4,864,739 states. It shows
`SlotOwnsSector` (no two files share a sector, through every detour of DEL and
RECOVER and in the middle of a directory write), `CreateSparesFiles`,
`DriveWhileOpen` and `EntryAfterText`. Two slots with one entry per sector are a
directory of two sectors between which power can fail, as the four of the code; a
second drive is what a stale index or table needs. `Sessions` splits the handlers
among five kinds of users, because all at once multiply the states without
new interactions: each kind has the handlers that share a variable. The one that changes drives
(`DRIVES`) has the keys as well, so that ENTER shows a drive with the other's table.
`CHECK_DEADLOCK FALSE`: with a user of few buttons the model may stop.

### Proofs

`TypeCorrect`, `SlotsOwnSectors`, `CreatingSparesFiles`, `EntriesComeAfterText`,
`DriveWhileFilesShown`, for any number of drives, slots and entries per sector and any
users, given that the drives hold what `Formats` may name. The invariant is about what is on its way as much as
about what is on the disk: every directory in `writes` is sound (`SoundDirs`), and a
handler's data sector goes out first and belongs to no file (`DataFirst`,
`CreateSparesFiles`). Then a directory made of sectors of two sound ones is sound.
`EntryAfterText` needs `TextBefore` besides: while SAVE AS writes, all queued
sectors are of one directory, and a file that it has and the disk has not yet finds
its text in the sector that goes out first or, once that is out, on the disk.

## 9. Hybrid (Linux)

### State and actions

`hybrid-BM-LX` runs the desktop as a thread beside the SDL thread that owns window,
keyboard and mouse; every GET or INSTALL, and every retry, starts a detached
thread that runs curl. They share plain variables, `/tmp/meinos_http.bin` and the
download buffer. The module has what is new against the bare metal.

| code | definition |
| --- | --- |
| `linux_main.cpp`, the event loop | `MousePress`, `MouseDown`, `MouseUp`, `KeyDown`, `KeyUp` |
| `linux_stubs.cpp`, the thread of a download | `Begin`, `Curl`, `CurlEnd`, `Read`, `Finish` |
| `kernel_main_linux.cpp`, a frame | `ReadMouse`, `ReadKey`, `ClearKey`, `Retry`, `Complete`, `Save`, `Get`, `OtherKey`, `Button`, `EndFrame` |

Each access to a shared variable is a step of its own. A key is the number of its
press, a content the set of addresses whose bytes are in it.
`ip_str_to_u32` gives the same for every text, so every address is fetched by
curl, and `browser_tcp.state` stays 0, so that every 61 frames another one is
started. Undefined behaviour of the races is limited to the order of whole
accesses: the variables are bytes and words that the compilers used keep in
memory.

### Run

`MCHybridThreads`: 2 curls, 2 addresses, 2 commands, 2 presses of keys;
3,364,730 states. It shows `KeysInOrder`, `ActsTwice`, `SavedIsAsked` and, under
fairness, `GetEnds`. Two curls are the fewest that can mix a file or overtake; `Wait`
1 (60 frames) and `Cool` 1 let every counter expire and be reset; two sectors let a
late curl change the buffer between them.

Fairness. The host runs every thread, so `WF` of the kernel thread and of each curl's
progress; curl itself ends by `--max-time 10`. Nothing is assumed of the SDL thread.

### Proofs

`HybridTypes`, `KeysStayInOrder`, `PressActsTwice`, `AloneSavesAsked`, for any number of
threads, keys, commands and sectors. The invariant (`Invariant`) has a part for
each: the waiting scan code is later than every key handled, except between the read
and the clear (`KInv`); buttons that acted, may act now and may act in the frame
that still takes the press for new are two together (`MInv`); while a curl is
alone, file, buffer and sectors hold nothing but its address (`DInv`). `GetEnds` is
model-checked only.

## 10. Known deviations

Where a comment, a message or a declaration of the repository disagrees with
what the code does, or the code with what its user would expect. The first row of
the first table is the finding in `PROJECT.json`; its run is `MCSchedulerAppSound`.
The other configurations named here are not part of the runs; each gives a
counterexample when checked by hand, with the MC module its name begins with.

### Tasks, disk manager and downloads of OS2

| where (src/kernel_main.cpp if not named) | what |
| --- | --- |
| 2340 | an app's `play_sound` sleeps with interrupts off (`MCSchedulerAppSound.cfg`) |
| 1753, 344 | one load address for all apps; "64 KB pro Task" is unused (`MCSchedulerOwnImage.cfg`) |
| 2624 | INSTALL overwrites a file (`MCDiskMgrInstallOver.cfg`): after a restart `cfs_files` is empty, it takes slot 0 from it and overwrites the file that has it on the disk |
| 4226, 3588 | saved and pasted files overlap (`MCDiskMgrOverlap.cfg`): SAVE AS writes to 4000 + slot, PASTE to 4000 + 10 * slot for ten sectors |
| 2282 | INSTALL does not close the connection before (`MCDownloadName.cfg`): its stream is saved as the new package |
| 2256, 2668 | the slot INSTALL found may be gone when the package has come; `create_task` then does nothing and "BINGO! ELF IS RUNNING!" is printed |
| 4188 | the SAVE AS dialog says "NO CFS DRIVE MOUNTED!" but takes any mounted drive, NTFS and FAT32 included |
| 3575, 3621 | "PASTE ONLY ON CFS NOW", but only NTFS is refused, FAT32 is written |
| 4002, 4021 | after a FAT32 drive a CFS drive is listed as FAT32, and its directory seems empty |
| 3614 | PASTE does not update the explorer's list of a CFS drive |
| 3750 | NEXT does not turn the page of a CFS folder: entries after the tenth are not shown |
| 3634 | a CFS folder has no BACK |
| 2214, 778 | MKDIR and + FILE do not set `parent_idx`: the entry is a child of entry 0 |
| 4218, 4270 | a failed read in SAVE AS writes the directory of an earlier handler, perhaps of another drive |
| 4158 | the notepad's SAVE writes to its file's sector on whatever drive is selected now |
| 4254 | "SAVED SUCCESS!" whether or not the writes succeeded |
| 4151, 3882 | COPY, SAVE and SAVE AS share one buffer: PASTE after SAVE pastes the text |
| 2636 | `file_size` has 16 bits: a package of 64 KB or more is recorded too short, and the next INSTALL writes into it |
| 2646 | a package name of more than 11 characters overwrites the rest of its entry |
| 2586 | 60 frames without data and the package is saved as "DOWNLOAD COMPLETE" |
| 2548 | a lost SYN, or an ARP reply after the command, and the download never ends: the retry waits for a state the connection is not in |
| net.cpp:1135 | data is appended in the order of its arrival |
| net.cpp:1090 | a repeated SYN-ACK empties the buffer and sends GET with another number |
| net.cpp:1252 | a late DNS answer connects to the host of an earlier command |
| 2604 | `browser_download_len - 4` wraps around for an empty download: the search for the header runs through memory |
| 4152 | the notepad holds 2000 characters, SAVE writes the first 512 |
| 307 | `pit_isr` saves no SSE registers, which kernel and apps are compiled to use |
| 754, 1854 | a task's console output and system call 2 race the kernel's use of the same window and key |

### The desktop

| where (src/kernel_main.cpp if not named) | what |
| --- | --- |
| arcade.cpp:540, 583, 624, 302, 405 | the engines take `win_z[12]` for the top ("Tastatur nur abfangen, wenn Configurator (ID 9) im Fokus ist!", 623), but there are 14 windows: the browser gets keys when it is second from the top (`MCDesktopKeys.cfg`, `KeysGoToFocus`) |
| 2713 | the SAVE AS dialog takes keys when it is on top of the order, closed or minimized |
| arcade.cpp:300, 402 | ESC ends the games wherever they are; START ignores that the window is blocked |
| 4361 | the D key for DHCP never fires: the key has been cleared at 2532 |
| 3285 | the oracle's button sets `key_scancode` and not `key_ready` |
| 3132 | the dialog does not block the windows 0, 3 and 4; launcher and engines look only at it, so a press on a window above them starts an app too |
| 2848 | of two packets of the mouse in a frame the press of the first is lost, and a release and press continue the old drag; of several keys in a frame the last one wins |

### Disks

| where | what |
| --- | --- |
| cosmos_ahci.cpp:308 | a call given up on a slow drive leaves its command issued: the next call of the port takes the old one's end for its own and says yes with nothing written, "NOTEPAD - SAVED!" (kernel_main.cpp:4159; `MCAhciSlow.cfg`, `TrueMeansDone`) |
| kernel_main.cpp:3896 | REF scans with `drive_count = 0`: sticks are dropped |
| kernel.cpp:2601, 2929, 2942 | FORMAT, "MIT SCHUTZ", is locked by the file system in a drive's name; REF and the desktop rewrite the names without it (`MCDiskMgr32Format.cfg`, `FormatSparesFileSystems`) |
| kernel.cpp:2996 | BACK, DEL, a change of drive and OPEN leave `current_open_file` and `renaming_file_idx` as they were: SAVE and RENAME write to whatever has that index, on whichever drive is active |
| kernel.cpp | + FILE and + DIR in a folder change `file_table` alone; DEL in a folder works only for drives that were FORMATted since the start, and frees the entry with the row's index |
| kernel.cpp:1388 | ENTER shows a drive without reading its directory: the rows are those of the drive opened before, DEL and SAVE then act on the drive that is active |
| kernel.cpp:3355, 3416 | the click on DEL in a folder also opens the deleted row: a folder is entered, a file becomes the note's, and SAVE writes to its freed sector |
| kernel.cpp:4022 | SAVE AS does not look whether the drive is CFS; a crash between text and directory leaves a deleted entry that RECOVER brings back with the new text |
| kernel.cpp | OPEN of a drive without a file system keeps the table of the one before; a FAT32 root replaces the first 8 entries |
| kernel.cpp | COPY TO CFS takes port 0 for no target and copies one sector; OPEN and SCAN read four sectors into 512 bytes of stack |

### Network

| where | what |
| --- | --- |
| net.cpp:734 | the first NET resets the card and not `rx_cur_intel`: after frames were read the driver waits at the wrong descriptor, "INTEL: READY & LISTENING" (`MCE1000Rescan.cfg`, `Listening`) |
| net.cpp:195 | `net_raw` never looks whether the descriptor was sent: with the cable out the 32nd frame makes the ring look empty (`queued` is emptied, as after a reset: `TxInOrder` does not judge these frames) |
| net.cpp | DHCP takes any BOOTP reply, for whomever, and never answers an OFFER; `router_mac` is kept when the gateway changes |

### Linux

| where (src/hybrid-BM-LX) | what |
| --- | --- |
| linux_stubs.cpp:460 | curls of successive commands share a file and a buffer: one that comes late completes a later command with its data, or overwrites the buffer while sectors are saved; `SavedIsAsked` is about commands with one curl |
| linux_stubs.cpp | curl's exit code is not looked at: a download cut off by `--max-time` is "SAVED TO VIRTUAL HDD!" |
| linux_main.cpp:261 | both threads turn the button into `mouse_just_pressed`: a press can act in two frames |
| linux_main.cpp:273 | a quick second key, or one without a scan code, replaces the first before it is read |
| kernel_main_linux.cpp, linux_stubs.cpp | variables declared with other types than defined (`browser_download_complete`, `linux_mdown`) |

The passing runs leave out exactly what these would break: in `DiskMgr` PASTE, MKDIR and
+ FILE in the runs of `CopyAgrees` and `TreeRooted`, PASTE in those of `SavedIsSaved`,
INSTALL and read failures in `NothingOverwritten`, the notepad's SAVE on two drives;
`play_sound` of apps in the liveness run; faults in `NoGap`; late rescans in `E1000`;
slow drives in `Ahci`.

## 11. Not modelled

What has no module, and what the modules leave out:

| part | why |
| --- | --- |
| USB | the xHCI driver is behind `if (0)` in `usb_scan_and_mount` (cosmos_usb.cpp:404): no ring is ever set up. What runs is the UHCI stick: one polled descriptor at a time, to its end within one call |
| heap, page allocator, paging | no caller: `malloc` is reached only from `decode_image`, which nothing calls, and `alloc_page`, `map_virtual_to_physical` and `create_process_space` from nowhere |
| block store and TBA ring | filled by OS1's loop alone, thrown away by `tba_flush_to_disk` because `get_active_ahci_port` never returns a port: `ahci_panzer_scan_tick` has no caller |
| `fs_save_file`, `fs_create_folder`, `fs_format_drive`, `fs_flush`, `cosmos_cfs.cpp`, `ahci_save_file_complete`, `fat32_load_file`, `iso9660_load_file`, `ahci_read_cdrom`, `ahci_panzer_scan`, `cosmos_kernel.cpp` | no caller, or not built |
| readers of FAT32, NTFS, ISO 9660 and exFAT, ELF segments, pictures | one pass over a buffer, without state behind it; what depends on them - flags, tables, the code they start - is modelled |
| PCI scan, MMIO mapping, HDA, boot code | sequences of register accesses before anything runs beside them |
| RTL8139, UDP, ICMP, IPv6 | OS1 only, or a packet that is built and sent |
| drawing, texts, the rules of the games | no state that other parts share; the keys and presses they take are in `Desktop` |
| OS1's windows, network commands and sticks | an earlier generation of what `Desktop`, `E1000` and `Download` have of OS2; sticks are written through the AHCI port of their address |
| the handlers of `kernel_main_linux.cpp` and `kernel_linux.cpp` | copies of the ones modelled from `kernel_main.cpp` and `kernel.cpp` |
| the audio callback, the files behind the virtual drive, the PE loader of the Linux build | the first races the kernel thread over samples only; the others are straight calls of the host |
| `preprocessed.cpp`, `stb_image.h`, fonts | generated or third-party, together more than a third of all lines |

Of the modelled parts: names, dates and the wording of messages; the text of the
console; window geometry; acknowledgements of TCP; OS1's tabs; a mount that finds a
link down; the late DMA of a read that timed out, which belongs to the slow drives
that `Ahci`'s theorems exclude.

Model-checked only: all liveness (`NoStarvation`, `SleepEnds`, `Delivered`, `OnLine`,
`GetEnds`), because fairness is beyond the proof system's reach; and `SavedIsSaved` with
INSTALL. Every other property of the passing runs is a theorem. What is left to prove
is INSTALL: on one drive that was opened since the start, the copy it takes its sector
from has every package, and the invariant has to say so.
