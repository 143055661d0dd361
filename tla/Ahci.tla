-------------------------------- MODULE Ahci --------------------------------
(***************************************************************************)
(* The AHCI driver of cosmos_ahci.cpp with the host adapter and the drives *)
(* it talks to.  Every port has one command table, which every call fills  *)
(* in anew; the driver sets bit 0 of the port's PxCI, polls it a million   *)
(* times and looks at the error bit of PxIS, which only a mount clears.    *)
(*                                                                         *)
(* The program makes one call at a time.  The adapter fetches the command  *)
(* and moves the data on its own: the command when it starts, the list of  *)
(* buffers (PRDT) when it moves the data.                                  *)
(***************************************************************************)
EXTENDS Integers

CONSTANTS Ports,      \* ports with a drive
          LastSector, LastBuffer, Values,
          MaxCount,   \* sectors of a call (bound)
          Slow        \* drives that may need longer than the driver polls

ASSUME AhciAssumption ==
  /\ LastSector \in Nat /\ LastBuffer \in Nat /\ MaxCount \in Nat \ {0}
  /\ Values # {} /\ Slow \subseteq Ports

Sectors == 0 .. LastSector
Buffers == 0 .. LastBuffer
Calls ==
  {c \in [op : {"read", "write"}, port : Ports, lba : Sectors, buf : Buffers, count : 1 .. MaxCount] :
     c.lba + c.count - 1 \in Sectors /\ c.buf + c.count - 1 \in Buffers}
NoCall == [op |-> "none", port |-> 0]
Identify(p) == [op |-> "identify", port |-> p]
Identifies == {Identify(p) : p \in Ports}

VARIABLES
  disk, ram,
  table,     \* the command table of a port, PRDT included
  ci,        \* PxCI, bit 0: the command is issued
  tfes,      \* PxIS, bit 30: a command of this port failed
  stopped,   \* the adapter waits for PxCMD.ST to be cleared
  fis,       \* the command that the drive works on
  call, pc,  \* the call that is made
  said       \* what the last call returned

device == <<disk, ram, table, ci, tfes, stopped, fis>>
vars == <<device, call, pc, said>>

Init ==
  /\ disk \in [Ports -> [Sectors -> Values]] /\ ram \in [Buffers -> Values]
  /\ table = [p \in Ports |-> Identify(p)]
  /\ ci = [p \in Ports |-> FALSE]
  /\ tfes = [p \in Ports |-> FALSE] /\ stopped = [p \in Ports |-> FALSE]
  /\ fis = [p \in Ports |-> NoCall]
  /\ call = NoCall /\ pc = "idle" /\ said = FALSE

made == pc = "poll" /\ ~ci[call.port] /\ ~tfes[call.port]
failed == {p \in Ports : tfes[p]}
Store == INSTANCE SectorStore

-----------------------------------------------------------------------------
(* The driver.                                                             *)

\* disk_read_auto, disk_write_auto, fs_read_sectors and the handlers call
\* ahci_read_sectors and ahci_write_sectors, which fill in the table
\* (faulty variant: all ports share the first one's table)
begin_shared(c) ==
  /\ pc = "idle"
  /\ call' = c /\ pc' = "issue"
  /\ table' = [p \in Ports |-> c]
  /\ UNCHANGED <<disk, ram, ci, tfes, stopped, fis, said>>
begin(c) ==
  /\ pc = "idle"
  /\ call' = c /\ pc' = "issue"
  /\ table' = [table EXCEPT ![c.port] = c]
  /\ UNCHANGED <<disk, ram, ci, tfes, stopped, fis, said>>

\* PxCI; setting a bit that is set does nothing
\* (faulty variant: the registers written before it include PxIS)
issue_clearing ==
  /\ pc = "issue"
  /\ ci' = [ci EXCEPT ![call.port] = TRUE] /\ tfes' = [tfes EXCEPT ![call.port] = FALSE]
  /\ pc' = "poll"
  /\ UNCHANGED <<disk, ram, table, stopped, fis, call, said>>
issue ==
  /\ pc = "issue"
  /\ ci' = [ci EXCEPT ![call.port] = TRUE]
  /\ pc' = "poll"
  /\ UNCHANGED <<disk, ram, table, tfes, stopped, fis, call, said>>

Return(yes) ==
  /\ said' = yes
  /\ call' = NoCall /\ pc' = "idle"
  /\ UNCHANGED device

answer ==
  /\ pc = "poll" /\ ~ci[call.port]
  /\ Return(~tfes[call.port])

\* the counter reaches 0; the command stays issued
timeout ==
  /\ pc = "poll" /\ ci[call.port]
  /\ stopped[call.port] \/ call.port \in Slow
  /\ Return(FALSE)

\* the callers fill their buffers
fill(b, v) ==
  /\ pc = "idle"
  /\ ram' = [ram EXCEPT ![b] = v]
  /\ UNCHANGED <<disk, table, ci, tfes, stopped, fis, call, pc, said>>

\* ahci_mount_drive: every port is stopped, reset and started, its errors
\* are cleared, and its drive is asked for its name, which may fail.  A slow
\* drive answers when the driver has stopped polling.
ahci_mount_drive ==
  /\ pc = "idle"
  /\ table' = [p \in Ports |-> Identify(p)]
  /\ tfes' \in [Ports -> BOOLEAN]
  /\ stopped' \in {s \in [Ports -> BOOLEAN] : \A p \in Ports : s[p] => tfes'[p]}
  /\ ci' \in {i \in [Ports -> BOOLEAN] :
                \A p \in Ports : IF tfes'[p] THEN i[p] = stopped'[p] ELSE i[p] => p \in Slow}
  /\ fis' = [p \in Ports |-> NoCall]
  /\ UNCHANGED <<disk, ram, call, pc, said>>

-----------------------------------------------------------------------------
(* The adapter and the drives.                                             *)

fetch(p) ==
  /\ ci[p] /\ ~stopped[p] /\ fis[p] = NoCall
  /\ fis' = [fis EXCEPT ![p] = table[p]]
  /\ UNCHANGED <<disk, ram, table, ci, tfes, stopped, call, pc, said>>

\* n sectors of the drive's command, to or from the buffers of the table
Moves(p, n) ==
  IF fis[p].op = "identify" \/ table[p].op = "identify"
  THEN UNCHANGED <<disk, ram>>
  ELSE /\ disk' = Store!DiskAfter(fis[p].op, p, fis[p].lba, table[p].buf, n)
       /\ ram' = Store!RamAfter(fis[p].op, p, fis[p].lba, table[p].buf, n)
Count(p) ==
  IF fis[p].op = "identify" \/ table[p].op = "identify" THEN 0
  ELSE IF fis[p].count <= table[p].count THEN fis[p].count ELSE table[p].count

complete(p) ==
  /\ fis[p] # NoCall
  /\ Moves(p, Count(p))
  /\ ci' = [ci EXCEPT ![p] = FALSE]
  /\ fis' = [fis EXCEPT ![p] = NoCall]
  /\ UNCHANGED <<table, tfes, stopped, call, pc, said>>

\* a task file error after n sectors: the adapter stops with the command
\* still issued, or drops it and goes on
fail(p) ==
  /\ fis[p] # NoCall
  /\ \E n \in 0 .. Count(p) : Moves(p, n)
  /\ tfes' = [tfes EXCEPT ![p] = TRUE]
  /\ \E stop \in BOOLEAN :
       /\ ci' = [ci EXCEPT ![p] = stop]
       /\ stopped' = [stopped EXCEPT ![p] = stop]
  /\ fis' = [fis EXCEPT ![p] = NoCall]
  /\ UNCHANGED <<table, call, pc, said>>

-----------------------------------------------------------------------------
Next ==
  \/ \E c \in Calls : begin(c)
  \/ issue \/ answer \/ timeout \/ ahci_mount_drive
  \/ \E b \in Buffers, v \in Values : fill(b, v)
  \/ \E p \in Ports : fetch(p) \/ complete(p) \/ fail(p)

Spec == Init /\ [][Next]_vars

-----------------------------------------------------------------------------
(* Properties.                                                             *)

\* The shape of the state.
TypeOK ==
  /\ disk \in [Ports -> [Sectors -> Values]] /\ ram \in [Buffers -> Values]
  /\ table \in [Ports -> Calls \cup Identifies] /\ \A p \in Ports : table[p].port = p
  /\ fis \in [Ports -> Calls \cup Identifies \cup {NoCall}]
  /\ ci \in [Ports -> BOOLEAN] /\ tfes \in [Ports -> BOOLEAN] /\ stopped \in [Ports -> BOOLEAN]
  /\ call \in Calls \cup {NoCall} /\ pc \in {"idle", "issue", "poll"}
  /\ said \in BOOLEAN

\* The driver implements the store: yes is said after exactly this transfer,
\* nothing is transferred outside of a call, and after an error every call
\* of the port says no until the drives are mounted, although the adapter may
\* go on and nobody looks at the error of an earlier call.
StoreSpec == Store!Spec

\* "NOTEPAD - SAVED!" and every other caller: what a call that returned true
\* was to write is on the disk, what it was to read is in memory.
TrueMeansDone ==
  [][pc = "poll" /\ pc' = "idle" /\ said' =>
       \A k \in 0 .. call.count - 1 :
         disk[call.port][call.lba + k] = ram[call.buf + k]]_vars
=============================================================================
