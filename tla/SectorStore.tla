----------------------------- MODULE SectorStore -----------------------------
(***************************************************************************)
(* What the disk manager, the loaders and the notepad take a disk for: a   *)
(* call moves sectors between a disk and memory and says whether it did.   *)
(* Yes means that exactly this transfer was made, once; no means that any  *)
(* first part of it may have been.  A disk that failed says no until it is *)
(* mounted again.  Ahci implements this specification.                     *)
(***************************************************************************)
EXTENDS Naturals

CONSTANTS Ports, Sectors, Buffers, Values, Calls, NoCall

VARIABLES disk,      \* the sectors of every drive
          ram,       \* sectors of memory
          failed,    \* drives that failed since they were mounted
          call,      \* the call that is being made
          made       \* its transfer is made

vars == <<disk, ram, failed, call, made>>

Init ==
  /\ disk \in [Ports -> [Sectors -> Values]] /\ ram \in [Buffers -> Values]
  /\ failed = {} /\ call = NoCall /\ made = FALSE

\* a transfer of n sectors
DiskAfter(op, p, lba, buf, n) ==
  IF op = "write"
  THEN [disk EXCEPT ![p] = [l \in Sectors |->
          IF l \in lba .. lba + n - 1 THEN ram[buf + (l - lba)] ELSE disk[p][l]]]
  ELSE disk
RamAfter(op, p, lba, buf, n) ==
  IF op = "read"
  THEN [b \in Buffers |->
          IF b \in buf .. buf + n - 1 THEN disk[p][lba + (b - buf)] ELSE ram[b]]
  ELSE ram
Move(n) ==
  /\ disk' = DiskAfter(call.op, call.port, call.lba, call.buf, n)
  /\ ram' = RamAfter(call.op, call.port, call.lba, call.buf, n)

Begin(c) ==
  /\ call = NoCall
  /\ call' = c
  /\ UNCHANGED <<disk, ram, failed, made>>

Transfer ==
  /\ call # NoCall /\ ~made /\ call.port \notin failed
  /\ Move(call.count)
  /\ made' = TRUE
  /\ UNCHANGED <<failed, call>>

Fail(n) ==
  /\ call # NoCall /\ ~made
  /\ Move(n)
  /\ failed' = failed \cup {call.port}
  /\ UNCHANGED <<call, made>>

\* the caller goes on
Answer(yes) ==
  /\ call # NoCall
  /\ IF yes THEN made ELSE call.port \in failed
  /\ call' = NoCall /\ made' = FALSE
  /\ UNCHANGED <<disk, ram, failed>>

\* between two calls the program uses its memory, and drives are mounted
Fill(b, v) ==
  /\ call = NoCall
  /\ ram' = [ram EXCEPT ![b] = v]
  /\ UNCHANGED <<disk, failed, call, made>>
Mount ==
  /\ call = NoCall
  /\ failed' \in SUBSET Ports
  /\ UNCHANGED <<disk, ram, call, made>>

Next ==
  \/ \E c \in Calls : Begin(c) \/ (\E n \in 0 .. c.count : call = c /\ Fail(n))
  \/ Transfer \/ Mount
  \/ \E yes \in BOOLEAN : Answer(yes)
  \/ \E b \in Buffers, v \in Values : Fill(b, v)

Spec == Init /\ [][Next]_vars
=============================================================================
