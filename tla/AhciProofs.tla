----------------------------- MODULE AhciProofs -----------------------------
(***************************************************************************)
(* Theorems about Ahci: while no drive is slower than the driver's         *)
(* polling, the driver with the adapter and the drives implements          *)
(* SectorStore, for any number of ports and sectors and calls of any       *)
(* length, whatever fails and whenever drives are mounted.                 *)
(***************************************************************************)
EXTENDS Ahci, TLAPS

\* A command that the adapter can see is the one of the call being made: at
\* most one port has one, and its table is the call.
OneCommand ==
  /\ pc = "idle" <=> call = NoCall
  /\ pc # "idle" => table[call.port] = call
  /\ \A p \in Ports :
       /\ stopped[p] => tfes[p]
       /\ ci[p] /\ ~stopped[p] => pc = "poll" /\ call.port = p
       /\ fis[p] # NoCall => ci[p] /\ ~stopped[p] /\ fis[p] = call
IInv == TypeOK /\ OneCommand

\* No call is mistaken for an IDENTIFY or for none.
LEMMA CallsDiffer ==
  /\ \A c \in Calls : c # NoCall /\ c.port \in Ports /\ c.op # "identify"
  /\ \A c \in Identifies : c # NoCall /\ c.op = "identify"
<1>1. ASSUME NEW c \in Calls PROVE c # NoCall /\ c.port \in Ports /\ c.op # "identify"
  <2>1. c.op \in {"read", "write"} /\ c.port \in Ports
    BY DEF Calls
  <2> QED
    BY <2>1 DEF NoCall
<1>2. ASSUME NEW c \in Identifies PROVE c # NoCall /\ c.op = "identify"
  <2>1. c.op = "identify"
    BY DEF Identifies, Identify
  <2> QED
    BY <2>1 DEF NoCall
<1> QED
  BY <1>1, <1>2

\* The driver starts with nothing issued on any port.
LEMMA InitIInv == Init => IInv
<1> SUFFICES ASSUME Init PROVE IInv
  OBVIOUS
<1>1. \A p \in Ports : Identify(p) \in Identifies /\ Identify(p).port = p
  BY DEF Identifies, Identify
<1>2. TypeOK
  BY <1>1 DEF Init, TypeOK
<1>3. OneCommand
  BY DEF Init, OneCommand
<1> QED
  BY <1>2, <1>3 DEF IInv

\* What the adapter moves when it works on the call.
LEMMA MovesCall ==
  ASSUME IInv, NEW p \in Ports, fis[p] # NoCall
  PROVE  /\ fis[p] = call /\ table[p] = call /\ call.port = p /\ pc = "poll" /\ call \in Calls
         /\ Count(p) = call.count
         /\ \A n : Moves(p, n) => Store!Move(n)
<1>1. fis[p] = call /\ call.port = p /\ pc = "poll" /\ call \in Calls
  BY DEF IInv, OneCommand, TypeOK
<1>2. table[p] = call
  BY <1>1 DEF IInv, OneCommand
<1>3. call.op # "identify" /\ call.count \in Int
  BY <1>1, AhciAssumption, CallsDiffer DEF Calls
<1>4. Count(p) = call.count
  BY <1>1, <1>2, <1>3 DEF Count
<1>5. ASSUME NEW n, Moves(p, n) PROVE Store!Move(n)
  BY <1>1, <1>2, <1>3, <1>5 DEF Moves, Store!Move
<1> QED
  BY <1>1, <1>2, <1>4, <1>5

\* Memory and disks keep their types.
LEMMA MoveTypes ==
  ASSUME IInv, NEW n, call \in Calls, Store!Move(n), n \in 0 .. call.count
  PROVE  disk' \in [Ports -> [Sectors -> Values]] /\ ram' \in [Buffers -> Values]
<1>1. /\ disk \in [Ports -> [Sectors -> Values]] /\ ram \in [Buffers -> Values]
      /\ call.port \in Ports
      /\ call.lba \in Sectors /\ call.buf \in Buffers /\ call.count \in 1 .. MaxCount
      /\ call.lba + call.count - 1 \in Sectors /\ call.buf + call.count - 1 \in Buffers
  BY DEF IInv, TypeOK, Calls
<1>6. /\ call.lba \in Int /\ call.buf \in Int /\ call.count \in Int /\ n \in Int
      /\ 0 <= call.lba /\ 0 <= call.buf /\ n <= call.count
      /\ call.lba + call.count - 1 <= LastSector /\ call.buf + call.count - 1 <= LastBuffer
  BY <1>1, AhciAssumption DEF Sectors, Buffers
<1>2. ASSUME NEW l \in Sectors, l \in call.lba .. call.lba + n - 1
      PROVE  call.buf + (l - call.lba) \in Buffers
  BY <1>6, <1>2, AhciAssumption DEF Sectors, Buffers
<1>3. ASSUME NEW b \in Buffers, b \in call.buf .. call.buf + n - 1
      PROVE  call.lba + (b - call.buf) \in Sectors
  BY <1>6, <1>3, AhciAssumption DEF Sectors, Buffers
<1>4. disk' \in [Ports -> [Sectors -> Values]]
  <2> DEFINE new == [l \in Sectors |-> IF l \in call.lba .. call.lba + n - 1
                       THEN ram[call.buf + (l - call.lba)] ELSE disk[call.port][l]]
  <2>1. new \in [Sectors -> Values]
    BY <1>1, <1>2
  <2>2. disk' = disk \/ disk' = [disk EXCEPT ![call.port] = new]
    BY DEF Store!Move, Store!DiskAfter
  <2> HIDE DEF new
  <2> QED
    BY <1>1, <2>1, <2>2
<1>5. ram' \in [Buffers -> Values]
  <2> DEFINE new == [b \in Buffers |-> IF b \in call.buf .. call.buf + n - 1
                       THEN disk[call.port][call.lba + (b - call.buf)] ELSE ram[b]]
  <2>1. new \in [Buffers -> Values]
    BY <1>1, <1>3
  <2>2. ram' = ram \/ ram' = new
    BY DEF Store!Move, Store!RamAfter
  <2> HIDE DEF new
  <2> QED
    BY <1>1, <2>1, <2>2
<1> QED
  BY <1>4, <1>5

\* Every step keeps the invariant, if no drive is slow.
LEMMA StepIInv == Slow = {} /\ IInv /\ [Next]_vars => IInv'
<1> SUFFICES ASSUME Slow = {}, IInv, [Next]_vars PROVE IInv'
  OBVIOUS
<1> USE DEF device
<1>a. TypeOK /\ OneCommand
  BY DEF IInv
<1>1. ASSUME NEW c \in Calls, begin(c) PROVE IInv'
  <2>1. c # NoCall /\ c.port \in Ports
    BY CallsDiffer
  <2>2. TypeOK'
    BY <1>1, <1>a, <2>1 DEF begin, TypeOK
  <2>3. OneCommand'
    BY <1>1, <1>a, <2>1 DEF begin, TypeOK, OneCommand
  <2> QED
    BY <2>2, <2>3 DEF IInv
<1>2. CASE issue
  <2>1. call \in Calls /\ call.port \in Ports
    BY <1>2, <1>a, CallsDiffer DEF issue, TypeOK, OneCommand
  <2>2. TypeOK'
    BY <1>2, <1>a, <2>1 DEF issue, TypeOK
  <2>3. OneCommand'
    BY <1>2, <1>a, <2>1 DEF issue, TypeOK, OneCommand
  <2> QED
    BY <2>2, <2>3 DEF IInv
<1>3. CASE answer \/ timeout
  <2>1. call \in Calls /\ call.port \in Ports /\ ~(ci[call.port] /\ ~stopped[call.port])
    BY <1>3, <1>a, CallsDiffer DEF answer, timeout, TypeOK, OneCommand
  <2>2. pc' = "idle" /\ call' = NoCall /\ said' \in BOOLEAN /\ UNCHANGED device
    BY <1>3, <1>a, <2>1 DEF answer, timeout, Return, TypeOK
  <2>3. TypeOK'
    BY <1>a, <2>2 DEF TypeOK
  <2>4. OneCommand'
    BY <1>a, <2>1, <2>2 DEF OneCommand
  <2> QED
    BY <2>3, <2>4 DEF IInv
<1>4. CASE ahci_mount_drive
  <2>1. \A p \in Ports : Identify(p) \in Identifies /\ Identify(p).port = p
    BY DEF Identifies, Identify
  <2>2. TypeOK'
    BY <1>4, <1>a, <2>1 DEF ahci_mount_drive, TypeOK
  <2>3. OneCommand'
    BY <1>4, <1>a DEF ahci_mount_drive, OneCommand
  <2> QED
    BY <2>2, <2>3 DEF IInv
<1>5. ASSUME NEW b \in Buffers, NEW v \in Values, fill(b, v) PROVE IInv'
  BY <1>5, <1>a DEF fill, IInv, TypeOK, OneCommand
<1>6. ASSUME NEW p \in Ports, fetch(p) PROVE IInv'
  <2>1. pc = "poll" /\ call.port = p /\ table[p] = call
    BY <1>6, <1>a DEF fetch, OneCommand
  <2>2. TypeOK'
    BY <1>6, <1>a DEF fetch, TypeOK
  <2>3. OneCommand'
    BY <1>6, <1>a, <2>1 DEF fetch, TypeOK, OneCommand
  <2> QED
    BY <2>2, <2>3 DEF IInv
<1>7. ASSUME NEW p \in Ports, complete(p) PROVE IInv'
  <2>1. call \in Calls /\ Store!Move(call.count) /\ call.count \in 0 .. call.count
    BY <1>7, MovesCall, AhciAssumption DEF complete, Calls
  <2>2. disk' \in [Ports -> [Sectors -> Values]] /\ ram' \in [Buffers -> Values]
    BY <2>1, MoveTypes
  <2>3. TypeOK'
    BY <1>7, <1>a, <2>2 DEF complete, TypeOK
  <2>4. OneCommand'
    BY <1>7, <1>a DEF complete, TypeOK, OneCommand
  <2> QED
    BY <2>3, <2>4 DEF IInv
<1>8. ASSUME NEW p \in Ports, fail(p) PROVE IInv'
  <2>1. call \in Calls /\ call.port = p /\ pc = "poll" /\ Count(p) = call.count
    BY <1>8, MovesCall DEF fail
  <2>2. PICK n \in 0 .. call.count : Store!Move(n)
    BY <1>8, <2>1, MovesCall DEF fail
  <2>3. disk' \in [Ports -> [Sectors -> Values]] /\ ram' \in [Buffers -> Values]
    BY <2>1, <2>2, MoveTypes
  <2>4. TypeOK'
    BY <1>8, <1>a, <2>3 DEF fail, TypeOK
  <2>5. OneCommand'
    BY <1>8, <1>a, <2>1 DEF fail, TypeOK, OneCommand
  <2> QED
    BY <2>4, <2>5 DEF IInv
<1>9. CASE UNCHANGED vars
  BY <1>9, <1>a DEF vars, IInv, TypeOK, OneCommand
<1> QED
  BY <1>1, <1>2, <1>3, <1>4, <1>5, <1>6, <1>7, <1>8, <1>9 DEF Next

-----------------------------------------------------------------------------
(* The refinement.                                                         *)

\* The store's view of a port changes with the error bit and the end of a command only.
LEMMA Same ==
  /\ tfes' = tfes => failed' = failed
  /\ ~made /\ ~made' => made' = made
<1>1. tfes' = tfes => failed' = failed
  BY DEF failed
<1>2. ~made /\ ~made' => made' = made
  BY Zenon DEF made
<1> QED
  BY <1>1, <1>2

\* Every step of driver, adapter and drives is a step of the store.
LEMMA StepStore == Slow = {} /\ IInv /\ IInv' /\ [Next]_vars => [Store!Next]_(Store!vars)
<1> SUFFICES ASSUME Slow = {}, IInv, IInv', [Next]_vars PROVE [Store!Next]_(Store!vars)
  OBVIOUS
<1> USE DEF device
<1>a. TypeOK /\ OneCommand
  BY DEF IInv
<1>1. ASSUME NEW c \in Calls, begin(c) PROVE Store!Begin(c)
  <2>1. call = NoCall /\ ~made /\ ~made'
    BY <1>1, <1>a DEF begin, OneCommand, made
  <2> QED
    BY <1>1, <2>1, Same DEF begin, Store!Begin
<1>2. CASE issue
  <2>1. call \in Calls /\ call.port \in Ports
    BY <1>2, <1>a, CallsDiffer DEF issue, TypeOK, OneCommand
  <2>2. ~made /\ ~made'
    BY <1>2, <1>a, <2>1 DEF issue, TypeOK, made
  <2> QED
    BY <1>2, <2>2, Same DEF issue, Store!vars
<1>3. CASE answer
  <2>1. call \in Calls /\ call # NoCall /\ call.port \in Ports
    BY <1>3, <1>a, CallsDiffer DEF answer, TypeOK, OneCommand
  <2>2. ~made' /\ (made <=> ~tfes[call.port])
    BY <1>3 DEF answer, Return, made
  <2>3. CASE tfes[call.port]
    <3>1. Store!Answer(FALSE)
      BY <1>3, <2>1, <2>2, <2>3, Same DEF answer, Return, Store!Answer, failed
    <3> QED
      BY <3>1, Zenon DEF Store!Next
  <2>4. CASE ~tfes[call.port]
    <3>1. Store!Answer(TRUE)
      BY <1>3, <2>1, <2>2, <2>4, Same DEF answer, Return, Store!Answer
    <3> QED
      BY <3>1, Zenon DEF Store!Next
  <2> QED
    BY <2>3, <2>4
<1>4. CASE timeout
  <2>1. call # NoCall /\ call.port \in Ports /\ tfes[call.port] /\ ~made'
    BY <1>4, <1>a, CallsDiffer DEF timeout, Return, TypeOK, OneCommand, made
  <2>2. Store!Answer(FALSE)
    BY <1>4, <2>1, Same DEF timeout, Return, Store!Answer, failed
  <2> QED
    BY <2>2, Zenon DEF Store!Next
<1>5. CASE ahci_mount_drive
  <2>1. call = NoCall /\ ~made /\ ~made'
    BY <1>5, <1>a DEF ahci_mount_drive, OneCommand, made
  <2> QED
    <3>1. failed' \in SUBSET Ports
      BY DEF failed
    <3>2. Store!Mount
      BY <1>5, <2>1, <3>1, Same DEF ahci_mount_drive, Store!Mount
    <3> QED
      BY <3>2 DEF Store!Next
<1>6. ASSUME NEW b \in Buffers, NEW v \in Values, fill(b, v) PROVE Store!Fill(b, v)
  <2>1. call = NoCall /\ ~made /\ ~made'
    BY <1>6, <1>a DEF fill, OneCommand, made
  <2> QED
    BY <1>6, <2>1, Same DEF fill, Store!Fill
<1>7. ASSUME NEW p \in Ports, fetch(p) PROVE UNCHANGED Store!vars
  BY <1>7, Same DEF fetch, Store!vars, made
<1>8. ASSUME NEW p \in Ports, complete(p) PROVE Store!Next
  <2>1. call \in Calls /\ call # NoCall /\ call.port = p /\ pc = "poll" /\ ci[p]
    BY <1>8, <1>a, MovesCall, CallsDiffer DEF complete, OneCommand
  <2>2. Store!Move(call.count) /\ call.count \in 0 .. call.count
    BY <1>8, <2>1, MovesCall, AhciAssumption DEF complete, Calls
  <2>3. ~made /\ (made' <=> ~tfes[p])
    BY <1>8, <1>a, <2>1 DEF complete, TypeOK, made
  <2>4. CASE ~tfes[p]
    <3>1. Store!Transfer
      BY <1>8, <2>1, <2>2, <2>3, <2>4, Same DEF complete, Store!Transfer, failed
    <3> QED
      BY <3>1 DEF Store!Next
  <2>5. CASE tfes[p]
    <3>2. failed = failed \cup {p}
      BY <2>5 DEF failed
    <3>1. Store!Fail(call.count)
      BY <1>8, <2>1, <2>2, <2>3, <2>5, <3>2, Same DEF complete, Store!Fail
    <3>3. \E n \in 0 .. call.count : Store!Fail(n)
      BY <2>2, <3>1
    <3> QED
      BY <2>1, <3>3 DEF Store!Next
  <2> QED
    BY <2>4, <2>5
<1>9. ASSUME NEW p \in Ports, fail(p) PROVE Store!Next
  <2>1. /\ call \in Calls /\ call # NoCall /\ call.port = p /\ pc = "poll" /\ ci[p]
        /\ Count(p) = call.count
    BY <1>9, <1>a, MovesCall, CallsDiffer DEF fail, OneCommand
  <2>2. PICK n \in 0 .. call.count : Store!Move(n)
    BY <1>9, <2>1, MovesCall DEF fail
  <2>3. ~made /\ ~made'
    BY <1>9, <1>a, <2>1 DEF fail, TypeOK, made
  <2>4. {q \in Ports : tfes'[q]} = {q \in Ports : tfes[q]} \cup {p}
    BY <1>9, <1>a DEF fail, TypeOK
  <2>6. failed' = failed \cup {p}
    BY <2>4 DEF failed
  <2>5. Store!Fail(n)
    BY <1>9, <2>1, <2>2, <2>3, <2>6, Same DEF fail, Store!Fail
  <2> QED
    BY <2>1, <2>5 DEF Store!Next
<1>10. CASE UNCHANGED vars
  BY <1>10, Same DEF vars, Store!vars, made
<1> QED
  BY <1>1, <1>2, <1>3, <1>4, <1>5, <1>6, <1>7, <1>8, <1>9, <1>10 DEF Next, Store!Next

\* The types, and that at most the call's own command is visible to the
\* adapter.
THEOREM AhciTypes == Slow = {} => (Spec => []TypeOK)
<1> SUFFICES ASSUME Slow = {} PROVE Spec => []TypeOK
  OBVIOUS
<1>1. Init => IInv
  BY InitIInv
<1>2. IInv /\ [Next]_vars => IInv'
  BY StepIInv
<1>3. IInv => TypeOK
  BY DEF IInv
<1> QED
  BY <1>1, <1>2, <1>3, PTL DEF Spec

\* The driver implements the store: a yes is one transfer, exactly the one
\* that was asked for; an error is remembered until the next mount.
THEOREM DriverIsStore == Slow = {} => (Spec => StoreSpec)
<1> SUFFICES ASSUME Slow = {} PROVE Spec => StoreSpec
  OBVIOUS
<1>1. Init => IInv
  BY InitIInv
<1>2. IInv /\ [Next]_vars => IInv'
  BY StepIInv
<1>3. Init => Store!Init
  <2>1. Init => failed = {}
    BY DEF Init, failed
  <2>2. Init => made = FALSE
    BY DEF Init, made
  <2> QED
    BY <2>1, <2>2 DEF Init, Store!Init
<1>4. IInv /\ IInv' /\ [Next]_vars => [Store!Next]_(Store!vars)
  BY StepStore
<1> QED
  BY <1>1, <1>2, <1>3, <1>4, PTL DEF Spec, StoreSpec, Store!Spec
=============================================================================
