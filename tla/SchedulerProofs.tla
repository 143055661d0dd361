--------------------------- MODULE SchedulerProofs ---------------------------
(***************************************************************************)
(* Theorems about Scheduler, for every number of slots, every set of       *)
(* system calls and every bound.  Inv is the inductive invariant: the      *)
(* safety invariants the runs check, and what they need to be inductive.   *)
(***************************************************************************)
EXTENDS Scheduler, FiniteSetTheorems, WellFoundedInduction, TLAPS

\* The first slot the scan of create_task or schedule stops at is one of the
\* slots it looks for, and the scan passes over none of them.
LEMMA LeastIsMember ==
  ASSUME NEW S \in SUBSET Nat, S # {}
  PROVE  Least(S) \in S /\ \A n \in S : Least(S) <= n
<1> DEFINE Below == {0 .. k : k \in S}
<1>1. Below \subseteq FiniteSubsetsOf(Nat) /\ Below # {}
  <2> SUFFICES ASSUME NEW k \in S PROVE 0 .. k \in FiniteSubsetsOf(Nat)
    OBVIOUS
  <2> QED
    BY FS_Interval DEF FiniteSubsetsOf
<1>2. PICK B \in Below : \A C \in Below : <<C, B>> \notin StrictSubsetOrdering(Nat)
  BY <1>1, FS_StrictSubsetOrderingWellFounded, WFMin
<1>3. PICK m \in S : B = 0 .. m
  OBVIOUS
<1>4. ASSUME NEW n \in S PROVE m <= n
  <2>1. <<0 .. n, 0 .. m>> \notin StrictSubsetOrdering(Nat)
    BY <1>2, <1>3
  <2>2. CASE n < m
    <3>1. 0 .. n \subseteq 0 .. m /\ m \notin 0 .. n /\ m \in 0 .. m
      BY <2>2
    <3>2. 0 .. n \in SUBSET Nat /\ 0 .. m \in SUBSET Nat
      OBVIOUS
    <3> QED
      BY <2>1, <3>1, <3>2, Zenon DEF StrictSubsetOrdering
  <2> QED
    BY <2>2
<1> QED
  BY <1>4 DEF Least

-----------------------------------------------------------------------------
(* The inductive invariant.                                                *)

\* Slot 0 is the main loop: it is never paused or killed, no other task runs
\* the kernel's program, and only the kernel is ever at its two points.
KernelIsTask0 ==
  /\ tasks[0].active /\ ~tasks[0].paused
  /\ \A s \in Slots : tasks[s].active =>
       /\ Live[s].prog = "kernel" => s = 0
       /\ Live[s].pc \in {"load", "quiet"} => s = 0

\* The slots behind num_tasks are free: the fallback of create_task is dead.
TableEnd == \A s \in Slots : tasks[s].active => s < num_tasks

\* Spawn numbers are handed out once.
SpawnsCounted == \A s \in Slots : tasks[s].active => Live[s].spawn <= spawned

\* A load that was begun may create its task.
LoadMaySpawn ==
  Live[0].pc = "load" => spawned < MaxSpawns

Table == KernelIsTask0 /\ RunningIsRunnable /\ TableEnd /\ SpawnsCounted
           /\ ContextsDistinct
Load == LoadMaySpawn /\ LoadKeepsItsSlot
Speaker == NoOrphanTone /\ MutedIsSilent

Inv == TypeOK /\ Table /\ Load /\ Speaker

USE MaxTasksAssumption, MaxSleepAssumption, AppSectorsAssumption,
    MaxSpawnsAssumption

-----------------------------------------------------------------------------
(* Lemmas about the operators.                                             *)

\* schedule finds a task to run: the current one at worst.
LEMMA NextTaskIsRunnable ==
  ASSUME TypeOK, KernelIsTask0
  PROVE  NextTask(current_task) \in Runnable /\ Runnable \subseteq Slots
<1>1. Runnable \in SUBSET Nat /\ Runnable \subseteq Slots
  BY DEF TypeOK, Runnable, Slots
<1>2. 0 \in Runnable
  BY DEF TypeOK, KernelIsTask0, Runnable
<1> DEFINE after == {s \in Runnable : s > current_task}
<1>3. after \in SUBSET Nat /\ after \subseteq Runnable
  BY <1>1
<1>4. CASE after # {}
  BY <1>1, <1>3, <1>4, LeastIsMember DEF NextTask
<1>5. CASE after = {}
  BY <1>1, <1>2, <1>5, LeastIsMember DEF NextTask
<1> QED
  BY <1>1, <1>4, <1>5

\* create_task finds a slot that is free, and never slot 0.
LEMMA NewSlotIsFree ==
  ASSUME TypeOK, TableEnd, has_free_task_slot
  PROVE  NewSlot \in Free /\ Free # {}
<1>1. Free \in SUBSET Nat
  BY DEF Free, Slots
<1>2. Free # {}
  <2>1. CASE num_tasks < MaxTasks
    <3>1. num_tasks \in Slots \ {0} /\ ~(num_tasks < num_tasks)
      BY <2>1 DEF TypeOK, Slots
    <3> QED
      BY <3>1 DEF TableEnd, Free
  <2> QED
    BY <2>1 DEF has_free_task_slot
<1> QED
  BY <1>1, <1>2, LeastIsMember DEF NewSlot

\* A context switch moves contexts between the processor and the stacks and
\* changes none of them, except that a halted task will go on.
LEMMA SwitchKeepsContexts ==
  ASSUME TypeOK, KernelIsTask0, schedule, NEW s \in Slots
  PROVE  /\ Live'[s].spawn = Live[s].spawn
         /\ Live'[s].prog = Live[s].prog
         /\ Live'[s].pc = IF s = current_task /\ cpu.pc = "hlt" THEN "run"
                         ELSE Live[s].pc
<1> DEFINE stacks == [rsp EXCEPT ![current_task] = Saved]
<1>1. rsp' = stacks /\ cpu' = stacks[current_task']
  BY DEF schedule
<1>2. Live'[s] = stacks[s]
  BY <1>1, NextTaskIsRunnable DEF Live
<1>3. stacks[s] = IF s = current_task THEN Saved ELSE rsp[s]
  BY DEF TypeOK
<1> QED
  BY <1>2, <1>3 DEF Live, Saved, TypeOK, Contexts

-----------------------------------------------------------------------------
(* What the steps do to the table, by the three ways they touch it.        *)

\* A step of the running task that moves its own context along.
LEMMA OwnStepKeepsTable ==
  ASSUME TypeOK, Table,
         UNCHANGED <<tasks, rsp, current_task, num_tasks, spawned>>,
         cpu'.spawn = cpu.spawn, cpu'.prog = cpu.prog,
         cpu'.pc \in {"load", "quiet"} => current_task = 0
  PROVE  Table'
<1>1. \A s \in Slots : /\ Live'[s].spawn = Live[s].spawn
                       /\ Live'[s].prog = Live[s].prog
                       /\ s # current_task => Live'[s] = Live[s]
                       /\ s = current_task => Live'[s] = cpu' /\ Live[s] = cpu
  BY DEF Live
<1>2. KernelIsTask0'
  BY <1>1 DEF Table, KernelIsTask0
<1>3. SpawnsCounted'
  BY <1>1 DEF Table, SpawnsCounted
<1>4. ContextsDistinct'
  <2>1. 0 \in Slots
    BY DEF Slots
  <2> QED
    BY <1>1, <2>1 DEF Table, ContextsDistinct
<1> QED
  BY <1>2, <1>3, <1>4 DEF Table, RunningIsRunnable, TableEnd

\* The timer.
LEMMA ScheduleKeepsTable ==
  ASSUME TypeOK, Table, schedule
  PROVE  Table'
<1>1. tasks' = tasks /\ num_tasks' = num_tasks /\ spawned' = spawned
  BY DEF schedule
<1>2. KernelIsTask0'
  <2>1. \A s \in Slots : tasks[s].active =>
          /\ Live'[s].prog = "kernel" => s = 0
          /\ Live'[s].pc \in {"load", "quiet"} => s = 0
    BY SwitchKeepsContexts DEF Table, KernelIsTask0
  <2> QED
    BY <1>1, <2>1 DEF Table, KernelIsTask0
<1>3. RunningIsRunnable'
  <2>1. current_task' = NextTask(current_task)
    BY DEF schedule
  <2> QED
    BY <1>1, <2>1, NextTaskIsRunnable DEF Table, RunningIsRunnable, Runnable
<1>4. SpawnsCounted'
  BY <1>1, SwitchKeepsContexts DEF Table, SpawnsCounted
<1>5. ContextsDistinct'
  <2>1. 0 \in Slots
    BY DEF Slots
  <2> QED
    BY <1>1, <2>1, SwitchKeepsContexts DEF Table, ContextsDistinct
<1> QED
  BY <1>1, <1>2, <1>3, <1>4, <1>5 DEF Table, TableEnd

\* What a creation by slot 0 does: one free slot gets a new context, and every
\* other slot keeps its own.
LEMMA CreationEffect ==
  ASSUME TypeOK, TableEnd, NEW p \in Programs, create_task(p),
         has_free_task_slot, current_task = 0, UNCHANGED current_task,
         cpu'.spawn = cpu.spawn, cpu'.prog = cpu.prog
  PROVE  \E id \in Slots \ {0} :
           /\ ~tasks[id].active
           /\ tasks'[id].active /\ ~tasks'[id].paused
           /\ \A s \in Slots : s # id => tasks'[s] = tasks[s]
           /\ num_tasks' = IF id >= num_tasks THEN id + 1 ELSE num_tasks
           /\ spawned' = spawned + 1
           /\ Live'[id].spawn = spawned + 1
           /\ Live'[id].prog = p
           /\ Live'[id].pc = "run"
           /\ \A s \in Slots : s # id => /\ Live'[s].spawn = Live[s].spawn
                                         /\ Live'[s].prog = Live[s].prog
                                         /\ s # 0 => Live'[s] = Live[s]
<1> DEFINE id == NewSlot
<1>1. id \in Slots \ {0} /\ ~tasks[id].active
  BY NewSlotIsFree DEF Free
<1> HIDE DEF id
<1>2. /\ rsp' = [rsp EXCEPT ![id] = Fresh(p)]
      /\ tasks' = [tasks EXCEPT ![id] = Ready]
      /\ num_tasks' = IF id >= num_tasks THEN id + 1 ELSE num_tasks
      /\ spawned' = spawned + 1
  BY DEF create_task, id
<1>3. /\ \A s \in Slots : s # id => tasks'[s] = tasks[s]
      /\ tasks'[id].active /\ ~tasks'[id].paused
  BY <1>1, <1>2 DEF Ready, TypeOK
<1>4. \A s \in Slots : s # id => /\ Live'[s].spawn = Live[s].spawn
                                 /\ Live'[s].prog = Live[s].prog
                                 /\ s # 0 => Live'[s] = Live[s]
  BY <1>2 DEF Live, TypeOK
<1>5. Live'[id] = Fresh(p)
  BY <1>1, <1>2 DEF Live, TypeOK
<1>6. /\ Live'[id].spawn = spawned + 1
      /\ Live'[id].prog = p
      /\ Live'[id].pc = "run"
  BY <1>5 DEF Fresh
<1> QED
  BY <1>1, <1>2, <1>3, <1>4, <1>6

\* A creation by the kernel.
LEMMA CreationKeepsTable ==
  ASSUME TypeOK, Table, NEW p \in Programs \ {"kernel"}, create_task(p),
         current_task = 0, UNCHANGED current_task,
         cpu'.spawn = cpu.spawn, cpu'.prog = cpu.prog
  PROVE  Table'
<1>1. current_task = 0 /\ 0 \in Slots
  BY DEF Slots
<1>2. CASE ~has_free_task_slot
  <2>1. UNCHANGED <<tasks, rsp, current_task, num_tasks, spawned>>
    BY <1>2 DEF create_task
  <2> QED
    BY <2>1, OwnStepKeepsTable
<1>3. CASE has_free_task_slot
  <2>1. TableEnd /\ p \in Programs
    BY DEF Table
  <2>2. PICK id \in Slots \ {0} :
           /\ ~tasks[id].active
           /\ tasks'[id].active /\ ~tasks'[id].paused
           /\ \A s \in Slots : s # id => tasks'[s] = tasks[s]
           /\ num_tasks' = IF id >= num_tasks THEN id + 1 ELSE num_tasks
           /\ spawned' = spawned + 1
           /\ Live'[id].spawn = spawned + 1
           /\ Live'[id].prog = p
           /\ Live'[id].pc = "run"
           /\ \A s \in Slots : s # id => /\ Live'[s].spawn = Live[s].spawn
                                         /\ Live'[s].prog = Live[s].prog
                                         /\ s # 0 => Live'[s] = Live[s]
    BY <1>3, <2>1, CreationEffect
  <2>3. KernelIsTask0'
    BY <1>1, <2>2 DEF Table, KernelIsTask0
  <2>4. RunningIsRunnable'
    BY <1>1, <2>2 DEF Table, RunningIsRunnable
  <2>5. TableEnd'
    BY <2>2 DEF Table, TableEnd, Slots, TypeOK
  <2>6. \A s \in Slots : tasks[s].active => Live[s].spawn \in Nat /\ Live[s].spawn <= spawned
    BY DEF Table, SpawnsCounted, Live, TypeOK, Contexts, Spawns
  <2>7. SpawnsCounted'
    BY <2>2, <2>6 DEF SpawnsCounted, TypeOK
  <2>8. ContextsDistinct'
    <3>1. Live'[0].spawn = 0
      BY <1>1, <2>2 DEF Table, ContextsDistinct
    <3>2. ASSUME NEW s \in Slots, NEW t \in Slots, tasks'[s].active,
                 tasks'[t].active, s # t
          PROVE  Live'[s].spawn # Live'[t].spawn
      <4>1. CASE s # id /\ t # id
        BY <2>2, <3>2, <4>1 DEF Table, ContextsDistinct
      <4>2. CASE s = id \/ t = id
        BY <2>2, <2>6, <3>2, <4>2 DEF TypeOK
      <4> QED
        BY <4>1, <4>2
    <3> QED
      BY <3>1, <3>2 DEF ContextsDistinct
  <2> QED
    BY <2>3, <2>4, <2>5, <2>7, <2>8 DEF Table
<1> QED
  BY <1>2, <1>3

\* The task manager's pause and kill buttons.
LEMMA ButtonKeepsTable ==
  ASSUME TypeOK, Table, NEW t \in Slots, toggle_pause(t) \/ kill(t)
  PROVE  Table'
<1>1. current_task = 0 /\ 0 \in Slots /\ t # 0 /\ cpu.prog = "kernel"
  BY DEF TypeOK, Table, KernelIsTask0, RunningIsRunnable, Live, Slots,
         toggle_pause, kill, InLoop
<1>2. /\ UNCHANGED <<rsp, current_task, num_tasks, spawned>>
      /\ cpu'.spawn = cpu.spawn /\ cpu'.prog = cpu.prog
  BY DEF toggle_pause, kill, Goto, TypeOK, Contexts
<1>3. \A s \in Slots : /\ tasks'[s].active => tasks[s].active
                       /\ s # t => tasks'[s] = tasks[s]
  BY DEF toggle_pause, kill, TypeOK
<1>4. \A s \in Slots : /\ Live'[s].spawn = Live[s].spawn
                       /\ Live'[s].prog = Live[s].prog
                       /\ s # 0 => Live'[s] = Live[s]
  BY <1>1, <1>2 DEF Live
<1>5. KernelIsTask0'
  BY <1>1, <1>3, <1>4 DEF Table, KernelIsTask0
<1>6. RunningIsRunnable'
  BY <1>1, <1>2, <1>3 DEF Table, RunningIsRunnable
<1>7. TableEnd' /\ SpawnsCounted'
  BY <1>2, <1>3, <1>4 DEF Table, TableEnd, SpawnsCounted
<1>8. ContextsDistinct'
  BY <1>1, <1>3, <1>4 DEF Table, ContextsDistinct
<1> QED
  BY <1>5, <1>6, <1>7, <1>8 DEF Table

-----------------------------------------------------------------------------
(* The type invariant.                                                     *)

\* main starts with every variable of its type.
LEMMA InitType == Init => TypeOK
<1> SUFFICES ASSUME Init PROVE TypeOK
  OBVIOUS
<1>1. cpu \in Contexts
  BY DEF Init, Contexts, Spawns, Programs, Points
<1>2. rsp \in [Slots -> Contexts]
  <2>1. [spawn |-> 1, prog |-> "idle", pc |-> "run", ifl |-> TRUE] \in Contexts
    BY DEF Contexts, Spawns, Programs, Points
  <2> QED
    BY <1>1, <2>1 DEF Init
<1>3. tasks \in [Slots -> [active : BOOLEAN, paused : BOOLEAN]]
  BY DEF Ready, Unused, Init
<1>4. wake \in [Slots -> 0 .. MaxSleep]
  BY DEF Init
<1> QED
  <2>1. current_task \in Slots /\ num_tasks \in 1 .. MaxTasks
    BY DEF Init, Slots
  <2>2. tone \in Slots \cup {NoTone} /\ image \in Spawns \cup {NoImage}
    BY DEF Init
  <2>3. toRead \in 0 .. AppSectors /\ spawned \in 1 .. MaxSpawns
    BY DEF Init
  <2>4. sound_muted \in BOOLEAN /\ install \in BOOLEAN
    BY DEF Init
  <2> QED
    BY <1>1, <1>2, <1>3, <1>4, <2>1, <2>2, <2>3, <2>4 DEF TypeOK

\* Where the running task stands: the kernel is task 0, and so is whoever is
\* about to load or to silence the speaker.
LEMMA WhereTheKernelIs ==
  ASSUME TypeOK, Table
  PROVE  /\ cpu.prog = "kernel" \/ cpu.pc \in {"load", "quiet"} => current_task = 0
         /\ current_task = 0 => Live[0] = cpu
         /\ 0 \in Slots
  BY DEF TypeOK, Table, KernelIsTask0, RunningIsRunnable, Live, Slots

\* create_task keeps the types of what it touches.
LEMMA CreationType ==
  ASSUME TypeOK, TableEnd, NEW p \in Programs, create_task(p), spawned < MaxSpawns
  PROVE  /\ tasks' \in [Slots -> [active : BOOLEAN, paused : BOOLEAN]]
         /\ rsp' \in [Slots -> Contexts]
         /\ num_tasks' \in 1 .. MaxTasks
         /\ wake' \in [Slots -> 0 .. MaxSleep]
         /\ spawned' \in 1 .. MaxSpawns
<1>1. CASE ~has_free_task_slot
  BY <1>1 DEF create_task, TypeOK
<1>2. CASE has_free_task_slot
  <2>1. NewSlot \in Slots
    BY <1>2, NewSlotIsFree DEF Free
  <2>2. Fresh(p) \in Contexts
    BY DEF Fresh, Contexts, Spawns, Points, TypeOK
  <2>3. wake' = [wake EXCEPT ![NewSlot] = 0] /\ 0 \in 0 .. MaxSleep
    BY <1>2 DEF create_task
  <2>4. wake' \in [Slots -> 0 .. MaxSleep]
    <3>1. wake \in [Slots -> 0 .. MaxSleep]
      BY DEF TypeOK
    <3> QED
      BY <2>1, <2>3, <3>1
  <2>5. rsp' \in [Slots -> Contexts]
    BY <1>2, <2>1, <2>2 DEF create_task, TypeOK
  <2>6. tasks' \in [Slots -> [active : BOOLEAN, paused : BOOLEAN]]
    <3>1. tasks \in [Slots -> [active : BOOLEAN, paused : BOOLEAN]]
      BY DEF TypeOK
    <3>2. tasks' = [tasks EXCEPT ![NewSlot] = Ready]
      BY <1>2 DEF create_task
    <3> QED
      BY <2>1, <3>1, <3>2 DEF Ready, Unused
  <2>7. num_tasks' \in 1 .. MaxTasks /\ spawned' \in 1 .. MaxSpawns
    BY <1>2, <2>1 DEF create_task, TypeOK, Slots
  <2> QED
    BY <2>4, <2>5, <2>6, <2>7
<1> QED
  BY <1>1, <1>2

\* Every step keeps every variable in its type.
LEMMA NextType ==
  ASSUME TypeOK, Table, LoadMaySpawn, Next
  PROVE  TypeOK'
<1> USE DEF TypeOK, Contexts, Points
<1>1. CASE schedule
  <2>1. Saved \in Contexts
    BY DEF Saved
  <2>2. rsp' \in [Slots -> Contexts]
    BY <1>1, <2>1 DEF schedule
  <2>3. current_task' \in Slots /\ cpu' = rsp'[current_task']
    BY <1>1, NextTaskIsRunnable DEF schedule, Table
  <2>4. wake' \in [Slots -> 0 .. MaxSleep]
    BY <1>1 DEF schedule
  <2> QED
    BY <1>1, <2>2, <2>3, <2>4 DEF schedule
<1>2. CASE yield
  BY <1>2 DEF yield
<1>3. CASE sleep_return
  BY <1>3 DEF sleep_return
<1>4. CASE syscall_sound
  <2>1. PICK d \in 0 .. MaxSleep : play_sound(d)
    BY <1>4 DEF syscall_sound
  <2>2. cpu' \in Contexts
    BY <1>4 DEF syscall_sound
  <2>3. wake' \in [Slots -> 0 .. MaxSleep] /\ tone' \in Slots \cup {NoTone}
    BY <2>1 DEF play_sound
  <2> QED
    BY <2>1, <2>2, <2>3 DEF play_sound
<1>5. CASE syscall_freq
  BY <1>5 DEF syscall_freq, play_freq
<1>6. CASE kernel_sleep
  BY <1>6 DEF kernel_sleep, Goto
<1>7. CASE kernel_sound
  BY <1>7 DEF kernel_sound, play_sound, Goto
<1>8. CASE kernel_freq
  BY <1>8 DEF kernel_freq, play_freq
<1>9. CASE toggle_mute
  BY <1>9 DEF toggle_mute, Goto
<1>10. ASSUME NEW t \in Slots, toggle_pause(t) PROVE TypeOK'
  BY <1>10 DEF toggle_pause, Goto
<1>11. ASSUME NEW t \in Slots, kill(t) PROVE TypeOK'
  BY <1>11 DEF Ready, Unused, kill, Goto
<1>12. CASE quiet
  BY <1>12 DEF quiet, play_freq, Goto
<1>13. CASE cmd_start
  BY <1>13, CreationType DEF cmd_start, Table, Programs
<1>14. CASE load_and_run_bin
  BY <1>14 DEF load_and_run_bin, Goto
<1>15. CASE load_sector
  BY <1>15 DEF load_sector, Goto
<1>16. CASE load_done
  <2>1. cpu' \in Contexts
    BY <1>16 DEF load_done, Goto
  <2>2. CASE create_task("app") /\ image' = spawned + 1
    <3>1. spawned < MaxSpawns
      BY <1>16, WhereTheKernelIs DEF load_done, LoadMaySpawn
    <3>2. image' \in Spawns
      BY <2>2, <3>1 DEF Spawns
    <3> QED
      BY <1>16, <2>1, <2>2, <3>1, <3>2, CreationType DEF load_done, Table, Programs
  <2>3. CASE UNCHANGED <<tasks, rsp, num_tasks, wake, spawned, image>>
    BY <1>16, <2>1, <2>3 DEF load_done
  <2> QED
    BY <1>16, <2>2, <2>3 DEF load_done
<1>17. CASE cmd_install
  BY <1>17 DEF cmd_install
<1>18. CASE install_elf
  BY <1>18, CreationType DEF install_elf, Table, Programs
<1>19. CASE install_failed
  BY <1>19 DEF install_failed
<1> QED
  BY <1>1, <1>2, <1>3, <1>4, <1>5, <1>6, <1>7, <1>8, <1>9, <1>10, <1>11, <1>12,
     <1>13, <1>14, <1>15, <1>16, <1>17, <1>18, <1>19 DEF Next

-----------------------------------------------------------------------------
(* The table, the load and the speaker, step by step.                      *)

\* Every step preserves the shape of the task table.
LEMMA NextTable ==
  ASSUME TypeOK, Table, Next
  PROVE  Table'
<1> USE DEF TypeOK, Contexts
<1>1. CASE schedule
  BY <1>1, ScheduleKeepsTable
<1>2. CASE \/ yield \/ sleep_return \/ syscall_sound \/ syscall_freq
           \/ kernel_sleep \/ kernel_sound \/ kernel_freq \/ toggle_mute
           \/ quiet \/ load_and_run_bin \/ load_sector \/ cmd_install
           \/ install_failed
  <2>1. /\ UNCHANGED <<tasks, rsp, current_task, num_tasks, spawned>>
        /\ cpu'.spawn = cpu.spawn /\ cpu'.prog = cpu.prog
    BY <1>2 DEF yield, sleep_return, syscall_sound, syscall_freq, kernel_sleep,
                kernel_sound, kernel_freq, toggle_mute, quiet, load_and_run_bin,
                load_sector, cmd_install, install_failed, play_sound, play_freq,
                Goto
  <2>2. cpu'.pc \in {"load", "quiet"} => cpu'.pc = cpu.pc \/ cpu.prog = "kernel"
    BY <1>2 DEF yield, sleep_return, syscall_sound, syscall_freq, kernel_sleep,
                kernel_sound, kernel_freq, toggle_mute, quiet, load_and_run_bin,
                load_sector, cmd_install, install_failed, InLoop, Goto
  <2> QED
    BY <2>1, <2>2, OwnStepKeepsTable, WhereTheKernelIs
<1>3. ASSUME NEW t \in Slots, toggle_pause(t) \/ kill(t) PROVE Table'
  BY <1>3, ButtonKeepsTable
<1>4. CASE cmd_start \/ install_elf
  <2>1. PICK p \in {"worker", "elf"} : create_task(p)
    BY <1>4 DEF cmd_start, install_elf
  <2>2. current_task = 0 /\ UNCHANGED <<cpu, current_task>>
    BY <1>4, WhereTheKernelIs DEF cmd_start, install_elf, InLoop
  <2> QED
    BY <2>1, <2>2, CreationKeepsTable DEF Programs
<1>5. CASE load_done
  <2>1. /\ UNCHANGED current_task /\ current_task = 0
        /\ cpu'.spawn = cpu.spawn /\ cpu'.prog = cpu.prog /\ cpu'.pc = "run"
    BY <1>5, WhereTheKernelIs DEF load_done, Goto
  <2>2. CASE create_task("app")
    BY <2>1, <2>2, CreationKeepsTable DEF Programs
  <2>3. CASE UNCHANGED <<tasks, rsp, num_tasks, wake, spawned, image>>
    BY <2>1, <2>3, OwnStepKeepsTable
  <2> QED
    BY <1>5, <2>2, <2>3 DEF load_done
<1> QED
  BY <1>1, <1>2, <1>3, <1>4, <1>5 DEF Next

\* Between the check of load_and_run_bin and its create_task, no step takes
\* the free slot away.
LEMMA NextLoad ==
  ASSUME TypeOK, Table, Load, Next
  PROVE  Load'
<1> SUFFICES ASSUME Live'[0].pc = "load" PROVE spawned' < MaxSpawns /\ Free' # {}
  BY DEF Load, LoadMaySpawn, LoadKeepsItsSlot
<1> USE DEF TypeOK, Contexts
<1>1. CASE schedule
  <2>1. Live[0].pc = "load"
    BY <1>1, SwitchKeepsContexts, WhereTheKernelIs DEF Table
  <2> QED
    BY <1>1, <2>1 DEF schedule, Load, LoadMaySpawn, LoadKeepsItsSlot, Free
<1>2. CASE load_and_run_bin
  <2>1. Free # {}
    BY <1>2, NewSlotIsFree DEF load_and_run_bin, Table
  <2> QED
    BY <1>2, <2>1 DEF load_and_run_bin, Free
<1>3. CASE /\ UNCHANGED <<tasks, current_task, spawned>>
           /\ cpu'.pc # "load" \/ cpu.pc = "load"
           /\ rsp' = rsp
  <2>1. Live[0].pc = "load"
    BY <1>3, WhereTheKernelIs DEF Live
  <2> QED
    BY <1>3, <2>1 DEF Load, LoadMaySpawn, LoadKeepsItsSlot, Free
<1>4. CASE current_task = 0 /\ UNCHANGED current_task /\ cpu'.pc # "load"
  BY <1>4, WhereTheKernelIs DEF Live
<1>5. CASE \/ yield \/ sleep_return \/ syscall_sound \/ syscall_freq \/ quiet
           \/ load_sector \/ cmd_install \/ install_failed
  BY <1>3, <1>5 DEF yield, sleep_return, syscall_sound, syscall_freq, quiet,
       load_sector, cmd_install, install_failed, play_sound, play_freq, Goto
<1>6. CASE kernel_sleep \/ kernel_sound \/ kernel_freq \/ toggle_mute
  BY <1>3, <1>6 DEF kernel_sleep, kernel_sound, kernel_freq, toggle_mute,
       play_sound, play_freq, Goto, InLoop
<1>7. ASSUME NEW t \in Slots, toggle_pause(t) \/ kill(t)
      PROVE  spawned' < MaxSpawns /\ Free' # {}
  BY <1>4, <1>7, WhereTheKernelIs DEF toggle_pause, kill, InLoop, Goto
<1>8. CASE cmd_start \/ install_elf \/ load_done
  <2>1. current_task = 0 /\ UNCHANGED current_task
    BY <1>8, WhereTheKernelIs DEF cmd_start, install_elf, load_done, InLoop
  <2>2. cpu'.pc = "run"
    BY <1>8 DEF cmd_start, install_elf, load_done, InLoop, Goto
  <2> QED
    BY <1>4, <2>1, <2>2
<1> QED
  BY <1>1, <1>2, <1>5, <1>6, <1>7, <1>8 DEF Next

\* The speaker belongs to a task that may run, or is about to be silenced,
\* and a muted speaker is silent, or is about to be.
LEMMA NextSpeaker ==
  ASSUME TypeOK, Table, Speaker, Next
  PROVE  Speaker'
<1> USE DEF TypeOK, Contexts
\* the three ways a step leaves the speaker in order
<1>1. CASE tone' = NoTone
  BY <1>1 DEF Speaker, NoOrphanTone, MutedIsSilent
<1>2. CASE /\ tone' = current_task /\ tasks' = tasks
           /\ UNCHANGED sound_muted /\ ~sound_muted
  BY <1>2 DEF Speaker, NoOrphanTone, MutedIsSilent, Table, RunningIsRunnable
<1>3. CASE /\ tone' = tone /\ sound_muted' = sound_muted
           /\ \A s \in Slots : tasks[s].active /\ ~tasks[s].paused
                 => tasks'[s].active /\ ~tasks'[s].paused
           /\ Live[0].pc = "quiet" => Live'[0].pc = "quiet"
  BY <1>3 DEF Speaker, NoOrphanTone, MutedIsSilent, NoTone, Slots
<1>4. CASE Live'[0].pc = "quiet"
  BY <1>4 DEF Speaker, NoOrphanTone, MutedIsSilent
<1>5. CASE schedule
  <2>1. Live[0].pc = "quiet" => Live'[0].pc = "quiet"
    BY <1>5, SwitchKeepsContexts, WhereTheKernelIs DEF Table
  <2> QED
    BY <1>3, <1>5, <2>1 DEF schedule
<1>6. CASE quiet
  BY <1>1, <1>6 DEF quiet, play_freq
<1>7. CASE syscall_sound \/ kernel_sound
  BY <1>2, <1>7 DEF syscall_sound, kernel_sound, play_sound
<1>8. CASE syscall_freq \/ kernel_freq
  BY <1>1, <1>2, <1>8 DEF syscall_freq, kernel_freq, play_freq
<1>9. CASE \/ yield \/ kernel_sleep \/ sleep_return \/ load_and_run_bin
           \/ load_sector \/ cmd_install \/ install_failed
  <2>1. /\ UNCHANGED <<tasks, rsp, current_task, sound_muted>>
        /\ tone' = tone \/ tone' = NoTone
        /\ cpu.pc # "quiet" \/ cpu' = cpu
    BY <1>9 DEF yield, kernel_sleep, sleep_return, load_and_run_bin,
                load_sector, cmd_install, install_failed, InLoop
  <2>2. Live[0].pc = "quiet" => Live'[0].pc = "quiet"
    BY <2>1, WhereTheKernelIs DEF Live
  <2> QED
    BY <1>1, <1>3, <2>1, <2>2
<1>10. ASSUME current_task = 0, UNCHANGED <<current_task, rsp>>, cpu.pc = "run",
              tone' = tone, sound_muted' = sound_muted,
              NEW t \in Slots, tasks' = [tasks EXCEPT ![t].paused = FALSE]
       PROVE  Speaker'
  BY <1>3, <1>10, WhereTheKernelIs
<1>11. CASE toggle_mute
  <2>1. current_task = 0
    BY <1>11, WhereTheKernelIs DEF toggle_mute, InLoop
  <2>2. CASE sound_muted
    <3>1. tone = NoTone
      BY <1>11, <2>1, <2>2, WhereTheKernelIs DEF toggle_mute, InLoop, Speaker,
         MutedIsSilent
    <3> QED
      BY <1>1, <1>11, <3>1 DEF toggle_mute
  <2>3. CASE ~sound_muted
    BY <1>4, <1>11, <2>1, <2>3, WhereTheKernelIs DEF toggle_mute, Goto, Live
  <2> QED
    BY <2>2, <2>3
<1>12. ASSUME NEW t \in Slots, kill(t) PROVE Speaker'
  BY <1>4, <1>12, WhereTheKernelIs DEF kill, InLoop, Goto, Live
<1>13. ASSUME NEW t \in Slots, toggle_pause(t) PROVE Speaker'
  <2>1. current_task = 0
    BY <1>13, WhereTheKernelIs DEF toggle_pause, InLoop
  <2>2. CASE tasks[t].paused
    <3>1. tasks' = [tasks EXCEPT ![t].paused = FALSE]
      BY <1>13, <2>2 DEF toggle_pause
    <3> QED
      BY <1>10, <1>13, <2>1, <3>1 DEF toggle_pause, InLoop
  <2>3. CASE ~tasks[t].paused
    BY <1>4, <1>13, <2>1, <2>3, WhereTheKernelIs DEF toggle_pause, Goto, Live
  <2> QED
    BY <2>2, <2>3
<1>14. CASE cmd_start \/ install_elf \/ load_done
  <2>1. /\ tone' = tone /\ sound_muted' = sound_muted
        /\ current_task = 0 /\ Live[0].pc # "quiet"
    BY <1>14, WhereTheKernelIs DEF cmd_start, install_elf, load_done, InLoop
  <2>2. PICK p \in Programs : \/ create_task(p)
                              \/ UNCHANGED tasks
    BY <1>14 DEF cmd_start, install_elf, load_done, Programs
  <2>3. \A s \in Slots : tasks[s].active /\ ~tasks[s].paused
          => tasks'[s].active /\ ~tasks'[s].paused
    <3>1. CASE has_free_task_slot /\ create_task(p)
      <4>1. NewSlot \in Slots
        BY <3>1, NewSlotIsFree DEF Free, Table
      <4>2. tasks' = [tasks EXCEPT ![NewSlot] = Ready]
        BY <3>1 DEF create_task
      <4> QED
        BY <4>1, <4>2 DEF Ready, Unused
    <3> QED
      BY <2>2, <3>1 DEF create_task
  <2> QED
    BY <1>3, <2>1, <2>3
<1> QED
  BY <1>5, <1>6, <1>7, <1>8, <1>9, <1>11, <1>12, <1>13, <1>14 DEF Next

-----------------------------------------------------------------------------
(* The theorems.                                                           *)

\* main leaves the table, the loader and the speaker in order.
LEMMA InitInv == Init => Inv
<1> SUFFICES ASSUME Init PROVE Inv
  OBVIOUS
<1>1. TypeOK
  BY InitType
<1>2. /\ Live[0] = cpu /\ 0 \in Slots /\ 1 \in Slots
      /\ \A s \in Slots : tasks[s].active => s = 0 \/ s = 1
      /\ Live[1] = [spawn |-> 1, prog |-> "idle", pc |-> "run", ifl |-> TRUE]
      /\ cpu = [spawn |-> 0, prog |-> "kernel", pc |-> "run", ifl |-> TRUE]
      /\ tasks[0].active /\ ~tasks[0].paused
  <2>1. 0 \in Slots /\ 1 \in Slots
    BY DEF Slots
  <2>2. \A s \in Slots : tasks[s] = IF s \in {0, 1} THEN Ready ELSE Unused
    BY DEF Init
  <2>3. \A s \in Slots : tasks[s].active <=> s \in {0, 1}
    BY <2>2 DEF Ready, Unused
  <2>4. tasks[0].active /\ ~tasks[0].paused
    BY <2>1, <2>2 DEF Ready
  <2>5. rsp[1] = [spawn |-> 1, prog |-> "idle", pc |-> "run", ifl |-> TRUE]
    BY <2>1 DEF Init
  <2>6. current_task = 0
    BY DEF Init
  <2> QED
    BY <2>1, <2>3, <2>4, <2>5, <2>6 DEF Init, Live
<1>3. Table
  <2>1. KernelIsTask0 /\ SpawnsCounted /\ ContextsDistinct
    BY <1>2 DEF Init, KernelIsTask0, SpawnsCounted, ContextsDistinct
  <2>2. RunningIsRunnable /\ TableEnd
    BY <1>2 DEF Init, RunningIsRunnable, TableEnd
  <2> QED
    BY <2>1, <2>2 DEF Table
<1>4. Load /\ Speaker
  <2>1. Live[0].pc = "run" /\ tone = NoTone
    BY <1>2 DEF Init
  <2> QED
    BY <2>1 DEF Load, LoadMaySpawn, LoadKeepsItsSlot, Speaker, NoOrphanTone,
                MutedIsSilent
<1> QED
  BY <1>1, <1>3, <1>4 DEF Inv

\* The three parts of the invariant need one another: together they are
\* inductive.
LEMMA NextInv == Inv /\ [Next]_vars => Inv'
<1> SUFFICES ASSUME Inv, [Next]_vars PROVE Inv'
  OBVIOUS
<1>1. CASE Next
  BY <1>1, NextType, NextTable, NextLoad, NextSpeaker DEF Inv, Load
<1>2. CASE UNCHANGED vars
  <2>1. Live' = Live /\ Free' = Free
    BY <1>2 DEF vars, Live, Free
  <2> QED
    BY <1>2, <2>1 DEF vars, Inv, TypeOK, Table, Load, Speaker, KernelIsTask0,
       RunningIsRunnable, TableEnd, SpawnsCounted, ContextsDistinct, LoadMaySpawn,
       LoadKeepsItsSlot, NoOrphanTone, MutedIsSilent
<1> QED
  BY <1>1, <1>2

\* So the invariant holds in every behaviour.
LEMMA InvAlways == Spec => []Inv
  BY InitInv, NextInv, PTL DEF Spec

\* Type correctness: no index leaves the table and no spawn is counted twice
\* past the bound, for any number of slots.
THEOREM TypeCorrect == Spec => []TypeOK
<1>1. Inv => TypeOK
  BY DEF Inv
<1> QED
  BY <1>1, InvAlways, PTL

\* Mutual exclusion of the stacks and of the processor: whatever the task
\* manager does, the processor runs an active, unpaused task, on its own stack.
THEOREM SwitchingIsSafe == Spec => [](RunningIsRunnable /\ ContextsDistinct)
<1>1. Inv => RunningIsRunnable /\ ContextsDistinct
  BY DEF Inv, Table
<1> QED
  BY <1>1, InvAlways, PTL

\* No two active slots ever resume the same task, and slot 0 stays the
\* kernel's: the switch of schedule and the frames of create_task neither lose
\* a task nor run one twice.
THEOREM StacksAreDistinct == Spec => []ContextsDistinct
<1>1. Inv => ContextsDistinct
  BY DEF Inv, Table
<1> QED
  BY <1>1, InvAlways, PTL

\* The check of load_and_run_bin is not stale when create_task relies on it.
THEOREM LoadFindsItsSlot == Spec => []LoadKeepsItsSlot
<1>1. Inv => LoadKeepsItsSlot
  BY DEF Inv, Load
<1> QED
  BY <1>1, InvAlways, PTL

\* Pausing, killing and muting silence the speaker.
THEOREM SpeakerIsSafe == Spec => [](NoOrphanTone /\ MutedIsSilent)
<1>1. Inv => NoOrphanTone /\ MutedIsSilent
  BY DEF Inv, Speaker
<1> QED
  BY <1>1, InvAlways, PTL

\* Mute silences every task and keeps it silent, whichever task calls
\* play_freq or play_sound later.
THEOREM MuteIsSilence == Spec => []MutedIsSilent
<1>1. Inv => MutedIsSilent
  BY DEF Inv, Speaker
<1> QED
  BY <1>1, InvAlways, PTL

\* The set of running programs only changes where a slot is taken or given up.
LEMMA SameSpawns ==
  ASSUME \A s \in Slots : /\ tasks'[s].active <=> tasks[s].active
                         /\ Live'[s].spawn = Live[s].spawn
  PROVE  LiveSpawns' = LiveSpawns
  BY DEF LiveSpawns

\* From a state of the invariant, a step keeps every context there is, makes at
\* most one, and removes one only by the kill button.
LEMMA NextLifecycle ==
  ASSUME TypeOK, Table, Next
  PROVE  /\ LiveSpawns' \subseteq LiveSpawns \cup {spawned + 1}
         /\ LiveSpawns \subseteq LiveSpawns' \/ \E t \in Slots : kill(t)
<1> USE DEF TypeOK, Contexts
<1>1. CASE schedule
  <2>1. \A s \in Slots : Live'[s].spawn = Live[s].spawn
    BY <1>1, SwitchKeepsContexts DEF Table
  <2> QED
    BY <1>1, <2>1, SameSpawns DEF schedule
<1>2. CASE /\ UNCHANGED <<tasks, rsp, current_task>> /\ cpu'.spawn = cpu.spawn
  BY <1>2, SameSpawns DEF Live
<1>3. CASE \/ yield \/ sleep_return \/ syscall_sound \/ syscall_freq
           \/ kernel_sleep \/ kernel_sound \/ kernel_freq \/ toggle_mute
           \/ quiet \/ load_and_run_bin \/ load_sector \/ cmd_install
           \/ install_failed
  BY <1>2, <1>3 DEF yield, sleep_return, syscall_sound, syscall_freq,
       kernel_sleep, kernel_sound, kernel_freq, toggle_mute, quiet,
       load_and_run_bin, load_sector, cmd_install, install_failed, play_sound,
       play_freq, Goto
<1>4. ASSUME NEW t \in Slots, toggle_pause(t) PROVE LiveSpawns' = LiveSpawns
  <2>1. \A s \in Slots : Live'[s].spawn = Live[s].spawn
    BY <1>4 DEF toggle_pause, Goto, Live
  <2>2. \A s \in Slots : tasks'[s].active <=> tasks[s].active
    BY <1>4 DEF toggle_pause
  <2> QED
    BY <2>1, <2>2, SameSpawns
<1>5. ASSUME NEW t \in Slots, kill(t) PROVE LiveSpawns' \subseteq LiveSpawns
  <2>1. \A s \in Slots : Live'[s].spawn = Live[s].spawn
    BY <1>5 DEF kill, Goto, Live
  <2>2. \A s \in Slots : tasks'[s].active => tasks[s].active
    BY <1>5 DEF kill, Unused
  <2> QED
    BY <2>1, <2>2 DEF LiveSpawns
<1>6. ASSUME NEW p \in Programs, create_task(p), current_task = 0,
             UNCHANGED current_task, cpu'.spawn = cpu.spawn, cpu'.prog = cpu.prog
      PROVE  /\ LiveSpawns' \subseteq LiveSpawns \cup {spawned + 1}
             /\ LiveSpawns \subseteq LiveSpawns'
  <2>1. CASE ~has_free_task_slot
    <3>1. \A s \in Slots : /\ tasks'[s].active <=> tasks[s].active
                          /\ Live'[s].spawn = Live[s].spawn
      BY <1>6, <2>1 DEF create_task, Live
    <3> QED
      BY <3>1, SameSpawns
  <2>2. CASE has_free_task_slot
    <3>1. PICK id \in Slots \ {0} :
            /\ ~tasks[id].active
            /\ tasks'[id].active
            /\ \A s \in Slots : s # id => tasks'[s] = tasks[s]
            /\ Live'[id].spawn = spawned + 1
            /\ \A s \in Slots : s # id => Live'[s].spawn = Live[s].spawn
      BY <1>6, <2>2, CreationEffect DEF Table
    <3> QED
      BY <3>1 DEF LiveSpawns
  <2> QED
    BY <2>1, <2>2
<1>7. CASE cmd_start \/ install_elf \/ load_done
  <2>1. /\ UNCHANGED current_task /\ current_task = 0
        /\ cpu'.spawn = cpu.spawn /\ cpu'.prog = cpu.prog
    BY <1>7, WhereTheKernelIs DEF cmd_start, install_elf, load_done, InLoop, Goto
  <2>2. \/ \E p \in Programs : create_task(p)
        \/ UNCHANGED <<tasks, rsp>>
    BY <1>7 DEF cmd_start, install_elf, load_done, Programs
  <2> QED
    BY <1>2, <1>6, <2>1, <2>2
<1> QED
  BY <1>1, <1>3, <1>4, <1>5, <1>7 DEF Next

\* No killed task comes back, and no task vanishes but by the kill button.
THEOREM LifecycleIsSafe == Spec => TaskLifecycle
<1>1. Inv /\ [Next]_vars =>
        [/\ LiveSpawns' \subseteq LiveSpawns \cup {spawned + 1}
         /\ LiveSpawns \subseteq LiveSpawns' \/ \E t \in Slots : kill(t)]_vars
  BY NextLifecycle DEF Inv
<1> QED
  BY <1>1, InvAlways, PTL DEF Spec, TaskLifecycle

-----------------------------------------------------------------------------
(* The task table implements Multitasking.                                 *)

Status(s) == tasks[s].active /\ ~tasks[s].paused
Held(s)   == tasks[s].active /\ tasks[s].paused

\* The tasks Multitasking sees, by the slots they are in.
LEMMA SharesBySlot ==
  ASSUME NEW x
  PROVE  /\ x \in ReadySpawns  <=> \E s \in Slots : Status(s) /\ Live[s].spawn = x
         /\ x \in PausedSpawns <=> \E s \in Slots : Held(s) /\ Live[s].spawn = x
  BY DEF ReadySpawns, PausedSpawns, Status, Held

\* ... and after a step.
LEMMA SharesBySlotNext ==
  ASSUME NEW x
  PROVE  /\ x \in ReadySpawns'  <=> \E s \in Slots : Status(s)' /\ Live'[s].spawn = x
         /\ x \in PausedSpawns' <=> \E s \in Slots : Held(s)' /\ Live'[s].spawn = x
  BY DEF ReadySpawns, PausedSpawns, Status, Held

\* A step that keeps the flags and moves no task to another slot is invisible,
\* but for the processor.
LEMMA SharesKept ==
  ASSUME UNCHANGED tasks, \A s \in Slots : Live'[s].spawn = Live[s].spawn
  PROVE  UNCHANGED <<ReadySpawns, PausedSpawns>>
<1>1. \A s \in Slots : (Status(s)' <=> Status(s)) /\ (Held(s)' <=> Held(s))
  BY DEF Status, Held
<1>2. \A x : x \in ReadySpawns' <=> x \in ReadySpawns
  BY <1>1, SharesBySlot, SharesBySlotNext
<1>3. \A x : x \in PausedSpawns' <=> x \in PausedSpawns
  BY <1>1, SharesBySlot, SharesBySlotNext
<1> QED
  <2>1. ReadySpawns' \subseteq ReadySpawns /\ ReadySpawns \subseteq ReadySpawns'
    BY <1>2
  <2>2. PausedSpawns' \subseteq PausedSpawns /\ PausedSpawns \subseteq PausedSpawns'
    BY <1>3
  <2> QED
    BY <2>1, <2>2

\* A button of the task manager moves the one task of its slot, because no
\* other slot holds that task.
LEMMA SharesMoved ==
  ASSUME ContextsDistinct, NEW t \in Slots, tasks[t].active,
         \A s \in Slots : /\ Live'[s].spawn = Live[s].spawn
                          /\ s # t => tasks'[s] = tasks[s]
  PROVE  LET x == Live[t].spawn
         IN  /\ ReadySpawns'  = IF Status(t)' THEN ReadySpawns \cup {x}
                                ELSE ReadySpawns \ {x}
             /\ PausedSpawns' = IF Held(t)' THEN PausedSpawns \cup {x}
                                ELSE PausedSpawns \ {x}
<1> DEFINE x == Live[t].spawn
<1>1. \A s \in Slots : s # t => /\ Status(s)' <=> Status(s)
                                /\ Held(s)' <=> Held(s)
  BY DEF Status, Held
<1>2. \A s \in Slots : s # t /\ (Status(s) \/ Held(s)) => Live[s].spawn # x
  BY DEF ContextsDistinct, Status, Held
<1> HIDE DEF x
<1>3. ASSUME NEW y
      PROVE  /\ y # x => (y \in ReadySpawns' <=> y \in ReadySpawns)
             /\ x \in ReadySpawns' <=> Status(t)'
             /\ y # x => (y \in PausedSpawns' <=> y \in PausedSpawns)
             /\ x \in PausedSpawns' <=> Held(t)'
  <2>1. Live'[t].spawn = x /\ Live[t].spawn = x
    BY DEF x
  <2> QED
    BY <1>1, <1>2, <2>1, SharesBySlot, SharesBySlotNext
<1>4. ReadySpawns' = IF Status(t)' THEN ReadySpawns \cup {x} ELSE ReadySpawns \ {x}
  <2>1. ASSUME NEW y PROVE y \in ReadySpawns' <=>
          y \in (IF Status(t)' THEN ReadySpawns \cup {x} ELSE ReadySpawns \ {x})
    BY <1>3
  <2> QED
    BY <2>1
<1>5. PausedSpawns' = IF Held(t)' THEN PausedSpawns \cup {x} ELSE PausedSpawns \ {x}
  <2>1. ASSUME NEW y PROVE y \in PausedSpawns' <=>
          y \in (IF Held(t)' THEN PausedSpawns \cup {x} ELSE PausedSpawns \ {x})
    BY <1>3
  <2> QED
    BY <2>1
<1> QED
  BY <1>4, <1>5 DEF x

\* A creation shows a task that was never there.
LEMMA CreationIsCreate ==
  ASSUME TypeOK, Table, NEW p \in Programs, create_task(p), spawned < MaxSpawns,
         current_task = 0, UNCHANGED current_task,
         cpu'.spawn = cpu.spawn, cpu'.prog = cpu.prog
  PROVE  Abstract!Next \/ UNCHANGED Abstract!vars
<1>1. cpu.spawn = 0 /\ 0 \in Slots
  BY WhereTheKernelIs DEF Table, ContextsDistinct
<1>2. CASE ~has_free_task_slot
  <2>1. UNCHANGED <<tasks, rsp, spawned>>
    BY <1>2 DEF create_task
  <2>2. \A s \in Slots : Live'[s].spawn = Live[s].spawn
    BY <2>1 DEF Live
  <2> QED
    BY <2>1, <2>2, SharesKept DEF Abstract!vars
<1>3. CASE has_free_task_slot
  <2>1. PICK id \in Slots \ {0} :
          /\ ~tasks[id].active
          /\ tasks'[id].active /\ ~tasks'[id].paused
          /\ \A s \in Slots : s # id => tasks'[s] = tasks[s]
          /\ spawned' = spawned + 1
          /\ Live'[id].spawn = spawned + 1
          /\ \A s \in Slots : s # id => Live'[s].spawn = Live[s].spawn
    BY <1>3, CreationEffect DEF Table
  <2>2. \A s \in Slots : s # id => /\ Status(s)' <=> Status(s)
                                   /\ Held(s)' <=> Held(s)
    BY <2>1 DEF Status, Held
  <2>3. ~Status(id) /\ ~Held(id) /\ Status(id)' /\ ~Held(id)'
    BY <2>1 DEF Status, Held
  <2>4. ASSUME NEW y
        PROVE  /\ y \in ReadySpawns' <=> y \in ReadySpawns \/ y = spawned + 1
               /\ y \in PausedSpawns' <=> y \in PausedSpawns
    BY <2>1, <2>2, <2>3, SharesBySlot, SharesBySlotNext
  <2>5. ReadySpawns' = ReadySpawns \cup {spawned + 1}
    <3>1. \A y : y \in ReadySpawns' <=> y \in ReadySpawns \cup {spawned + 1}
      BY <2>4
    <3> QED
      BY <3>1
  <2>6. PausedSpawns' = PausedSpawns
    <3>1. \A y : y \in PausedSpawns' <=> y \in PausedSpawns
      BY <2>4
    <3> QED
      BY <3>1
  <2>7. /\ spawned + 1 \in Spawns /\ spawned + 1 \notin 0 .. spawned
        /\ 0 .. (spawned + 1) = (0 .. spawned) \cup {spawned + 1}
    BY DEF TypeOK, Spawns
  <2>8. Abstract!Create(spawned + 1)
    BY <1>1, <2>1, <2>5, <2>6, <2>7 DEF Abstract!Create
  <2> QED
    BY <2>7, <2>8 DEF Abstract!Next
<1> QED
  BY <1>2, <1>3

\* The timer gives the processor to a task that is ready.
LEMMA ScheduleIsDispatch ==
  ASSUME TypeOK, Table, schedule
  PROVE  Abstract!Next
<1> DEFINE x == cpu'.spawn
<1>1. UNCHANGED <<tasks, spawned>>
  BY DEF schedule
<1>2. \A s \in Slots : Live'[s].spawn = Live[s].spawn
  BY SwitchKeepsContexts DEF Table
<1>3. /\ current_task' \in Slots /\ Status(current_task')
      /\ Live'[current_task'] = cpu'
  <2>1. current_task' = NextTask(current_task)
    BY DEF schedule
  <2>2. current_task' \in Runnable /\ Runnable \subseteq Slots
    BY <2>1, NextTaskIsRunnable DEF Table
  <2> QED
    BY <2>2 DEF Runnable, Status, Live
<1>4. x \in ReadySpawns
  BY <1>2, <1>3, SharesBySlot
<1>5. x \in Spawns
  BY <1>2, <1>3 DEF TypeOK, Contexts, Live
<1>6. Abstract!Dispatch(x)
  BY <1>1, <1>2, <1>4, SharesKept DEF Abstract!Dispatch
<1> QED
  BY <1>5, <1>6 DEF Abstract!Next

\* The task manager's buttons pause, resume and kill one task, never the kernel.
LEMMA ButtonsAreAbstract ==
  ASSUME TypeOK, Table, NEW t \in Slots, toggle_pause(t) \/ kill(t)
  PROVE  Abstract!Next
<1> DEFINE x == Live[t].spawn
<1>1. /\ current_task = 0 /\ 0 \in Slots /\ cpu = Live[0] /\ cpu.spawn = 0
      /\ t # 0 /\ tasks[t].active /\ tasks[0].active
  BY WhereTheKernelIs DEF toggle_pause, kill, InLoop, Table, ContextsDistinct,
     KernelIsTask0, Slots
<1>2. x \in Spawns /\ x # 0
  <2>1. x \in Spawns
    BY DEF TypeOK, Contexts, Live
  <2>2. x # 0
    BY <1>1 DEF Table, ContextsDistinct
  <2> QED
    BY <2>1, <2>2
<1>3. /\ UNCHANGED <<rsp, current_task, spawned>>
      /\ cpu'.spawn = cpu.spawn
  BY DEF toggle_pause, kill, Goto, TypeOK, Contexts
<1>4. \A s \in Slots : /\ Live'[s].spawn = Live[s].spawn
                       /\ s # t => tasks'[s] = tasks[s]
  BY <1>3 DEF toggle_pause, kill, TypeOK, Live
<1>5. /\ ReadySpawns'  = IF Status(t)' THEN ReadySpawns \cup {x}
                         ELSE ReadySpawns \ {x}
      /\ PausedSpawns' = IF Held(t)' THEN PausedSpawns \cup {x}
                         ELSE PausedSpawns \ {x}
  BY <1>1, <1>4, SharesMoved DEF Table
<1>6. /\ Status(t) => x \in ReadySpawns
      /\ Held(t) => x \in PausedSpawns
      /\ Status(t) \/ Held(t)
  BY <1>1, SharesBySlot DEF Status, Held
<1>7. /\ Held(t) => x \notin ReadySpawns
      /\ Status(t) => x \notin PausedSpawns
  BY <1>1, SharesBySlot DEF Status, Held, Table, ContextsDistinct
<1> HIDE DEF x
<1>8. CASE kill(t)
  <2>1. ~Status(t)' /\ ~Held(t)'
    BY <1>8 DEF kill, Unused, TypeOK, Status, Held
  <2>2. Abstract!Kill(x)
    BY <1>1, <1>2, <1>3, <1>5, <1>6, <2>1 DEF Abstract!Kill
  <2> QED
    BY <1>2, <2>2 DEF Abstract!Next
<1>9. CASE toggle_pause(t) /\ Status(t)
  <2>1. ~Status(t)' /\ Held(t)'
    BY <1>9 DEF toggle_pause, TypeOK, Status, Held
  <2>2. Abstract!Pause(x)
    BY <1>1, <1>2, <1>3, <1>5, <1>6, <2>1, <1>9 DEF Abstract!Pause
  <2> QED
    BY <1>2, <2>2 DEF Abstract!Next
<1>10. CASE toggle_pause(t) /\ Held(t)
  <2>1. Status(t)' /\ ~Held(t)'
    BY <1>10 DEF toggle_pause, TypeOK, Status, Held
  <2>2. Abstract!Resume(x)
    BY <1>1, <1>2, <1>3, <1>5, <1>6, <2>1, <1>10 DEF Abstract!Resume
  <2> QED
    BY <1>2, <2>2 DEF Abstract!Next
<1> QED
  BY <1>6, <1>8, <1>9, <1>10

\* Every step of the kernel is a step of Multitasking or leaves it where it is.
LEMMA StepIsAbstract ==
  ASSUME TypeOK, Table, LoadMaySpawn, Next
  PROVE  Abstract!Next \/ UNCHANGED Abstract!vars
<1> USE DEF TypeOK, Contexts
<1>1. CASE schedule
  BY <1>1, ScheduleIsDispatch
<1>2. CASE /\ UNCHANGED <<tasks, rsp, current_task, spawned>>
           /\ cpu'.spawn = cpu.spawn
  <2>1. \A s \in Slots : Live'[s].spawn = Live[s].spawn
    BY <1>2 DEF Live
  <2> QED
    BY <1>2, <2>1, SharesKept DEF Abstract!vars
<1>3. CASE \/ yield \/ sleep_return \/ syscall_sound \/ syscall_freq
           \/ kernel_sleep \/ kernel_sound \/ kernel_freq \/ toggle_mute
           \/ quiet \/ load_and_run_bin \/ load_sector \/ cmd_install
           \/ install_failed
  BY <1>2, <1>3 DEF yield, sleep_return, syscall_sound, syscall_freq,
       kernel_sleep, kernel_sound, kernel_freq, toggle_mute, quiet,
       load_and_run_bin, load_sector, cmd_install, install_failed, play_sound,
       play_freq, Goto
<1>4. ASSUME NEW t \in Slots, toggle_pause(t) \/ kill(t) PROVE Abstract!Next
  BY <1>4, ButtonsAreAbstract
<1>5. CASE cmd_start \/ install_elf \/ load_done
  <2>1. /\ UNCHANGED current_task /\ current_task = 0
        /\ cpu'.spawn = cpu.spawn /\ cpu'.prog = cpu.prog
    BY <1>5, WhereTheKernelIs DEF cmd_start, install_elf, load_done, InLoop, Goto
  <2>2. spawned < MaxSpawns
    BY <1>5, WhereTheKernelIs DEF cmd_start, install_elf, load_done, LoadMaySpawn
  <2>3. \/ \E p \in Programs : create_task(p)
        \/ UNCHANGED <<tasks, rsp, spawned>>
    BY <1>5 DEF cmd_start, install_elf, load_done, Programs
  <2> QED
    BY <1>2, <2>1, <2>2, <2>3, CreationIsCreate
<1> QED
  BY <1>1, <1>3, <1>4, <1>5 DEF Next

\* main starts with the kernel and sys_idle_task, both ready.
LEMMA InitIsAbstract == Init => Abstract!Init
<1> SUFFICES ASSUME Init PROVE Abstract!Init
  OBVIOUS
<1>1. /\ 0 \in Slots /\ 1 \in Slots /\ spawned = 1 /\ cpu.spawn = 0
      /\ \A s \in Slots : tasks[s] = IF s \in {0, 1} THEN Ready ELSE Unused
      /\ Live[0].spawn = 0 /\ Live[1].spawn = 1
  BY DEF Init, Slots, Live
<1>2. \A s \in Slots : ~Held(s) /\ (Status(s) <=> s \in {0, 1})
  BY <1>1 DEF Ready, Unused, Status, Held
<1>3. ReadySpawns = {0, 1}
  <2>1. \A y : y \in ReadySpawns <=> y \in {0, 1}
    BY <1>1, <1>2, SharesBySlot
  <2> QED
    BY <2>1
<1>4. PausedSpawns = {}
  <2>1. \A y : y \notin PausedSpawns
    BY <1>2, SharesBySlot
  <2> QED
    BY <2>1
<1>5. 0 .. spawned = {0, 1}
  BY <1>1
<1> QED
  BY <1>1, <1>3, <1>4, <1>5 DEF Abstract!Init

\* The kernel implements Multitasking, for any number of slots and tasks: a
\* task is born once, lives until it is killed, waits while it is paused, and
\* only a ready task executes, whatever slots and stacks are reused.
THEOREM KernelIsMultitasking == Spec => ImplementsMultitasking
<1>1. Inv /\ [Next]_vars => [Abstract!Next]_(Abstract!vars)
  <2> SUFFICES ASSUME Inv, [Next]_vars
               PROVE  Abstract!Next \/ UNCHANGED Abstract!vars
    OBVIOUS
  <2>1. CASE Next
    BY <2>1, StepIsAbstract DEF Inv, Load
  <2>2. CASE UNCHANGED vars
    <3>1. UNCHANGED <<tasks, spawned, cpu>> /\ Live' = Live
      BY <2>2 DEF vars, Live
    <3> QED
      BY <3>1, SharesKept DEF Abstract!vars
  <2> QED
    BY <2>1, <2>2
<1> QED
  BY <1>1, InitIsAbstract, InvAlways, PTL DEF Spec, ImplementsMultitasking,
     Abstract!Spec

=============================================================================
