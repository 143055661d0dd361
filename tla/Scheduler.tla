------------------------------ MODULE Scheduler ------------------------------
(***************************************************************************)
(* The preemptive multitasking of the 64-bit kernel, kernel_main.cpp: the  *)
(* task table, the timer interrupt that switches stacks, create_task, the  *)
(* system calls an app makes with int 0x80, sleep_ms, the task manager's   *)
(* pause and kill buttons, and the loading of an app from disk.            *)
(*                                                                         *)
(* One processor runs one task at a time.  The program that task executes  *)
(* is reduced to a CONTEXT: which spawn of which program it is, the point  *)
(* it is at, and the processor's interrupt flag, which an interrupt frame  *)
(* saves and iretq restores.  Task 0 is the kernel's own main loop, the    *)
(* only code that creates, pauses or kills tasks.                          *)
(***************************************************************************)
EXTENDS Integers

CONSTANTS MaxTasks,    \* the length of tasks[]: 4 in the code
          AppCalls,    \* the system calls the installed apps make
          MaxSleep,    \* longest sleep_ms, in timer ticks (bound)
          AppSectors,  \* sectors load_and_run_bin reads
          MaxSpawns    \* how many tasks are ever created (bound)

ASSUME MaxTasksAssumption   == MaxTasks \in Nat /\ MaxTasks >= 2
ASSUME MaxSleepAssumption   == MaxSleep \in Nat
ASSUME AppSectorsAssumption == AppSectors \in Nat
ASSUME MaxSpawnsAssumption  == MaxSpawns \in Nat /\ MaxSpawns >= 1

Slots    == 0 .. MaxTasks - 1
Spawns   == 0 .. MaxSpawns              \* 0 is the kernel, 1 sys_idle_task
NoTone   == MaxTasks                    \* the speaker is silent
NoImage  == MaxSpawns + 1               \* no complete app at 0x01100000

Programs == {"kernel", "idle", "worker", "app", "elf"}
\* "run": executing; "hlt": halted until an interrupt; "sleep" and "sound":
\* inside sleep_ms, the latter on behalf of play_sound; "load": inside
\* load_and_run_bin; "quiet": about to call play_freq(0)
Points   == {"run", "hlt", "sleep", "sound", "load", "quiet"}
Ready    == [active |-> TRUE, paused |-> FALSE]
Unused   == [active |-> FALSE, paused |-> FALSE]
Contexts == [spawn : Spawns, prog : Programs, pc : Points, ifl : BOOLEAN]

VARIABLES
  tasks,        \* Task tasks[]: the flags of every slot
  rsp,          \* tasks[].rsp: the context saved on every slot's stack
  cpu,          \* the context in the processor's registers
  current_task,
  num_tasks,
  wake,         \* target_ticks - system_ticks of the sleep_ms of every slot
  tone,         \* the slot whose play_freq or play_sound is audible
  sound_muted,
  image,        \* the spawn whose code is complete in RAM at 0x01100000
  toRead,       \* sectors load_and_run_bin still has to read
  install,      \* an INSTALL is downloading: pkg_download_active, _execute
  spawned       \* how many contexts were made: a history variable

vars == <<tasks, rsp, cpu, current_task, num_tasks, wake, tone, sound_muted,
          image, toRead, install, spawned>>

\* the context of every slot, in the processor or on its stack
Live == [s \in Slots |-> IF s = current_task THEN cpu ELSE rsp[s]]

\* (faulty variant: the pause flag is not looked at)
RunnableIgnoringPause == {s \in 0 .. num_tasks - 1 : tasks[s].active}

Runnable == {s \in 0 .. num_tasks - 1 : tasks[s].active /\ ~tasks[s].paused}

LiveSpawns == {Live[s].spawn : s \in {t \in Slots : tasks[t].active}}

-----------------------------------------------------------------------------
\* create_task under cli: the first inactive slot above 0, or else the one
\* behind the table's end, gets a fresh frame with the interrupt flag set;
\* with neither it returns and says nothing
FreeUnchecked == Slots \ {0}   \* (faulty variant: active is not looked at)
Free == {s \in Slots \ {0} : ~tasks[s].active}
Least(S) == CHOOSE m \in S : \A n \in S : m <= n
NewSlot == IF Free # {} THEN Least(Free) ELSE num_tasks

has_free_task_slot == num_tasks < MaxTasks \/ Free # {}

Fresh(p) == [spawn |-> spawned + 1, prog |-> p, pc |-> "run", ifl |-> TRUE]

create_task(p) ==
  IF ~has_free_task_slot
  THEN UNCHANGED <<tasks, rsp, num_tasks, wake, spawned>>
  ELSE /\ rsp' = [rsp EXCEPT ![NewSlot] = Fresh(p)]
       /\ tasks' = [tasks EXCEPT ![NewSlot] = Ready]
       /\ num_tasks' = IF NewSlot >= num_tasks THEN NewSlot + 1 ELSE num_tasks
       /\ wake' = [wake EXCEPT ![NewSlot] = 0]
       /\ spawned' = spawned + 1

\* schedule: the next runnable slot after c, around the table; c itself is
\* tried last, and stays current when nothing is runnable
\* (faulty variant: the search starts at slot 0 instead of after c)
NextTaskFromZero(c) == IF Runnable # {} THEN Least(Runnable) ELSE c

NextTask(c) ==
  LET after == {s \in Runnable : s > c}
  IN  IF after # {} THEN Least(after)
      ELSE IF Runnable # {} THEN Least(Runnable)
      ELSE c

-----------------------------------------------------------------------------
\* main: cosmos is task 0, sys_idle_task task 1, and then sti
Init ==
  /\ tasks = [s \in Slots |-> IF s \in {0, 1} THEN Ready ELSE Unused]
  /\ cpu = [spawn |-> 0, prog |-> "kernel", pc |-> "run", ifl |-> TRUE]
  /\ rsp = [s \in Slots |->
              IF s = 1
              THEN [spawn |-> 1, prog |-> "idle", pc |-> "run", ifl |-> TRUE]
              ELSE cpu]
  /\ current_task = 0
  /\ num_tasks = 2
  /\ wake = [s \in Slots |-> 0]
  /\ tone = NoTone
  /\ sound_muted = FALSE
  /\ image = NoImage
  /\ toRead = 0
  /\ install = FALSE
  /\ spawned = 1

-----------------------------------------------------------------------------
(* The timer.                                                              *)

\* pit_isr saves the registers, schedule picks the next stack, iretq resumes
\* it.  A halted task goes on after its hlt.
Saved == [cpu EXCEPT !.pc = IF @ = "hlt" THEN "run" ELSE @]

\* (faulty variant: current_task advances before the old stack is saved)
schedule_saving_late ==
  /\ cpu.ifl
  /\ LET next   == NextTask(current_task)
         stacks == [rsp EXCEPT ![next] = Saved]
     IN  /\ rsp' = stacks
         /\ current_task' = next
         /\ cpu' = stacks[next]
  /\ wake' = [s \in Slots |-> IF wake[s] > 0 THEN wake[s] - 1 ELSE 0]
  /\ UNCHANGED <<tasks, num_tasks, tone, sound_muted, image, toRead, install,
                 spawned>>

\* (faulty variant: system_ticks stands still)
schedule_without_tick ==
  /\ cpu.ifl
  /\ LET stacks == [rsp EXCEPT ![current_task] = Saved]
         next   == NextTask(current_task)
     IN  /\ rsp' = stacks
         /\ current_task' = next
         /\ cpu' = stacks[next]
  /\ UNCHANGED <<tasks, num_tasks, wake, tone, sound_muted, image, toRead,
                 install, spawned>>

schedule ==
  /\ cpu.ifl
  /\ LET stacks == [rsp EXCEPT ![current_task] = Saved]
         next   == NextTask(current_task)
     IN  /\ rsp' = stacks
         /\ current_task' = next
         /\ cpu' = stacks[next]
  /\ wake' = [s \in Slots |-> IF wake[s] > 0 THEN wake[s] - 1 ELSE 0]
  /\ UNCHANGED <<tasks, num_tasks, tone, sound_muted, image, toRead, install,
                 spawned>>

-----------------------------------------------------------------------------
(* Steps of any task.                                                      *)

\* yield, reached directly (dynamic_task_worker) or by system call 0: sti, hlt.
\* sys_idle_task halts without sti, with the flag already set.
yield ==
  /\ cpu.pc = "run"
  /\ \/ cpu.prog \in {"idle", "worker"}
     \/ cpu.prog \in {"app", "elf"} /\ "yield" \in AppCalls
  /\ cpu' = [cpu EXCEPT !.pc = "hlt", !.ifl = IF cpu.prog = "idle" THEN @ ELSE TRUE]
  /\ UNCHANGED <<tasks, rsp, current_task, num_tasks, wake, tone, sound_muted,
                 image, toRead, install, spawned>>

\* the loop of sleep_ms ends; play_sound then switches the tone off, and the
\* return of a system call restores the interrupt flag of its caller
sleep_return ==
  /\ cpu.pc \in {"sleep", "sound"}
  /\ wake[current_task] = 0
  /\ tone' = IF cpu.pc = "sound" THEN NoTone ELSE tone
  /\ cpu' = [cpu EXCEPT !.pc = "run", !.ifl = TRUE]
  /\ UNCHANGED <<tasks, rsp, current_task, num_tasks, wake, sound_muted, image,
                 toRead, install, spawned>>

\* play_sound: nothing when muted, else the tone and a sleep of d ticks
play_sound(d) ==
  /\ ~sound_muted
  /\ tone' = current_task
  /\ wake' = [wake EXCEPT ![current_task] = d]
  /\ UNCHANGED <<tasks, rsp, current_task, num_tasks, sound_muted, image,
                 toRead, install, spawned>>

\* play_freq: f = 0, or sound_muted, switches the speaker off
play_freq_ignoring_mute(f) ==    \* (faulty variant)
  /\ tone' = IF f = 0 THEN NoTone ELSE current_task
  /\ UNCHANGED <<tasks, rsp, current_task, num_tasks, wake, sound_muted, image,
                 toRead, install, spawned>>

play_freq(f) ==
  /\ tone' = IF f = 0 \/ sound_muted THEN NoTone ELSE current_task
  /\ UNCHANGED <<tasks, rsp, current_task, num_tasks, wake, sound_muted, image,
                 toRead, install, spawned>>

\* system calls 6 and 7: the gate of int 0x80 clears the interrupt flag, and
\* nothing on the way to sleep_ms sets it again
syscall_sound ==
  /\ cpu.prog \in {"app", "elf"} /\ cpu.pc = "run" /\ "sound" \in AppCalls
  /\ \E d \in 0 .. MaxSleep : play_sound(d)
  /\ cpu' = [cpu EXCEPT !.pc = "sound", !.ifl = FALSE]

syscall_freq ==
  /\ cpu.prog \in {"app", "elf"} /\ cpu.pc = "run" /\ "freq" \in AppCalls
  /\ \E f \in {0, 1} : play_freq(f)
  /\ UNCHANGED cpu

-----------------------------------------------------------------------------
(* Steps of the kernel's main loop, task 0.                                *)

InLoop == cpu.prog = "kernel" /\ cpu.pc = "run"
Goto(point) == cpu' = [cpu EXCEPT !.pc = point]

\* sleep_ms in a command or a download
kernel_sleep ==
  /\ InLoop
  /\ \E d \in 1 .. MaxSleep : wake' = [wake EXCEPT ![current_task] = d]
  /\ Goto("sleep")
  /\ UNCHANGED <<tasks, rsp, current_task, num_tasks, tone, sound_muted, image,
                 toRead, install, spawned>>

\* the games and the sound test button play in the main loop
kernel_sound == InLoop /\ Goto("sound") /\ \E d \in 0 .. MaxSleep : play_sound(d)
kernel_freq  == InLoop /\ UNCHANGED cpu /\ \E f \in {0, 1} : play_freq(f)

\* the mute button: the flag, and as a next step play_freq(0)
toggle_mute ==
  /\ InLoop
  /\ sound_muted' = ~sound_muted
  /\ Goto(IF sound_muted THEN "run" ELSE "quiet")
  /\ UNCHANGED <<tasks, rsp, current_task, num_tasks, wake, tone, image, toRead,
                 install, spawned>>

toggle_pause_any(t) ==           \* (faulty variant: task 0 can be paused, too)
  /\ InLoop
  /\ tasks[t].active
  /\ tasks' = [tasks EXCEPT ![t].paused = ~@]
  /\ Goto(IF tasks[t].paused THEN "run" ELSE "quiet")
  /\ UNCHANGED <<rsp, current_task, num_tasks, wake, tone, sound_muted, image,
                 toRead, install, spawned>>

\* the task manager's pause button; a task that is now paused is silenced next
toggle_pause(t) ==
  /\ InLoop
  /\ t > 0 /\ tasks[t].active
  /\ tasks' = [tasks EXCEPT ![t].paused = ~@]
  /\ Goto(IF tasks[t].paused THEN "run" ELSE "quiet")
  /\ UNCHANGED <<rsp, current_task, num_tasks, wake, tone, sound_muted, image,
                 toRead, install, spawned>>

\* the task manager's kill button; the speaker is silenced next
kill_without_silence(t) ==       \* (faulty variant)
  /\ InLoop
  /\ t > 0 /\ tasks[t].active
  /\ tasks' = [tasks EXCEPT ![t] = Unused]
  /\ UNCHANGED <<rsp, cpu, current_task, num_tasks, wake, tone, sound_muted,
                 image, toRead, install, spawned>>

kill(t) ==
  /\ InLoop
  /\ t > 0 /\ tasks[t].active
  /\ tasks' = [tasks EXCEPT ![t] = Unused]
  /\ Goto("quiet")
  /\ UNCHANGED <<rsp, current_task, num_tasks, wake, tone, sound_muted, image,
                 toRead, install, spawned>>

\* the play_freq(0) those three buttons end with
quiet == cpu.pc = "quiet" /\ Goto("run") /\ play_freq(0)

\* START
cmd_start ==
  /\ InLoop /\ spawned < MaxSpawns
  /\ has_free_task_slot
  /\ create_task("worker")
  /\ UNCHANGED <<cpu, current_task, tone, sound_muted, image, toRead, install>>

load_without_check ==            \* (faulty variant)
  /\ InLoop /\ spawned < MaxSpawns
  /\ image' = NoImage
  /\ toRead' = AppSectors
  /\ Goto("load")
  /\ UNCHANGED <<tasks, rsp, current_task, num_tasks, wake, tone, sound_muted,
                 install, spawned>>

\* RUNAPP, or OPEN on a .BIN file: load_and_run_bin clears the fixed app
\* region first, whether or not an app is running there
load_and_run_bin ==
  /\ InLoop /\ spawned < MaxSpawns
  /\ has_free_task_slot
  /\ image' = NoImage
  /\ toRead' = AppSectors
  /\ Goto("load")
  /\ UNCHANGED <<tasks, rsp, current_task, num_tasks, wake, tone, sound_muted,
                 install, spawned>>

\* one disk_read_auto of its loop; on a read error it returns at once
load_sector ==
  /\ cpu.pc = "load" /\ toRead > 0
  /\ \/ toRead' = toRead - 1 /\ UNCHANGED cpu
     \/ toRead' = 0 /\ Goto("run")
  /\ UNCHANGED <<tasks, rsp, current_task, num_tasks, wake, tone, sound_muted,
                 image, install, spawned>>

\* with a valid signature the app becomes a task
load_done ==
  /\ cpu.pc = "load" /\ toRead = 0
  /\ Goto("run")
  /\ \/ create_task("app") /\ image' = spawned + 1
     \/ UNCHANGED <<tasks, rsp, num_tasks, wake, spawned, image>>
  /\ UNCHANGED <<current_task, tone, sound_muted, toRead, install>>

\* INSTALL starts a download if a slot is free now ...
cmd_install ==
  /\ InLoop /\ ~install
  /\ has_free_task_slot
  /\ install' = TRUE
  /\ UNCHANGED <<tasks, rsp, cpu, current_task, num_tasks, wake, tone,
                 sound_muted, image, toRead, spawned>>

\* ... which ends frames later with an ELF that runs, or with an error
install_elf ==
  /\ InLoop /\ install /\ spawned < MaxSpawns
  /\ install' = FALSE
  /\ create_task("elf")
  /\ UNCHANGED <<cpu, current_task, tone, sound_muted, image, toRead>>

install_failed ==
  /\ InLoop /\ install
  /\ install' = FALSE
  /\ UNCHANGED <<tasks, rsp, cpu, current_task, num_tasks, wake, tone,
                 sound_muted, image, toRead, spawned>>

-----------------------------------------------------------------------------
Next ==
  \/ schedule
  \/ yield \/ sleep_return \/ syscall_sound \/ syscall_freq
  \/ kernel_sleep \/ kernel_sound \/ kernel_freq \/ toggle_mute
  \/ \E t \in Slots : toggle_pause(t) \/ kill(t)
  \/ quiet
  \/ cmd_start \/ load_and_run_bin \/ load_sector \/ load_done
  \/ cmd_install \/ install_elf \/ install_failed

Spec == Init /\ [][Next]_vars

(***************************************************************************)
(* The PIT fires whenever interrupts are enabled.  A task that is scheduled *)
(* executes about a millisecond of instructions before the next tick, so a *)
(* step it can take in every quantum is taken: strong fairness, because the *)
(* switch to another task disables the step in between.                    *)
(***************************************************************************)
Fairness ==
  /\ WF_vars(schedule)
  /\ \A s \in Slots : SF_vars(current_task = s /\ sleep_return)
  /\ SF_vars(quiet)
  /\ SF_vars(load_sector)
  /\ SF_vars(load_done)

FairSpec == Spec /\ Fairness

-----------------------------------------------------------------------------
(* Properties.                                                             *)

\* Every variable has its type.
TypeOK ==
  /\ tasks \in [Slots -> [active : BOOLEAN, paused : BOOLEAN]]
  /\ rsp \in [Slots -> Contexts]
  /\ cpu \in Contexts
  /\ current_task \in Slots
  /\ num_tasks \in 1 .. MaxTasks
  /\ wake \in [Slots -> 0 .. MaxSleep]
  /\ tone \in Slots \cup {NoTone}
  /\ sound_muted \in BOOLEAN
  /\ image \in Spawns \cup {NoImage}
  /\ toRead \in 0 .. AppSectors
  /\ install \in BOOLEAN
  /\ spawned \in 1 .. MaxSpawns

\* The processor only ever executes a task that is active and not paused,
\* whatever the task manager did while that task was preempted.
RunningIsRunnable == tasks[current_task].active /\ ~tasks[current_task].paused

\* While an app is loaded, over many timer ticks, the slot load_and_run_bin
\* found free at its start stays free: "BINGO! FLUMMI" is never said in vain.
LoadKeepsItsSlot == Live[0].pc = "load" => Free # {}

\* Every active slot resumes its own context: no stack is shared by two
\* slots, and slot 0 is always the kernel's.  A switch that saved the
\* registers to the wrong slot would lose one task and run another twice.
ContextsDistinct ==
  /\ Live[0].spawn = 0
  /\ \A s, t \in Slots : tasks[s].active /\ tasks[t].active /\ s # t
                           => Live[s].spawn # Live[t].spawn

\* No tone outlives the task that started it: once a task is paused or
\* killed, play_freq(0) is the kernel's very next step.
NoOrphanTone ==
  tone # NoTone => \/ tasks[tone].active /\ ~tasks[tone].paused
                   \/ Live[0].pc = "quiet"

\* Mute silences every task, apps included, and keeps them silent.
MutedIsSilent == sound_muted => tone = NoTone \/ Live[0].pc = "quiet"

\* A killed task never comes back, and only the kill button makes one
\* disappear: create_task never takes the slot of a task that is active.
TaskLifecycle ==
  [][/\ LiveSpawns' \subseteq LiveSpawns \cup {spawned + 1}
     /\ LiveSpawns \subseteq LiveSpawns' \/ \E t \in Slots : kill(t)]_vars

\* Round robin starves nobody: a task that stays active and unpaused gets the
\* processor again and again.
NoStarvation ==
  \A s \in Slots :
    <>[](tasks[s].active /\ ~tasks[s].paused) => []<>(current_task = s)

\* sleep_ms comes to an end, for every caller, unless the caller is paused or
\* killed first.
SleepEnds ==
  \A s \in Slots :
    tasks[s].active /\ Live[s].pc \in {"sleep", "sound"}
      ~> \/ Live[s].pc \notin {"sleep", "sound"}
         \/ ~tasks[s].active \/ tasks[s].paused

-----------------------------------------------------------------------------
(* The task table implements Multitasking: a task is a spawn, wherever its *)
(* slot and its stack are.                                                 *)

ReadySpawns  == {Live[s].spawn : s \in {t \in Slots : tasks[t].active /\ ~tasks[t].paused}}
PausedSpawns == {Live[s].spawn : s \in {t \in Slots : tasks[t].active /\ tasks[t].paused}}

Abstract == INSTANCE Multitasking WITH
  Tasks <- Spawns, Kernel <- 0, Idle <- 1,
  born <- 0 .. spawned, ready <- ReadySpawns, paused <- PausedSpawns,
  running <- cpu.spawn

\* Every step of the kernel is a step of Multitasking, or one no program sees:
\* a slot that is taken again, a stack that is switched or a table that is
\* full never creates, revives, loses, pauses or runs a task behind the
\* kernel's back.
ImplementsMultitasking == Abstract!Spec

-----------------------------------------------------------------------------
\* An app executes its own code: "64 KB pro Task".
OwnImage == cpu.prog = "app" => image = cpu.spawn

=============================================================================
