----------------------------- MODULE Multitasking -----------------------------
(***************************************************************************)
(* What the task table and the timer promise the programs of kernel_main:  *)
(* a set of tasks shares one processor.  Nobody sees slots, stacks or      *)
(* tables.  A task is born once, lives until the kernel kills it, waits    *)
(* while the kernel has it paused, and nothing else happens to it; only a  *)
(* task that is ready executes.  Scheduler implements this specification.  *)
(***************************************************************************)
CONSTANTS Tasks,     \* every task there will ever be
          Kernel,    \* the task that creates, pauses and kills the others
          Idle       \* the task that is there from the beginning, too

VARIABLES born,      \* tasks that were ever created
          ready,     \* tasks that want the processor
          paused,    \* tasks that are kept from it
          running    \* the task that executes

vars == <<born, ready, paused, running>>

Init ==
  /\ born = {Kernel, Idle}
  /\ ready = {Kernel, Idle}
  /\ paused = {}
  /\ running = Kernel

\* the timer gives the processor to a task that is ready
Dispatch(t) ==
  /\ t \in ready
  /\ running' = t
  /\ UNCHANGED <<born, ready, paused>>

Create(t) ==
  /\ running = Kernel
  /\ t \notin born
  /\ born' = born \cup {t}
  /\ ready' = ready \cup {t}
  /\ UNCHANGED <<paused, running>>

Pause(t) ==
  /\ running = Kernel
  /\ t \in ready \ {Kernel}
  /\ ready' = ready \ {t}
  /\ paused' = paused \cup {t}
  /\ UNCHANGED <<born, running>>

Resume(t) ==
  /\ running = Kernel
  /\ t \in paused
  /\ paused' = paused \ {t}
  /\ ready' = ready \cup {t}
  /\ UNCHANGED <<born, running>>

Kill(t) ==
  /\ running = Kernel
  /\ t \in (ready \cup paused) \ {Kernel}
  /\ ready' = ready \ {t}
  /\ paused' = paused \ {t}
  /\ UNCHANGED <<born, running>>

Next ==
  \E t \in Tasks : Dispatch(t) \/ Create(t) \/ Pause(t) \/ Resume(t) \/ Kill(t)

Spec == Init /\ [][Next]_vars

=============================================================================
