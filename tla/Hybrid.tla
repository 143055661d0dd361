------------------------------- MODULE Hybrid -------------------------------
(***************************************************************************)
(* The Linux-hosted variant: the SDL thread polls keyboard and mouse, the  *)
(* Cosmos thread runs the main loop of the desktop, and every GET or       *)
(* INSTALL starts a detached thread that runs curl.  They share plain      *)
(* variables, one temporary file and one buffer, and no lock.              *)
(*                                                                         *)
(* A key is the number of its press, and -1 stands for every release.  A   *)
(* content is the set of the URLs whose bytes are in it: two curls of the  *)
(* same URL write the same bytes to the same place.                        *)
(***************************************************************************)
EXTENDS Integers, FiniteSets

CONSTANTS
  Workers,     \* the threads of curl (bound on how many run at once)
  Urls, NoUrl,
  MaxKeys,     \* presses of keys (bound)
  MaxGets,     \* commands (bound)
  Wait,        \* frames until an unanswered command starts another curl (60)
  Cool,        \* frames that a button rests after it acted (10 .. 25)
  MaxSectors   \* sectors of the longest payload (bound)

ASSUME HybridAssumption ==
  /\ NoUrl \notin Urls
  /\ MaxKeys \in Nat /\ MaxGets \in Nat /\ Wait \in Nat
  /\ Cool \in Nat \ {0} /\ MaxSectors \in Nat \ {0}

VARIABLES
  sdl,                                   \* where the SDL thread is
  linux_scancode, linux_mdown, mouse_just_pressed,
  pressed,                               \* presses of keys so far
  pc,                                    \* where the Cosmos thread is
  d, last,                               \* the key of this frame, the last one before
  mouse_down, input_cooldown,
  active, retry,                         \* pkg_download_active, pkg_syn_retry_cooldown
  complete, buffer, browser_url,         \* browser_download_complete, _buffer and _len
  sectors, saved,                        \* written of the payload, and what
  gets,                                  \* commands so far
  at, url, file,                         \* the curls and /tmp/meinos_http.bin
  acts,                                  \* buttons that acted since the last press
  alone                                  \* one curl only has run since the last command

events == <<sdl, linux_scancode, linux_mdown, pressed>>
keyboard == <<d, last>>
mouse == <<mouse_down, mouse_just_pressed, input_cooldown, acts>>
download == <<active, retry, complete, buffer, browser_url, gets, alone>>
disk == <<sectors, saved>>
curls == <<at, url, file>>
vars == <<events, pc, keyboard, mouse, download, disk, curls>>

Init ==
  /\ sdl = "poll" /\ linux_scancode = 0 /\ linux_mdown = FALSE /\ pressed = 0
  /\ pc = "mouse" /\ d = 0 /\ last = 0
  /\ mouse_down = FALSE /\ mouse_just_pressed = FALSE /\ input_cooldown = 0 /\ acts = 0
  /\ active = FALSE /\ retry = 0 /\ complete = FALSE /\ buffer = {} /\ browser_url = NoUrl
  /\ gets = 0 /\ alone = TRUE
  /\ sectors = 0 /\ saved = {}
  /\ at = [w \in Workers |-> "idle"] /\ url = [w \in Workers |-> NoUrl] /\ file = {}

-----------------------------------------------------------------------------
(* The SDL thread.                                                         *)

\* a press is told in two variables, one after the other
MousePress ==
  /\ sdl = "poll" /\ ~linux_mdown
  /\ sdl' = "down" /\ mouse_just_pressed' = TRUE /\ acts' = 0
  /\ UNCHANGED <<linux_scancode, linux_mdown, pressed, mouse_down, input_cooldown>>
MouseDown ==
  /\ sdl = "down"
  /\ sdl' = "poll" /\ linux_mdown' = TRUE
  /\ UNCHANGED <<linux_scancode, pressed, mouse>>
MouseUp ==
  /\ sdl = "poll" /\ linux_mdown
  /\ linux_mdown' = FALSE
  /\ UNCHANGED <<sdl, linux_scancode, pressed, mouse>>

\* the scan code of the last event: of a press, of a release, or 0 of a key
\* that has none; F11 and F12 have the codes of releases
KeyDown ==
  /\ sdl = "poll" /\ pressed < MaxKeys
  /\ pressed' = pressed + 1
  /\ linux_scancode' \in {0, -1, pressed + 1}
  /\ UNCHANGED <<sdl, linux_mdown, mouse>>
KeyUp ==
  /\ sdl = "poll" /\ pressed > 0
  /\ linux_scancode' = -1
  /\ UNCHANGED <<sdl, linux_mdown, pressed, mouse>>

SDL ==
  /\ MousePress \/ MouseDown \/ MouseUp \/ KeyDown \/ KeyUp
  /\ UNCHANGED <<pc, keyboard, download, disk, curls>>

-----------------------------------------------------------------------------
(* The threads of curl.                                                    *)

\* the command is made from the address as it is now; the shell empties the file
\* (faulty variant: the shell appends)
Begin_append(w) ==
  /\ at[w] = "spawned"
  /\ at' = [at EXCEPT ![w] = "curl"] /\ url' = [url EXCEPT ![w] = browser_url]
  /\ UNCHANGED <<file, complete, buffer>>
Begin(w) ==
  /\ at[w] = "spawned"
  /\ at' = [at EXCEPT ![w] = "curl"] /\ url' = [url EXCEPT ![w] = browser_url]
  /\ file' = {}
  /\ UNCHANGED <<complete, buffer>>

Curl(w) ==
  /\ at[w] = "curl"
  /\ file' = file \cup {url[w]}
  /\ UNCHANGED <<at, url, complete, buffer>>

\* the server closes, refuses, or --max-time is over
CurlEnd(w) ==
  /\ at[w] = "curl"
  /\ at' = [at EXCEPT ![w] = "read"] /\ url' = [url EXCEPT ![w] = NoUrl]
  /\ UNCHANGED <<file, complete, buffer>>

Read(w) ==
  /\ at[w] = "read"
  /\ at' = [at EXCEPT ![w] = "flag"] /\ buffer' = file
  /\ UNCHANGED <<url, file, complete>>

\* (faulty variant: it does not report)
Finish_silent(w) ==
  /\ at[w] = "flag"
  /\ at' = [at EXCEPT ![w] = "idle"]
  /\ UNCHANGED <<url, file, buffer, complete>>
Finish(w) ==
  /\ at[w] = "flag"
  /\ at' = [at EXCEPT ![w] = "idle"] /\ complete' = TRUE
  /\ UNCHANGED <<url, file, buffer>>

Worker(w) ==
  /\ Begin(w) \/ Curl(w) \/ CurlEnd(w) \/ Read(w) \/ Finish(w)
  /\ UNCHANGED <<events, pc, keyboard, mouse, disk, active, retry, browser_url, gets, alone>>

-----------------------------------------------------------------------------
(* A frame of the Cosmos thread.                                           *)

\* send_tcp_syn: another thread, unless the bound on them is reached
Spawn ==
  \/ \E w \in Workers : at[w] = "idle" /\ at' = [at EXCEPT ![w] = "spawned"]
  \/ (\A w \in Workers : at[w] # "idle") /\ UNCHANGED at

\* (faulty variant: a button that stays down is a press in every frame)
ReadMouse_level ==
  /\ pc = "mouse" /\ pc' = "key"
  /\ mouse_down' = linux_mdown /\ mouse_just_pressed' = linux_mdown
  /\ input_cooldown' = IF input_cooldown > 0 THEN input_cooldown - 1 ELSE 0
  /\ UNCHANGED <<events, keyboard, acts, download, disk, curls>>
ReadMouse ==
  /\ pc = "mouse" /\ pc' = "key"
  /\ mouse_down' = linux_mdown /\ mouse_just_pressed' = (linux_mdown /\ ~mouse_down)
  /\ input_cooldown' = IF input_cooldown > 0 THEN input_cooldown - 1 ELSE 0
  /\ UNCHANGED <<events, keyboard, acts, download, disk, curls>>

ReadKey ==
  /\ pc = "key"
  /\ IF linux_scancode = 0 THEN pc' = "retry" /\ UNCHANGED d
                           ELSE pc' = "clear" /\ d' = linux_scancode
  /\ UNCHANGED <<events, last, mouse, download, disk, curls>>

\* what came since the key was read is lost
\* (faulty variant: the scan code stays)
ClearKey_not ==
  /\ pc = "clear" /\ pc' = "retry"
  /\ UNCHANGED <<events, keyboard, mouse, download, disk, curls>>
ClearKey ==
  /\ pc = "clear" /\ pc' = "retry"
  /\ linux_scancode' = 0
  /\ UNCHANGED <<sdl, linux_mdown, pressed, keyboard, mouse, download, disk, curls>>

\* browser_tcp.state is 0 for ever
Retry ==
  /\ pc = "retry" /\ pc' = "complete"
  /\ \/ ~active /\ UNCHANGED <<retry, alone, at>>
     \/ active /\ retry < Wait /\ retry' = retry + 1 /\ UNCHANGED <<alone, at>>
     \/ active /\ retry = Wait /\ retry' = 0 /\ alone' = FALSE /\ Spawn
  /\ UNCHANGED <<events, keyboard, mouse, active, complete, buffer, browser_url, gets, disk, url, file>>

\* the download has ended: with a header and a free slot the payload is saved
Complete ==
  /\ pc = "complete"
  /\ IF active /\ complete
     THEN /\ active' = FALSE
          /\ pc' = "keys" \/ (buffer # {} /\ pc' = "save")
     ELSE pc' = "keys" /\ UNCHANGED active
  /\ UNCHANGED <<events, keyboard, mouse, retry, complete, buffer, browser_url, gets, alone, disk, curls>>

\* one sector from the buffer as it is now
Save ==
  /\ pc = "save"
  /\ saved' = saved \cup buffer
  /\ \/ pc' = "keys" /\ sectors' = 0
     \/ pc' = "save" /\ sectors' = sectors + 1 /\ sectors' < MaxSectors
  /\ UNCHANGED <<events, keyboard, mouse, download, curls>>

\* ENTER after GET or INSTALL and an address
Get ==
  /\ pc = "keys" /\ pc' = "draw"
  /\ d > 0 /\ gets < MaxGets
  /\ \E u \in Urls : browser_url' = u
  /\ gets' = gets + 1 /\ saved' = {}
  /\ active' = TRUE /\ complete' = FALSE /\ buffer' = {}
  /\ alone' = (\A w \in Workers : at[w] = "idle")
  /\ Spawn
  /\ UNCHANGED <<events, keyboard, mouse, retry, sectors, url, file>>

\* no key, a release, or any other key
OtherKey ==
  /\ pc = "keys" /\ pc' = "draw"
  /\ UNCHANGED <<events, keyboard, mouse, download, disk, curls>>

\* a button of a window acts while it is drawn
Button ==
  /\ pc = "draw" /\ mouse_just_pressed /\ input_cooldown = 0
  /\ input_cooldown' = Cool /\ acts' = acts + 1
  /\ UNCHANGED <<events, pc, keyboard, mouse_down, mouse_just_pressed, download, disk, curls>>

EndFrame ==
  /\ pc = "draw" /\ pc' = "mouse"
  /\ mouse_just_pressed' = FALSE
  /\ d' = 0 /\ last' = IF d > 0 THEN d ELSE last
  /\ UNCHANGED <<events, mouse_down, input_cooldown, acts, download, disk, curls>>

Cosmos ==
  \/ ReadMouse \/ ReadKey \/ ClearKey \/ Retry \/ Complete \/ Save
  \/ Get \/ OtherKey \/ Button \/ EndFrame

-----------------------------------------------------------------------------
Next == SDL \/ Cosmos \/ \E w \in Workers : Worker(w)

\* the kernel of the host runs every thread, and --max-time ends every curl
Fairness ==
  /\ WF_vars(Cosmos)
  /\ \A w \in Workers : WF_vars(Worker(w) /\ at' # at)

Spec == Init /\ [][Next]_vars /\ Fairness

-----------------------------------------------------------------------------
(* Properties.                                                             *)

\* The variables have their types.
TypeOK ==
  /\ sdl \in {"poll", "down"} /\ pressed \in 0 .. MaxKeys
  /\ linux_scancode \in -1 .. MaxKeys /\ linux_mdown \in BOOLEAN
  /\ pc \in {"mouse", "key", "clear", "retry", "complete", "save", "keys", "draw"}
  /\ d \in -1 .. MaxKeys /\ last \in 0 .. MaxKeys
  /\ mouse_down \in BOOLEAN /\ mouse_just_pressed \in BOOLEAN
  /\ input_cooldown \in 0 .. Cool /\ acts \in Nat
  /\ active \in BOOLEAN /\ retry \in 0 .. Wait /\ complete \in BOOLEAN
  /\ buffer \subseteq Urls \cup {NoUrl} /\ browser_url \in Urls \cup {NoUrl}
  /\ gets \in 0 .. MaxGets /\ alone \in BOOLEAN
  /\ sectors \in 0 .. MaxSectors - 1 /\ saved \subseteq Urls \cup {NoUrl}
  /\ at \in [Workers -> {"idle", "spawned", "curl", "read", "flag"}]
  /\ url \in [Workers -> Urls \cup {NoUrl}] /\ file \subseteq Urls \cup {NoUrl}

\* A press of a key is handled at most once, and the presses in their order,
\* although the two threads share one byte and one of them clears it: keys
\* may be lost and are never repeated or swapped.
KeysInOrder == d > 0 => d > last

\* Both threads turn the button into mouse_just_pressed, so two frames may
\* take one press for their own; two buttons may act on it and never more.
ActsTwice == acts <= 2

\* What is saved comes from the address of the last command, if no other
\* curl ran since then: the file and the buffer keep nothing of an earlier
\* download.
SavedIsAsked == alone => saved \subseteq {browser_url}

\* Every command ends: its curl or a later one reports, though nothing was
\* received.
GetEnds == active ~> ~active
=============================================================================
