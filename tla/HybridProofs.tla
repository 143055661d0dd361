---------------------------- MODULE HybridProofs ----------------------------
(***************************************************************************)
(* Proofs about Hybrid, for any number of threads, addresses, keys and     *)
(* commands.                                                               *)
(***************************************************************************)
EXTENDS Hybrid, TLAPS

\* The scan code that waits is of a later press than the keys that were
\* handled, from the moment the Cosmos thread has cleared the last one.
KInv ==
  /\ last <= pressed /\ d <= pressed /\ linux_scancode <= pressed
  /\ d > 0 => d > last
  /\ linux_scancode > 0 => linux_scancode > last
  /\ pc \in {"mouse", "key"} => d = 0
  /\ pc \notin {"mouse", "key", "clear"} /\ d > 0 /\ linux_scancode > 0 => linux_scancode > d

\* A button may act once on the press this frame takes, and once on the one
\* that the Cosmos thread is still to see.
Now == IF mouse_just_pressed /\ input_cooldown = 0 THEN 1 ELSE 0
Later == IF sdl = "down" \/ (linux_mdown /\ ~mouse_down) THEN 1 ELSE 0
MInv ==
  /\ sdl = "down" => ~linux_mdown
  /\ acts + Now + Later <= 2

\* The only curl has the address of the command, and what it passes on.
Ours == {browser_url}
DInv ==
  alone =>
    /\ \A v, w \in Workers : at[v] # "idle" /\ at[w] # "idle" => v = w
    /\ \A w \in Workers : at[w] = "curl" => url[w] = browser_url
    /\ \A w \in Workers : at[w] \in {"curl", "read"} => file \subseteq Ours
    /\ buffer \subseteq Ours /\ saved \subseteq Ours

IInv == TypeOK /\ KInv /\ MInv /\ DInv

\* Before the first frame.
LEMMA InitOK == Init => IInv
<1> SUFFICES ASSUME Init PROVE IInv  OBVIOUS
<1> USE HybridAssumption DEF Init
<1>1. TypeOK
  <2>1. 0 \in 0 .. MaxKeys /\ 0 \in -1 .. MaxKeys /\ 0 \in 0 .. Cool /\ 0 \in 0 .. Wait
        /\ 0 \in 0 .. MaxGets /\ 0 \in 0 .. MaxSectors - 1 /\ 0 \in Nat
    OBVIOUS
  <2> QED  BY <2>1, Zenon DEF TypeOK
<1>2. KInv  BY DEF KInv
<1>3. MInv  BY DEF MInv, Now, Later
<1>4. DInv  BY DEF DInv
<1> QED  BY <1>1, <1>2, <1>3, <1>4 DEF IInv

-----------------------------------------------------------------------------
(* The variables have their types.                                         *)

\* The SDL thread.
LEMMA SDLType == TypeOK /\ SDL => TypeOK'
<1> SUFFICES ASSUME TypeOK, SDL PROVE TypeOK'  OBVIOUS
<1> USE HybridAssumption DEF TypeOK, SDL, keyboard, mouse, download, disk, curls
<1>1. CASE MousePress  BY <1>1 DEF MousePress
<1>2. CASE MouseDown  BY <1>2 DEF MouseDown
<1>3. CASE MouseUp  BY <1>3 DEF MouseUp
<1>4. CASE KeyDown  BY <1>4 DEF KeyDown
<1>5. CASE KeyUp  BY <1>5 DEF KeyUp
<1> QED  BY <1>1, <1>2, <1>3, <1>4, <1>5

\* A thread of a download.
LEMMA WorkerType == TypeOK => \A w \in Workers : Worker(w) => TypeOK'
<1> SUFFICES ASSUME TypeOK, NEW w \in Workers, Worker(w) PROVE TypeOK'  OBVIOUS
<1> USE HybridAssumption DEF TypeOK, Worker, events, keyboard, mouse, disk
<1>1. CASE Begin(w)  BY <1>1 DEF Begin
<1>2. CASE Curl(w)  BY <1>2 DEF Curl
<1>3. CASE CurlEnd(w)  BY <1>3 DEF CurlEnd
<1>4. CASE Read(w)  BY <1>4 DEF Read
<1>5. CASE Finish(w)  BY <1>5 DEF Finish
<1> QED  BY <1>1, <1>2, <1>3, <1>4, <1>5

\* The kernel's thread.
LEMMA CosmosType == TypeOK /\ Cosmos => TypeOK'
<1> SUFFICES ASSUME TypeOK, Cosmos PROVE TypeOK'  OBVIOUS
<1> USE HybridAssumption DEF TypeOK, events, keyboard, mouse, download, disk, curls
<1>1. CASE ReadMouse  BY <1>1 DEF ReadMouse
<1>2. CASE ReadKey  BY <1>2 DEF ReadKey
<1>3. CASE ClearKey  BY <1>3 DEF ClearKey
<1>4. CASE Retry
  <2>1. at' \in [Workers -> {"idle", "spawned", "curl", "read", "flag"}]
    BY <1>4 DEF Retry, Spawn
  <2>2. retry' \in 0 .. Wait  BY <1>4 DEF Retry
  <2>3. alone' \in BOOLEAN  BY <1>4 DEF Retry
  <2> QED  BY <1>4, <2>1, <2>2, <2>3 DEF Retry
<1>5. CASE Complete  BY <1>5 DEF Complete
<1>6. CASE Save  BY <1>6 DEF Save
<1>7. CASE Get
  <2>1. at' \in [Workers -> {"idle", "spawned", "curl", "read", "flag"}]
    BY <1>7 DEF Get, Spawn
  <2>2. gets' \in 0 .. MaxGets /\ browser_url' \in Urls  BY <1>7 DEF Get
  <2>3. alone' \in BOOLEAN  BY <1>7, Zenon DEF Get
  <2> QED  BY <1>7, <2>1, <2>2, <2>3 DEF Get
<1>8. CASE OtherKey  BY <1>8 DEF OtherKey
<1>9. CASE Button  BY <1>9 DEF Button
<1>10. CASE EndFrame
  <2>1. last' \in 0 .. MaxKeys /\ d' \in -1 .. MaxKeys  BY <1>10 DEF EndFrame
  <2> QED  BY <1>10, <2>1 DEF EndFrame
<1> QED  BY <1>1, <1>2, <1>3, <1>4, <1>5, <1>6, <1>7, <1>8, <1>9, <1>10 DEF Cosmos

-----------------------------------------------------------------------------
(* The keys.                                                               *)

\* No step lets an old key overtake a handled one.
LEMMA KeyStep == TypeOK /\ KInv /\ Next => KInv'
<1> SUFFICES ASSUME TypeOK, KInv, Next PROVE KInv'  OBVIOUS
<1> USE DEF TypeOK, KInv
<1>1. CASE SDL
  <2> USE <1>1 DEF SDL, keyboard
  <2>1. CASE KeyDown  BY <2>1 DEF KeyDown
  <2>2. CASE KeyUp  BY <2>2 DEF KeyUp
  <2>3. CASE MousePress \/ MouseDown \/ MouseUp  BY <2>3 DEF MousePress, MouseDown, MouseUp
  <2> QED  BY <2>1, <2>2, <2>3
<1>2. CASE \E w \in Workers : Worker(w)  BY <1>2 DEF Worker, events, keyboard
<1>3. CASE ReadKey  BY <1>3 DEF ReadKey, events
<1>4. CASE ClearKey  BY <1>4 DEF ClearKey, keyboard
<1>5. CASE EndFrame  BY <1>5 DEF EndFrame, events
<1>6. CASE ReadMouse  BY <1>6 DEF ReadMouse, events, keyboard
<1>7. CASE Retry \/ Complete \/ Save \/ Get \/ OtherKey \/ Button
  BY <1>7 DEF Retry, Complete, Save, Get, OtherKey, Button, events, keyboard
<1> QED  BY <1>1, <1>2, <1>3, <1>4, <1>5, <1>6, <1>7 DEF Next, Cosmos

-----------------------------------------------------------------------------
(* The button.                                                             *)

\* No step lets a third button act on a press.
LEMMA MouseStep == TypeOK /\ MInv /\ Next => MInv'
<1> SUFFICES ASSUME TypeOK, MInv, Next PROVE MInv'  OBVIOUS
<1> USE HybridAssumption DEF TypeOK, MInv, Now, Later
<1>1. CASE SDL
  <2> USE <1>1 DEF SDL
  <2>1. CASE MousePress  BY <2>1 DEF MousePress
  <2>2. CASE MouseDown  BY <2>2 DEF MouseDown, mouse
  <2>3. CASE MouseUp  BY <2>3 DEF MouseUp, mouse
  <2>4. CASE KeyDown \/ KeyUp  BY <2>4 DEF KeyDown, KeyUp, mouse
  <2> QED  BY <2>1, <2>2, <2>3, <2>4
<1>2. CASE \E w \in Workers : Worker(w)  BY <1>2 DEF Worker, events, mouse
<1>3. CASE ReadMouse
  <2>1. UNCHANGED <<sdl, linux_mdown, acts>> /\ mouse_down' = linux_mdown
    BY <1>3 DEF ReadMouse, events
  <2>2. CASE linux_mdown /\ ~mouse_down
    <3>1. Later = 1 /\ Later' = 0  BY <2>1, <2>2
    <3>2. Now' \in 0 .. 1 /\ Now \in 0 .. 1  OBVIOUS
    <3> QED  BY <2>1, <3>1, <3>2
  <2>3. CASE ~(linux_mdown /\ ~mouse_down)
    <3>1. ~mouse_just_pressed'  BY <1>3, <2>3 DEF ReadMouse
    <3>2. Now' = 0 /\ Now \in 0 .. 1  BY <3>1
    <3>3. Later' = Later  BY <2>1, <2>3
    <3> QED  BY <2>1, <3>2, <3>3
  <2> QED  BY <2>2, <2>3
<1>4. CASE Button  BY <1>4 DEF Button, events
<1>5. CASE EndFrame  BY <1>5 DEF EndFrame, events
<1>6. CASE ReadKey \/ ClearKey \/ Retry \/ Complete \/ Save \/ Get \/ OtherKey
  <2>1. UNCHANGED <<sdl, linux_mdown, mouse>>  BY <1>6, Zenon DEF ReadKey, ClearKey, Retry, Complete, Save, Get, OtherKey, events
  <2> QED  BY <2>1 DEF mouse
<1> QED  BY <1>1, <1>2, <1>3, <1>4, <1>5, <1>6 DEF Next, Cosmos

-----------------------------------------------------------------------------
(* The downloads.                                                          *)

\* No step brings foreign bytes to a command that is alone.
LEMMA DownloadStep == TypeOK /\ DInv /\ Next => DInv'
<1> SUFFICES ASSUME TypeOK, DInv, Next PROVE DInv'  OBVIOUS
<1> USE DEF TypeOK, DInv, Ours
<1>1. CASE SDL  BY <1>1 DEF SDL, download, disk, curls
<1>2. ASSUME NEW w \in Workers, Worker(w) PROVE DInv'
  <2> USE <1>2 DEF Worker, disk
  <2>1. CASE Begin(w)  BY <2>1 DEF Begin
  <2>2. CASE Curl(w)  BY <2>2 DEF Curl
  <2>3. CASE CurlEnd(w)  BY <2>3 DEF CurlEnd
  <2>4. CASE Read(w)  BY <2>4 DEF Read
  <2>5. CASE Finish(w)  BY <2>5 DEF Finish
  <2> QED  BY <2>1, <2>2, <2>3, <2>4, <2>5
<1>3. CASE Retry  BY <1>3 DEF Retry, disk
<1>4. CASE Get
  <2>1. CASE \E w \in Workers : at[w] = "idle" /\ at' = [at EXCEPT ![w] = "spawned"]
    BY <1>4, <2>1 DEF Get
  <2>2. CASE (\A w \in Workers : at[w] # "idle") /\ UNCHANGED at
    BY <1>4, <2>2 DEF Get
  <2> QED  BY <1>4, <2>1, <2>2 DEF Get, Spawn
<1>5. CASE Save  BY <1>5 DEF Save, download, curls
<1>6. CASE Complete  BY <1>6 DEF Complete, disk, curls
<1>7. CASE ReadMouse \/ ReadKey \/ ClearKey \/ OtherKey \/ Button \/ EndFrame
  BY <1>7 DEF ReadMouse, ReadKey, ClearKey, OtherKey, Button, EndFrame, download, disk, curls
<1> QED  BY <1>1, <1>2, <1>3, <1>4, <1>5, <1>6, <1>7 DEF Next, Cosmos

-----------------------------------------------------------------------------
\* A step of nobody.
LEMMA StutterOK == IInv /\ UNCHANGED vars => IInv'
BY DEF IInv, vars, TypeOK, KInv, MInv, DInv, Now, Later, Ours, events, keyboard, mouse, download, disk, curls

\* The invariant holds in every state, for any constants.
THEOREM Invariant == Spec => []IInv
<1>1. Init => IInv  BY InitOK
<1>2. IInv /\ [Next]_vars => IInv'
  <2> SUFFICES ASSUME IInv, [Next]_vars PROVE IInv'  OBVIOUS
  <2>1. CASE Next
    <3>1. TypeOK'  BY <2>1, SDLType, WorkerType, CosmosType DEF IInv, Next
    <3> QED  BY <2>1, <3>1, KeyStep, MouseStep, DownloadStep DEF IInv
  <2>2. CASE UNCHANGED vars  BY <2>2, StutterOK
  <2> QED  BY <2>1, <2>2
<1> QED  BY <1>1, <1>2, PTL DEF Spec

\* The variables of the hybrid have their types.
THEOREM HybridTypes == Spec => []TypeOK
<1>1. IInv => TypeOK  BY DEF IInv
<1> QED  BY <1>1, Invariant, PTL

\* For any number of presses: no key is handled twice or before an earlier one.
THEOREM KeysStayInOrder == Spec => []KeysInOrder
<1>1. IInv => KeysInOrder  BY DEF IInv, KInv, KeysInOrder
<1> QED  BY <1>1, Invariant, PTL

\* However the two threads run: at most two buttons act on one press.
THEOREM PressActsTwice == Spec => []ActsTwice
<1>1. IInv => ActsTwice  BY DEF IInv, TypeOK, MInv, Now, Later, ActsTwice
<1> QED  BY <1>1, Invariant, PTL

\* For any addresses and threads: a download that ran alone saves nothing of
\* another one.
THEOREM AloneSavesAsked == Spec => []SavedIsAsked
<1>1. IInv => SavedIsAsked  BY DEF IInv, DInv, Ours, SavedIsAsked
<1> QED  BY <1>1, Invariant, PTL
=============================================================================
