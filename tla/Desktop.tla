------------------------------ MODULE Desktop ------------------------------
(***************************************************************************)
(* The desktop of OS2: one turn (frame) of the main loop of kernel_main    *)
(* reads the keyboard and the mouse, hands the key and the press to the    *)
(* windows, and draws the windows from the lowest to the top one.  The     *)
(* buttons of a window act while it is drawn, so the order of the windows  *)
(* may change under the loop that walks through it.                        *)
(*                                                                         *)
(* The layout is left open: any shown window may be the one under the      *)
(* pointer, and any of its parts and buttons.  Programs run between any    *)
(* two steps and may take the key (system call 2).                         *)
(***************************************************************************)
EXTENDS Integers

CONSTANTS
  Windows,   \* the windows: of the kernel's 0 .. 13, those of this instance
  Top,       \* how many they are: the index of the top one in win_z
  Order,     \* win_z at boot
  Cool       \* frames that a button rests after it acted (bound for 10 .. 25)

\* every window once
IsOrder(z) ==
  /\ z \in [1 .. Top -> Windows]
  /\ \A w \in Windows : \E n \in 1 .. Top : z[n] = w
  /\ \A m, n \in 1 .. Top : z[m] = z[n] => m = n

ASSUME DesktopAssumption ==
  /\ Windows \subseteq 0 .. 13 /\ Top \in Nat \ {0} /\ Cool \in Nat \ {0}
  /\ IsOrder(Order)

Notepad == 0
Launcher == 1
SaveAs == 2
Console == 5
Browser == 8
Games == {11, 12}                              \* Pong and Blobby Volley
Engines == {Browser, 10} \cup Games             \* drawn by arcade.cpp
Debug == 13
NoWindow == -1
Planets == {Notepad, Launcher, 3, 4, Console} \cap Windows
Hotkeys == {Notepad, Launcher, 3, 4, Console, Debug} \cap Windows
\* <<w, v>>: a button of window w opens window v
Opens == {<<Notepad, SaveAs>>, <<4, Notepad>>, <<3, Debug>>} \cup ({Launcher} \X Engines)

\* a key is a character or the F key of a window
NoKey == -1
Character == 14
Keys == Hotkeys \cup {Character}

VARIABLES
  pc, i,                \* where the frame is; the index of the loop over win_z
  key,                  \* key_scancode while key_ready
  last_app_key,         \* the key's character, for browser and programs
  mouse_down, mouse_just_pressed, input_cooldown,
  win_z, open, minimized, drag_win, resize_win,
  consumed,             \* z_blocked or click_consumed
  modal,                \* is_modal_blocked
  \* what the windows did, for the properties
  took,                 \* windows that took the key in the last step
  acts,                 \* buttons that acted since the mouse button was last up
  drawn                 \* windows drawn in this frame

input == <<key, last_app_key, mouse_down, mouse_just_pressed>>
layout == <<win_z, open, minimized>>
grabs == <<drag_win, resize_win>>
seen == <<acts, drawn>>
vars == <<pc, i, input, input_cooldown, layout, grabs, consumed, modal, took, seen>>

Shown == open \ minimized

Init ==
  /\ pc = "input" /\ i = 1
  /\ key = NoKey /\ last_app_key = NoKey
  /\ mouse_down = FALSE /\ mouse_just_pressed = FALSE /\ input_cooldown = 0
  /\ win_z = Order /\ open = {} /\ minimized = {}
  /\ drag_win = NoWindow /\ resize_win = NoWindow
  /\ consumed = FALSE /\ modal = FALSE
  /\ took = {} /\ acts = 0 /\ drawn = {}

-----------------------------------------------------------------------------
(* The order of the windows.                                               *)

\* focus_window: the windows above id come down by one
\* (faulty variant: they stay where they are)
focused_in_place(z, id) == [z EXCEPT ![Top] = id]
focused(z, id) ==
  LET found_at == CHOOSE n \in 1 .. Top : z[n] = id
  IN  [n \in 1 .. Top |->
         IF n < found_at THEN z[n] ELSE IF n < Top THEN z[n + 1] ELSE id]

OpenOnTop(w) ==
  /\ open' = open \cup {w} /\ minimized' = minimized \ {w}
  /\ win_z' = focused(win_z, w)

toggle_app(w) ==
  IF w \in Shown /\ win_z[Top] = w
  THEN minimized' = minimized \cup {w} /\ UNCHANGED <<win_z, open>>
  ELSE OpenOnTop(w)

-----------------------------------------------------------------------------
(* Input.                                                                  *)

\* handle_input and update_mouse_position: every packet of the frame tells
\* the button, and a press counts only if the last packet brought it; of the
\* bytes from the keyboard only the last one is kept, and a break code is no key
HandleInput ==
  /\ pc = "input" /\ pc' = "keys"
  /\ \E k \in Keys \cup {NoKey} : key' = k
  /\ \/ UNCHANGED <<mouse_down, acts>> /\ mouse_just_pressed' = FALSE
     \/ \E before, now \in BOOLEAN :       \* the last two packets
          /\ mouse_down' = now /\ mouse_just_pressed' = (now /\ ~before)
          /\ acts' = IF before /\ now /\ mouse_down THEN acts ELSE 0
  /\ input_cooldown' = IF input_cooldown > 0 THEN input_cooldown - 1 ELSE 0
  /\ consumed' = FALSE /\ drawn' = {}
  /\ UNCHANGED <<i, last_app_key, layout, grabs, modal, took>>

\* the window on top takes the key if it is shown, the dialog in any case
Takes == IF win_z'[Top] \in open' \ minimized' \/ win_z'[Top] = SaveAs
         THEN {win_z'[Top]} \cap {Notepad, Console, SaveAs} ELSE {}
Keyboard ==
  /\ pc = "keys" /\ pc' = "route"
  /\ key' = NoKey
  /\ \/ /\ key = NoKey
        /\ took' = {} /\ UNCHANGED <<last_app_key, layout>>
     \/ /\ key = Character
        /\ last_app_key' = Character /\ UNCHANGED layout
        /\ took' = Takes
     \/ /\ key \notin {NoKey, Character}
        /\ toggle_app(key)
        /\ last_app_key' = NoKey /\ took' = {}
  /\ UNCHANGED <<i, mouse_down, mouse_just_pressed, input_cooldown, grabs, consumed, modal, seen>>

-----------------------------------------------------------------------------
(* The pointer and the windows' frames.                                    *)

Held == mouse_down /\ (drag_win # NoWindow \/ resize_win # NoWindow)

\* with the button up no window follows the pointer
\* (faulty variant: a window that is resized goes on with it)
LetGo_drag ==
  /\ drag_win' = IF mouse_down THEN drag_win ELSE NoWindow
  /\ resize_win' = resize_win
LetGo ==
  /\ drag_win' = IF mouse_down THEN drag_win ELSE NoWindow
  /\ resize_win' = IF mouse_down THEN resize_win ELSE NoWindow

\* the window follows the pointer
Follow ==
  /\ Held
  /\ consumed' = TRUE
  /\ UNCHANGED <<layout, grabs>>

\* the press goes to the topmost window under the pointer
PressFrame(k) ==
  /\ ~Held /\ mouse_just_pressed
  /\ k \in Shown
  /\ consumed' = TRUE
  /\ win_z' = focused(win_z, k)
  /\ \/ UNCHANGED <<open, minimized, grabs>>   \* the inside, FULL, or a title button too soon
     \/ minimized' = minimized \cup {k} /\ UNCHANGED <<open, grabs>>
     \/ open' = open \ {k} /\ UNCHANGED <<minimized, grabs>>
     \/ drag_win' = k /\ UNCHANGED <<open, minimized, resize_win>>
     \/ resize_win' = k /\ UNCHANGED <<open, minimized, drag_win>>

Pass ==
  /\ ~Held
  /\ consumed' \in {FALSE, Shown # {} /\ ~mouse_just_pressed}
  /\ LetGo /\ UNCHANGED layout

Route ==
  /\ pc = "route" /\ pc' = "space"
  /\ Follow \/ Pass \/ \E k \in Windows : PressFrame(k)
  /\ took' = {}
  /\ UNCHANGED <<i, input, input_cooldown, modal, seen>>

\* the galaxy and the planets behind the windows
Space ==
  /\ pc = "space" /\ pc' = "draw" /\ i' = 1
  /\ \/ UNCHANGED <<layout, consumed>>
     \/ /\ mouse_just_pressed /\ ~consumed
        /\ consumed' = TRUE
        /\ \/ UNCHANGED layout                 \* the galaxy opens or closes
           \/ \E w \in Planets :
                IF w \in minimized
                THEN minimized' = minimized \ {w} /\ UNCHANGED <<win_z, open>>
                ELSE open' = open \cup {w} /\ win_z' = focused(win_z, w) /\ UNCHANGED minimized
  /\ modal' = (SaveAs \in open' \ minimized')
  /\ UNCHANGED <<input, input_cooldown, grabs, took, seen>>

-----------------------------------------------------------------------------
(* Drawing.                                                                *)

\* the launcher and the engines look at the dialog, the games' START at
\* nothing, the others at the order
MayAct(k) ==
  /\ mouse_just_pressed /\ input_cooldown = 0
  /\ k \notin {Console, Debug}
  /\ IF k \in Engines \cup {Launcher} THEN modal => k \in Games ELSE win_z[Top] = k

\* a button of window k acts
\* (faulty variant: it does not rest)
Act_again(k) ==
  /\ MayAct(k)
  /\ acts' = acts + 1 /\ input_cooldown' = 0
  /\ \/ UNCHANGED layout
     \/ \E v \in Windows : <<k, v>> \in Opens /\ (v = Debug => v \notin open) /\ OpenOnTop(v)
     \/ k = SaveAs /\ open' = open \ {k} /\ UNCHANGED <<win_z, minimized>>
Act(k) ==
  /\ MayAct(k)
  /\ acts' = acts + 1 /\ input_cooldown' = Cool
  /\ \/ UNCHANGED layout
     \/ \E v \in Windows : <<k, v>> \in Opens /\ (v = Debug => v \notin open) /\ OpenOnTop(v)
     \/ k = SaveAs /\ open' = open \ {k} /\ UNCHANGED <<win_z, minimized>>

\* the game is over: a click returns to its menu, whether it rests or not
Return(k) ==
  /\ k \in Games /\ mouse_just_pressed /\ ~modal
  /\ input_cooldown' = Cool
  /\ UNCHANGED <<layout, acts>>

\* the browser takes the characters it knows when it is second from the top,
\* a game takes ESC wherever it is
TakesInLoop(k) ==
  IF last_app_key = Character /\ (k \in Games \/ (k = Browser /\ Top > 1 /\ win_z[Top - 1] = k))
  THEN SUBSET {k} ELSE {{}}

DrawWindow ==
  LET k == win_z[i]
  IN  /\ IF k \in Shown
         THEN /\ drawn' = drawn \cup {k}
              /\ took' \in TakesInLoop(k)
              /\ Act(k) \/ Return(k) \/ UNCHANGED <<layout, input_cooldown, acts>>
         ELSE took' = {} /\ UNCHANGED <<layout, input_cooldown, seen>>

\* (faulty variant: the last window is forgotten)
Last_before == Top - 1
Last == Top
Draw ==
  /\ pc = "draw" /\ i <= Last
  /\ DrawWindow
  /\ i' = i + 1
  /\ UNCHANGED <<pc, input, grabs, consumed, modal>>

EndFrame ==
  /\ pc = "draw" /\ i > Last
  /\ pc' = "input" /\ i' = 1
  /\ last_app_key' = NoKey /\ mouse_just_pressed' = FALSE
  /\ took' = {}
  /\ UNCHANGED <<key, mouse_down, input_cooldown, layout, grabs, consumed, modal, seen>>

\* system call 2 of a program
ReadKey ==
  /\ last_app_key # NoKey
  /\ last_app_key' = NoKey /\ took' = {}
  /\ UNCHANGED <<pc, i, key, mouse_down, mouse_just_pressed, input_cooldown, layout, grabs, consumed, modal, seen>>

Next == HandleInput \/ Keyboard \/ Route \/ Space \/ Draw \/ EndFrame \/ ReadKey

Spec == Init /\ [][Next]_vars

-----------------------------------------------------------------------------
(* Properties.                                                             *)

\* The variables have their types, and win_z always holds every window once:
\* focus_window moves a window and loses none.
TypeOK ==
  /\ pc \in {"input", "keys", "route", "space", "draw"} /\ i \in 1 .. Top + 1
  /\ key \in Keys \cup {NoKey} /\ last_app_key \in {NoKey, Character}
  /\ mouse_down \in BOOLEAN /\ mouse_just_pressed \in BOOLEAN
  /\ input_cooldown \in 0 .. Cool
  /\ IsOrder(win_z)
  /\ minimized \subseteq open /\ open \subseteq Windows
  /\ drag_win \in Windows \cup {NoWindow} /\ resize_win \in Windows \cup {NoWindow}
  /\ consumed \in BOOLEAN /\ modal \in BOOLEAN
  /\ took \subseteq Windows /\ acts \in Nat /\ drawn \subseteq Windows

\* At most one window follows the pointer, to be moved or to be resized, and
\* when the windows are drawn it does so only while the button is held.
OneGrab ==
  /\ drag_win = NoWindow \/ resize_win = NoWindow
  /\ pc \in {"space", "draw"} /\ ~mouse_down => drag_win = NoWindow /\ resize_win = NoWindow

\* One press makes at most one button act that waits for the others to rest,
\* over all windows and all frames until the mouse button is released: a
\* window that comes to the top while the windows are drawn does not take
\* the same press again.
OneAct == acts <= 1

\* A frame shows every window that is open and not minimized if no button
\* acted; a button that moves a window to the top under the loop that draws
\* them hides at most one window in this frame.
FrameComplete ==
  pc = "draw" /\ i > Last =>
    /\ \A v, w \in Shown \ drawn : v = w
    /\ ~mouse_just_pressed \/ acts = 0 => Shown \subseteq drawn

\* A key goes to the window with the focus, which is the one on top, if it is
\* shown ("Welches Fenster ist ganz oben (Fokus)?"; arcade.cpp asks the same).
KeysGoToFocus == took \subseteq Shown \cap {win_z[Top]}
=============================================================================
