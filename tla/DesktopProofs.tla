--------------------------- MODULE DesktopProofs ---------------------------
(***************************************************************************)
(* Proofs about Desktop, for any windows.                                  *)
(***************************************************************************)
EXTENDS Desktop, TLAPS

\* focus_window keeps every window once.
LEMMA FocusKeepsOrder ==
  ASSUME NEW z, IsOrder(z), NEW id \in Windows
  PROVE  IsOrder(focused(z, id)) /\ focused(z, id)[Top] = id
<1> DEFINE at == CHOOSE n \in 1 .. Top : z[n] = id
           y == focused(z, id)
<1>1. Top \in Nat \ {0}  BY DesktopAssumption
<1>2. at \in 1 .. Top /\ z[at] = id
  BY DEF IsOrder
<1>3. y = [n \in 1 .. Top |-> IF n < at THEN z[n] ELSE IF n < Top THEN z[n + 1] ELSE id]
  BY DEF focused
<1> HIDE DEF at, y
<1>4. y[Top] = id
  BY <1>1, <1>2, <1>3
<1>5. y \in [1 .. Top -> Windows]
  BY <1>1, <1>2, <1>3 DEF IsOrder
<1>6. ASSUME NEW w \in Windows PROVE \E n \in 1 .. Top : y[n] = w
  <2>1. PICK m \in 1 .. Top : z[m] = w  BY DEF IsOrder
  <2>2. CASE m < at  BY <1>3, <2>1, <2>2
  <2>3. CASE m = at  BY <1>1, <1>2, <1>4, <2>1, <2>3
  <2>4. CASE m > at
    <3>1. m - 1 \in 1 .. Top /\ ~(m - 1 < at) /\ m - 1 < Top  BY <1>1, <1>2, <2>4
    <3>2. y[m - 1] = z[m]  BY <1>3, <3>1
    <3> QED  BY <2>1, <3>1, <3>2
  <2> QED  BY <1>1, <1>2, <2>2, <2>3, <2>4
<1>7. ASSUME NEW m \in 1 .. Top, NEW n \in 1 .. Top, y[m] = y[n] PROVE m = n
  <2> DEFINE from(k) == IF k < at THEN k ELSE IF k < Top THEN k + 1 ELSE at
  <2>1. \A k \in 1 .. Top : from(k) \in 1 .. Top /\ y[k] = z[from(k)]
    BY <1>1, <1>2, <1>3
  <2>2. from(m) = from(n)
    <3> HIDE DEF from
    <3> QED  BY <1>7, <2>1 DEF IsOrder
  <2> QED  BY <1>1, <1>2, <2>2
<1> QED  BY <1>4, <1>5, <1>6, <1>7 DEF IsOrder, y

\* A press that no button took yet is one that a button may still take.
PressUnused == mouse_just_pressed /\ input_cooldown = 0 => acts = 0
IInv == TypeOK /\ OneGrab /\ OneAct /\ PressUnused /\ (mouse_just_pressed => mouse_down)

\* What may happen to the windows.
LayoutOK(z, o, m) == IsOrder(z) /\ o \subseteq Windows /\ m \subseteq o
\* An opened window is on top of an order that stays a permutation.
LEMMA OpenOK ==
  TypeOK => \A w \in Windows : OpenOnTop(w) => LayoutOK(win_z', open', minimized')
BY FocusKeepsOrder DEF TypeOK, OpenOnTop, LayoutOK

\* A hotkey opens, raises or minimizes one window.
LEMMA ToggleOK ==
  TypeOK => \A w \in Windows : toggle_app(w) => LayoutOK(win_z', open', minimized')
<1> SUFFICES ASSUME TypeOK, NEW w \in Windows, toggle_app(w)
             PROVE  LayoutOK(win_z', open', minimized')
  OBVIOUS
<1>1. CASE w \in Shown /\ win_z[Top] = w
  BY <1>1 DEF TypeOK, toggle_app, Shown, LayoutOK
<1>2. CASE ~(w \in Shown /\ win_z[Top] = w)
  BY <1>2, OpenOK DEF toggle_app
<1> QED  BY <1>1, <1>2

\* A step that leaves the windows alone.
LEMMA UnchangedOK ==
  TypeOK /\ UNCHANGED layout => LayoutOK(win_z', open', minimized')
BY DEF TypeOK, layout, LayoutOK

\* The desktop starts with no press and no window held.
LEMMA InitOK == Init => IInv
<1> SUFFICES ASSUME Init PROVE IInv  OBVIOUS
<1>1. 1 \in 1 .. Top + 1 /\ 0 \in 0 .. Cool  BY DesktopAssumption
<1>2. TypeOK  BY <1>1, DesktopAssumption DEF Init, TypeOK
<1>3. OneGrab /\ OneAct /\ PressUnused /\ (mouse_just_pressed => mouse_down)
  BY DEF Init, OneGrab, OneAct, PressUnused
<1> QED  BY <1>2, <1>3 DEF IInv

-----------------------------------------------------------------------------
\* Reading keyboard and mouse: a fresh press comes only with the button down.
LEMMA InputStep == IInv /\ HandleInput => IInv'
<1> SUFFICES ASSUME IInv, HandleInput PROVE IInv'  OBVIOUS
<1> USE DEF IInv
<1>1. LayoutOK(win_z', open', minimized')
  BY UnchangedOK DEF HandleInput
<1>2. /\ mouse_down' \in BOOLEAN /\ mouse_just_pressed' \in BOOLEAN /\ acts' \in Nat /\ acts' <= 1
      /\ mouse_just_pressed' => mouse_down' /\ acts' = 0
  <2>1. CASE UNCHANGED <<mouse_down, acts>> /\ mouse_just_pressed' = FALSE
    BY <2>1 DEF TypeOK, OneAct
  <2>2. ASSUME NEW before \in BOOLEAN, NEW now \in BOOLEAN,
               mouse_down' = now, mouse_just_pressed' = (now /\ ~before),
               acts' = IF before /\ now /\ mouse_down THEN acts ELSE 0
        PROVE  /\ mouse_down' \in BOOLEAN /\ mouse_just_pressed' \in BOOLEAN
               /\ acts' \in Nat /\ acts' <= 1
               /\ mouse_just_pressed' => mouse_down' /\ acts' = 0
    <3>1. acts' \in Nat /\ acts' <= 1  BY <2>2 DEF TypeOK, OneAct
    <3>2. mouse_just_pressed' => now /\ ~before  BY <2>2, Zenon
    <3>3. mouse_just_pressed' \in BOOLEAN  BY <2>2, Zenon
    <3> QED  BY <2>2, <3>1, <3>2, <3>3
  <2> QED  BY <2>1, <2>2 DEF HandleInput
<1>3. key' \in Keys \cup {NoKey} /\ input_cooldown' \in 0 .. Cool
  BY DesktopAssumption DEF HandleInput, TypeOK
<1> QED
  BY <1>1, <1>2, <1>3 DEF HandleInput, LayoutOK, TypeOK, OneGrab, OneAct, PressUnused, grabs

\* A hotkey may close or minimize the window that is held.
LEMMA KeyboardStep == IInv /\ Keyboard => IInv'
<1> SUFFICES ASSUME IInv, Keyboard PROVE IInv'  OBVIOUS
<1> USE DEF IInv
<1>1. LayoutOK(win_z', open', minimized')
  <2>1. CASE UNCHANGED layout  BY <2>1, UnchangedOK
  <2>2. CASE key \notin {NoKey, Character} /\ toggle_app(key)
    <3>1. key \in Windows  BY <2>2 DEF TypeOK, Keys, Hotkeys
    <3> QED  BY <2>2, <3>1, ToggleOK
  <2> QED  BY <2>1, <2>2 DEF Keyboard
<1>2. took' \subseteq Windows
  <2>1. win_z'[Top] \in Windows  BY <1>1, DesktopAssumption DEF LayoutOK, IsOrder
  <2> QED  BY <2>1 DEF Keyboard, Takes
<1>3. last_app_key' \in {NoKey, Character}  BY DEF Keyboard, TypeOK
<1> QED
  BY <1>1, <1>2, <1>3 DEF Keyboard, LayoutOK, TypeOK, OneGrab, OneAct, PressUnused, grabs, seen

\* A press on a frame takes hold of one window.
LEMMA RouteStep == IInv /\ Route => IInv'
<1> SUFFICES ASSUME IInv, Route PROVE IInv'  OBVIOUS
<1> USE DEF IInv
<1>1. CASE Follow
  <2>1. LayoutOK(win_z', open', minimized')  BY <1>1, UnchangedOK DEF Follow
  <2> QED
    BY <1>1, <2>1 DEF Route, Follow, Held, LayoutOK, TypeOK, OneGrab, OneAct, PressUnused, grabs, input, seen
<1>2. CASE Pass
  <2>1. LayoutOK(win_z', open', minimized')  BY <1>2, UnchangedOK DEF Pass
  <2> QED
    BY <1>2, <2>1 DEF Route, Pass, LetGo, Held, LayoutOK, TypeOK, OneGrab, OneAct, PressUnused, input, seen
<1>3. ASSUME NEW k \in Windows, PressFrame(k) PROVE IInv'
  <2>1. LayoutOK(win_z', open', minimized')
    <3>1. IsOrder(win_z')  BY <1>3, FocusKeepsOrder DEF PressFrame, TypeOK
    <3>2. open' \subseteq Windows /\ minimized' \subseteq open'
      BY <1>3 DEF PressFrame, TypeOK, Shown, grabs
    <3> QED  BY <3>1, <3>2 DEF LayoutOK
  <2>2. drag_win = NoWindow /\ resize_win = NoWindow /\ mouse_down
    BY <1>3 DEF PressFrame, Held
  <2>3. /\ drag_win' \in Windows \cup {NoWindow} /\ resize_win' \in Windows \cup {NoWindow}
        /\ drag_win' = NoWindow \/ resize_win' = NoWindow
    BY <1>3, <2>2 DEF PressFrame, grabs
  <2> QED
    BY <1>3, <2>1, <2>2, <2>3 DEF Route, PressFrame, LayoutOK, TypeOK, OneGrab, OneAct, PressUnused, input, seen
<1> QED  BY <1>1, <1>2, <1>3 DEF Route

\* A press behind the windows opens or restores one of them and holds none.
LEMMA SpaceStep == IInv /\ Space => IInv'
<1> SUFFICES ASSUME IInv, Space PROVE IInv'  OBVIOUS
<1> USE DEF IInv
<1>1. LayoutOK(win_z', open', minimized')
  <2>1. CASE UNCHANGED layout  BY <2>1, UnchangedOK
  <2>2. ASSUME NEW w \in Planets, w \in minimized,
               minimized' = minimized \ {w}, UNCHANGED <<win_z, open>>
        PROVE  LayoutOK(win_z', open', minimized')
    BY <2>2 DEF TypeOK, LayoutOK
  <2>3. ASSUME NEW w \in Planets, open' = open \cup {w}, win_z' = focused(win_z, w), UNCHANGED minimized
        PROVE  LayoutOK(win_z', open', minimized')
    BY <2>3, FocusKeepsOrder DEF TypeOK, LayoutOK, Planets
  <2> QED  BY <2>1, <2>2, <2>3 DEF Space, layout
<1>2. consumed' \in BOOLEAN  BY DEF Space, TypeOK
<1>3. modal' \in BOOLEAN  BY DEF Space
<1>4. i' \in 1 .. Top + 1  BY DesktopAssumption DEF Space
<1> QED
  BY <1>1, <1>2, <1>3, <1>4 DEF Space, LayoutOK, TypeOK, OneGrab, OneAct, PressUnused, input, grabs, seen

-----------------------------------------------------------------------------
\* A button that acts uses up the press.
LEMMA ActOK ==
  IInv => \A k \in Shown : Act(k) =>
    /\ LayoutOK(win_z', open', minimized') /\ acts' = 1 /\ input_cooldown' = Cool
<1> SUFFICES ASSUME IInv, NEW k \in Shown, Act(k)
             PROVE  /\ LayoutOK(win_z', open', minimized') /\ acts' = 1 /\ input_cooldown' = Cool
  OBVIOUS
<1> USE DEF IInv
<1>1. acts' = 1 /\ input_cooldown' = Cool
  BY DEF Act, MayAct, PressUnused
<1>2. CASE UNCHANGED layout  BY <1>1, <1>2, UnchangedOK
<1>3. ASSUME NEW v \in Windows, OpenOnTop(v) PROVE LayoutOK(win_z', open', minimized')
  BY <1>3, OpenOK
<1>4. CASE open' = open \ {k} /\ UNCHANGED <<win_z, minimized>>
  BY <1>1, <1>4 DEF TypeOK, LayoutOK, Shown
<1> QED  BY <1>1, <1>2, <1>3, <1>4 DEF Act

\* A window that is drawn acts on a press that none has used.
LEMMA DrawStep == IInv /\ Draw => IInv'
<1> SUFFICES ASSUME IInv, Draw PROVE IInv'  OBVIOUS
<1> USE DEF IInv
<1> DEFINE k == win_z[i]
<1>1. i \in 1 .. Top /\ i' \in 1 .. Top + 1 /\ k \in Windows
  BY DesktopAssumption DEF Draw, Last, TypeOK, IsOrder
<1> HIDE DEF k
<1>2. /\ LayoutOK(win_z', open', minimized') /\ input_cooldown' \in 0 .. Cool
      /\ acts' \in Nat /\ acts' <= 1
      /\ mouse_just_pressed /\ input_cooldown' = 0 => acts' = 0
  <2>1. CASE k \in Shown /\ Act(k)
    BY <1>1, <2>1, ActOK, DesktopAssumption
  <2>2. CASE Return(k)
    <3>1. LayoutOK(win_z', open', minimized')  BY <2>2, UnchangedOK DEF Return
    <3> QED  BY <2>2, <3>1, DesktopAssumption DEF Return, TypeOK, OneAct
  <2>3. CASE UNCHANGED <<layout, input_cooldown, acts>>
    <3>1. LayoutOK(win_z', open', minimized')  BY <2>3, UnchangedOK
    <3> QED  BY <2>3, <3>1 DEF TypeOK, OneAct, PressUnused
  <2> QED  BY <2>1, <2>2, <2>3 DEF Draw, DrawWindow, k, seen
<1>3. took' \subseteq Windows /\ drawn' \subseteq Windows
  BY <1>1 DEF Draw, DrawWindow, k, TakesInLoop, TypeOK, seen
<1> QED
  BY <1>1, <1>2, <1>3 DEF Draw, LayoutOK, TypeOK, OneGrab, OneAct, PressUnused, input, grabs

\* The end of a frame, and the system call that reads the key.
LEMMA RestStep == IInv /\ (EndFrame \/ ReadKey \/ UNCHANGED vars) => IInv'
<1> SUFFICES ASSUME IInv, EndFrame \/ ReadKey \/ UNCHANGED vars PROVE IInv'  OBVIOUS
<1> USE DesktopAssumption DEF IInv, TypeOK, OneGrab, OneAct, PressUnused, layout, grabs, seen
<1>1. CASE EndFrame
  <2>1. last_app_key' = NoKey /\ took' = {} /\ mouse_just_pressed' = FALSE /\ i' \in 1 .. Top + 1
    BY <1>1 DEF EndFrame
  <2>2. pc' \in {"input", "keys", "route", "space", "draw"}  BY <1>1 DEF EndFrame
  <2> QED  BY <1>1, <2>1, <2>2 DEF EndFrame
<1>2. CASE ReadKey  BY <1>2 DEF ReadKey
<1>3. CASE UNCHANGED vars  BY <1>3 DEF vars, input
<1> QED  BY <1>1, <1>2, <1>3

\* The invariant holds in every state.
LEMMA Inductive == Spec => []IInv
<1>1. IInv /\ [Next]_vars => IInv'
  BY InputStep, KeyboardStep, RouteStep, SpaceStep, DrawStep, RestStep DEF Next
<1> QED  BY <1>1, InitOK, PTL DEF Spec

-----------------------------------------------------------------------------
\* The variables keep their types, and the order of the windows holds every
\* window once whatever is pressed and clicked (focus_window, toggle_app).
THEOREM DesktopTypes == Spec => []TypeOK
BY Inductive, PTL DEF IInv

\* At most one window follows the pointer, and only while the button is held.
THEOREM GrabsOneWindow == Spec => []OneGrab
BY Inductive, PTL DEF IInv

\* A press makes at most one resting button act, although windows come to the
\* top while they are drawn.
THEOREM PressActsOnce == Spec => []OneAct
BY Inductive, PTL DEF IInv

-----------------------------------------------------------------------------
(* The loop that draws while the order changes under it.                   *)

\* Below the index of the loop every window that is shown was drawn, as long as no
\* button acted; after that one act, all of them but one.
DrawnBelow ==
  pc = "draw" =>
    /\ ~mouse_just_pressed \/ acts = 0 =>
         \A n \in 1 .. Top : n < i /\ win_z[n] \in Shown => win_z[n] \in drawn
    /\ \A m, n \in 1 .. Top :
         m < i /\ n < i /\ win_z[m] \in Shown \ drawn /\ win_z[n] \in Shown \ drawn => m = n

\* Where focus_window puts the windows.
LEMMA FocusPlaces ==
  ASSUME NEW z, IsOrder(z), NEW id \in Windows
  PROVE  \E at \in 1 .. Top :
           /\ z[at] = id
           /\ \A n \in 1 .. Top : focused(z, id)[n] =
                IF n < at THEN z[n] ELSE IF n < Top THEN z[n + 1] ELSE id
<1> DEFINE at == CHOOSE n \in 1 .. Top : z[n] = id
<1>1. at \in 1 .. Top /\ z[at] = id
  BY DEF IsOrder
<1>2. \A n \in 1 .. Top : focused(z, id)[n] =
        IF n < at THEN z[n] ELSE IF n < Top THEN z[n + 1] ELSE id
  BY DEF focused
<1> HIDE DEF at
<1> QED  BY <1>1, <1>2

\* The loop draws a window that leaves the order as it is, and shows no other.
LEMMA DrawsOne ==
  ASSUME TypeOK, DrawnBelow, pc = "draw", pc' = "draw", i \in 1 .. Top, i' = i + 1,
         mouse_just_pressed' = mouse_just_pressed, win_z' = win_z, Shown' \subseteq Shown,
         win_z[i] \in Shown => win_z[i] \in drawn', drawn \subseteq drawn',
         ~mouse_just_pressed \/ acts' = 0 => acts' = acts
  PROVE  DrawnBelow'
<1>1. Top \in Nat  BY DesktopAssumption
<1>2. ASSUME ~mouse_just_pressed \/ acts' = 0, NEW n \in 1 .. Top, n < i + 1, win_z[n] \in Shown
      PROVE  win_z[n] \in drawn'
  <2>1. CASE n = i  BY <1>2, <2>1
  <2>2. CASE n < i  BY <1>2, <2>2 DEF DrawnBelow
  <2> QED  BY <1>1, <1>2, <2>1, <2>2
<1>3. ASSUME NEW m \in 1 .. Top, NEW n \in 1 .. Top, m < i + 1, n < i + 1,
             win_z[m] \in Shown, win_z[m] \notin drawn', win_z[n] \in Shown, win_z[n] \notin drawn'
      PROVE  m = n
  <2>1. m # i /\ n # i  BY <1>3
  <2>2. m < i /\ n < i  BY <1>1, <1>3, <2>1
  <2> QED  BY <1>3, <2>2 DEF DrawnBelow
<1> QED  BY <1>2, <1>3 DEF DrawnBelow

\* A button brings window v to the top: what stands below the index now was drawn, all
\* but what has come to the index itself, which the loop leaves out.
LEMMA DrawsUnderButton ==
  ASSUME IInv, DrawnBelow, pc = "draw", pc' = "draw", i \in 1 .. Top, i' = i + 1,
         mouse_just_pressed' = mouse_just_pressed, win_z[i] \in Shown,
         drawn' = drawn \cup {win_z[i]}, Act(win_z[i]), NEW v \in Windows, OpenOnTop(v)
  PROVE  DrawnBelow'
<1> DEFINE z == win_z
           y == win_z'
<1>1. Top \in Nat /\ IsOrder(z)  BY DesktopAssumption DEF IInv, TypeOK
<1>2. mouse_just_pressed /\ acts = 0 /\ acts' = 1
  BY ActOK DEF IInv, PressUnused, Act, MayAct
<1>3. \A n \in 1 .. Top : n < i /\ z[n] \in Shown => z[n] \in drawn
  BY <1>2 DEF DrawnBelow
<1>4. PICK at \in 1 .. Top :
        /\ z[at] = v
        /\ \A n \in 1 .. Top : y[n] = IF n < at THEN z[n] ELSE IF n < Top THEN z[n + 1] ELSE v
  BY <1>1, FocusPlaces DEF OpenOnTop
<1>5. Shown' \subseteq Shown \cup {v}  BY DEF OpenOnTop, Shown
<1>6. \A m, n \in 1 .. Top : z[m] = z[n] => m = n  BY <1>1 DEF IsOrder
<1> HIDE DEF z, y
<1>7. ASSUME NEW n \in 1 .. Top, n < i + 1, y[n] \in Shown', y[n] \notin drawn'
      PROVE  n = i
  <2> SUFFICES ASSUME n < i PROVE FALSE  BY <1>1, <1>7
  <2>1. CASE n < at
    <3>1. y[n] = z[n] /\ z[n] # v  BY <1>1, <1>4, <1>6, <2>1
    <3> QED  BY <1>3, <1>5, <1>7, <3>1
  <2>2. CASE ~(n < at)
    <3>1. n + 1 \in 1 .. Top /\ n < Top /\ n + 1 # at  BY <1>1, <2>2
    <3>2. y[n] = z[n + 1] /\ z[n + 1] # v  BY <1>4, <1>6, <2>2, <3>1
    <3>3. z[n + 1] \in Shown /\ z[n + 1] \notin drawn'  BY <1>5, <1>7, <3>2
    <3>4. n + 1 # i  BY <3>3 DEF z
    <3>5. n + 1 < i  BY <1>1, <3>4
    <3> QED  BY <1>3, <3>1, <3>3, <3>5
  <2> QED  BY <2>1, <2>2
<1> QED  BY <1>2, <1>7 DEF DrawnBelow, y

\* Drawing the next window, whatever its button does to the order.
LEMMA DrawKeepsBelow == IInv /\ DrawnBelow /\ Draw => DrawnBelow'
<1> SUFFICES ASSUME IInv, DrawnBelow, Draw PROVE DrawnBelow'  OBVIOUS
<1>1. /\ TypeOK /\ pc = "draw" /\ pc' = "draw" /\ i \in 1 .. Top /\ i' = i + 1
      /\ mouse_just_pressed' = mouse_just_pressed
  BY DesktopAssumption DEF IInv, TypeOK, Draw, Last, input
<1>2. CASE win_z[i] \notin Shown
  <2>1. UNCHANGED <<layout, acts, drawn>>  BY <1>2 DEF Draw, DrawWindow, seen
  <2> QED  BY <1>1, <1>2, <2>1, DrawsOne DEF layout, Shown
<1>3. CASE win_z[i] \in Shown
  <2>1. /\ drawn' = drawn \cup {win_z[i]}
        /\ Act(win_z[i]) \/ Return(win_z[i]) \/ UNCHANGED <<layout, input_cooldown, acts>>
    BY <1>3 DEF Draw, DrawWindow
  <2>2. CASE UNCHANGED <<layout, acts>>
    BY <1>1, <2>1, <2>2, DrawsOne DEF layout, Shown
  <2>3. CASE Act(win_z[i])
    <3>1. mouse_just_pressed /\ acts' = 1  BY <1>3, <2>3, ActOK DEF Act, MayAct
    <3>2. CASE UNCHANGED layout
      BY <1>1, <2>1, <3>1, <3>2, DrawsOne DEF layout, Shown
    <3>3. CASE open' = open \ {win_z[i]} /\ UNCHANGED <<win_z, minimized>>
      BY <1>1, <2>1, <3>1, <3>3, DrawsOne DEF Shown
    <3>4. ASSUME NEW v \in Windows, OpenOnTop(v) PROVE DrawnBelow'
      BY <1>1, <1>3, <2>1, <2>3, <3>4, DrawsUnderButton
    <3> QED  BY <2>3, <3>2, <3>3, <3>4 DEF Act
  <2> QED  BY <2>1, <2>2, <2>3 DEF Return
<1> QED  BY <1>2, <1>3

\* The loop starts below every window, and between its steps only the key changes.
LEMMA StepsKeepBelow == IInv /\ DrawnBelow /\ [Next]_vars => DrawnBelow'
<1> SUFFICES ASSUME IInv, DrawnBelow, [Next]_vars PROVE DrawnBelow'  OBVIOUS
<1>1. CASE HandleInput \/ Keyboard \/ Route \/ EndFrame
  BY <1>1 DEF HandleInput, Keyboard, Route, EndFrame, DrawnBelow
<1>2. CASE Space
  <2>1. i' = 1 /\ \A n \in 1 .. Top : ~(n < 1)  BY <1>2, DesktopAssumption DEF Space
  <2> QED  BY <2>1 DEF DrawnBelow
<1>3. CASE ReadKey \/ UNCHANGED vars
  <2>1. UNCHANGED <<pc, i, mouse_just_pressed, acts, drawn, layout>>
    BY <1>3 DEF ReadKey, vars, input, seen
  <2> QED  BY <2>1 DEF DrawnBelow, Shown, layout
<1> QED  BY <1>1, <1>2, <1>3, DrawKeepsBelow DEF Next

\* A frame draws every window that is shown unless a button acted in it, and then all
\* but one: the window that comes to the index of the loop when another goes to the top.
THEOREM FramesAreComplete == Spec => []FrameComplete
<1>1. Init => DrawnBelow  BY DEF Init, DrawnBelow
<1>2. IInv /\ DrawnBelow => FrameComplete
  <2> SUFFICES ASSUME IInv, DrawnBelow, pc = "draw", i > Last
               PROVE  /\ \A v, w \in Shown \ drawn : v = w
                      /\ ~mouse_just_pressed \/ acts = 0 => Shown \subseteq drawn
    BY DEF FrameComplete
  <2>1. /\ \A n \in 1 .. Top : n < i
        /\ \A w \in Shown : \E n \in 1 .. Top : win_z[n] = w
    BY DesktopAssumption DEF IInv, TypeOK, Last, Shown, IsOrder
  <2>2. ASSUME NEW v \in Shown \ drawn, NEW w \in Shown \ drawn PROVE v = w
    <3>1. PICK m \in 1 .. Top, n \in 1 .. Top : win_z[m] = v /\ win_z[n] = w
      BY <2>1
    <3> QED  BY <2>1, <3>1 DEF DrawnBelow
  <2>3. ASSUME ~mouse_just_pressed \/ acts = 0, NEW w \in Shown PROVE w \in drawn
    BY <2>1, <2>3 DEF DrawnBelow
  <2> QED  BY <2>2, <2>3
<1> QED  BY <1>1, <1>2, Inductive, StepsKeepBelow, PTL DEF Spec

=============================================================================
