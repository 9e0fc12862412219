----------------------- MODULE ActivityManagerProofs -----------------------
(***************************************************************************)
(* The safety properties of ActivityManager, for any set of activities and *)
(* any depth of the stack.                                                 *)
(*                                                                         *)
(* The screens are the stack with the current activity on top.  Handlers:  *)
(* who waits for a result waits for the screen right above, or for the one *)
(* that is pending.  Rendering: the mutex is held exactly during a turn,   *)
(* and what is drawn stays on the screens, because only the launch of the  *)
(* home screen changes them without the mutex, and it only adds to them.   *)
(***************************************************************************)
EXTENDS ActivityManager, SequenceTheorems, TLAPS

Screens == Append(stack, current)

(* Why the screens stay distinct and the flags of a wait stay with it. *)
NavigationInv ==
    /\ pc = "homing" => stack = <<>> /\ pendingAction = "none"
    /\ pendingAction = "push" => Len(stack) < MaxStack
    /\ ~(waiting /\ woken)
    /\ pc = "flushing" => current \in Exclusive

(* The screen right above the one that waits is the one it waits for. *)
ChainInv ==
    \A i \in 1 .. Len(stack) :
        handler[stack[i]] # None => Screens[i + 1] = handler[stack[i]]

(* The current activity waits for nothing but what is pending. *)
TopInv ==
    current # None /\ handler[current] # None =>
        /\ pc # "idle"
        /\ pendingAction # "none"
        /\ pendingAction = "push" => pendingActivity = handler[current]

(* Only a screen waits, and none that has the storage for itself. *)
HandlerInv ==
    \A a \in Activities : handler[a] # None =>
        a \in {current} \cup Range(stack) /\ a \notin Exclusive

(* What a turn of the render task holds, and what it drew. *)
RenderInv ==
    /\ mutex <=> rpc \in {"rendering", "waking", "releasing"}
    /\ drawing \in [activity : Activities \cup {None}, version : 0 .. MaxVersion]
    /\ rpc = "rendering" => drawing.activity \in Activities /\ RenderedIsAlive
    /\ asked <= version

(* Under the mutex the state does not change, so a turn shows it. *)
ShownInv ==
    /\ rpc = "rendering" => drawing.version = version
    /\ rpc = "waking" => drawing.activity = None \/ shown = version

IInv == TypeOK /\ NavigationInv /\ ChainInv /\ TopInv /\ HandlerInv /\ RenderInv

-----------------------------------------------------------------------------
(* The screens after a push, a pop and at their top. *)
LEMMA PushedScreens ==
  ASSUME NEW S, NEW s \in Seq(S), NEW a \in S
  PROVE  /\ Append(s, a) \in Seq(S)
         /\ Len(Append(s, a)) = Len(s) + 1
         /\ Append(s, a)[Len(s) + 1] = a
         /\ \A i \in 1 .. Len(s) : Append(s, a)[i] = s[i]
         /\ Range(Append(s, a)) = Range(s) \cup {a}
<1>1. /\ Append(s, a) \in Seq(S)
      /\ Len(Append(s, a)) = Len(s) + 1
      /\ Append(s, a)[Len(s) + 1] = a
      /\ \A i \in 1 .. Len(s) : Append(s, a)[i] = s[i]
  OBVIOUS
<1>2. Range(Append(s, a)) = Range(s) \cup {a}
  <2>1. DOMAIN Append(s, a) = 1 .. Len(s) + 1 /\ DOMAIN s = 1 .. Len(s)
    BY <1>1
  <2> QED BY <1>1, <2>1, Len(s) \in Nat DEF Range
<1> QED BY <1>1, <1>2

LEMMA PoppedScreens ==
  ASSUME NEW S, NEW s \in Seq(S), s # <<>>
  PROVE  /\ Front(s) \in Seq(S)
         /\ Len(Front(s)) = Len(s) - 1
         /\ Last(s) \in S
         /\ \A i \in 1 .. Len(s) - 1 : Front(s)[i] = s[i]
         /\ Append(Front(s), Last(s)) = s
<1>1. Len(s) \in Nat \ {0}
  OBVIOUS
<1>2. /\ Front(s) \in Seq(S)
      /\ Len(Front(s)) = Len(s) - 1
      /\ \A i \in 1 .. Len(s) - 1 : Front(s)[i] = s[i]
  <2> DEFINE n == Len(s) - 1
  <2>1. n \in Int /\ \A i \in 1 .. n : s[i] \in S
    BY <1>1
  <2>2. /\ SubSeq(s, 1, n) \in Seq(S)
        /\ Len(SubSeq(s, 1, n)) = IF 1 <= n THEN n - 1 + 1 ELSE 0
        /\ \A i \in 1 .. n - 1 + 1 : SubSeq(s, 1, n)[i] = s[1 + i - 1]
    <3> HIDE DEF n
    <3> QED BY <2>1, SubSeqProperties
  <2>3. n - 1 + 1 = n /\ \A i \in 1 .. n : 1 + i - 1 = i
    BY <2>1
  <2> QED BY <1>1, <2>2, <2>3 DEF Front
<1>3. Last(s) \in S
  BY <1>1 DEF Last
<1>4. Append(Front(s), Last(s)) = s
  BY <1>1, <1>2, <1>3 DEF Last
<1> QED BY <1>2, <1>3, <1>4

-----------------------------------------------------------------------------
LEMMA InitIInv == Init => IInv
<1> SUFFICES ASSUME Init PROVE IInv
  OBVIOUS
<1> USE ActivityAssumption DEF Init
<1>1. Append(stack, current) = <<current>> /\ stack \in Seq(Activities) /\ Len(stack) = 0
  OBVIOUS
<1>2. IsInjective(Append(stack, current))
  BY <1>1 DEF IsInjective
<1>3. TypeOK
  <2>1. /\ current \in Activities /\ (current = None) = (pc = "homing")
        /\ (pendingActivity # None) = (pendingAction \in {"push", "replace"})
    OBVIOUS
  <2>2. {requested, mutex, notified, waiting, woken, handling} \subseteq BOOLEAN
    OBVIOUS
  <2>3. (waiting \/ woken) => pc = "waiting"
    OBVIOUS
  <2>4. {version, shown, asked} \subseteq 0 .. MaxVersion
    OBVIOUS
  <2> QED BY <1>1, <1>2, <2>1, <2>2, <2>3, <2>4 DEF TypeOK
<1>4. NavigationInv /\ ChainInv /\ TopInv /\ HandlerInv
  BY <1>1 DEF NavigationInv, ChainInv, TopInv, HandlerInv
<1>5. RenderInv
  <2>1. mutex <=> rpc \in {"rendering", "waking", "releasing"}
    OBVIOUS
  <2>2. drawing \in [activity : Activities \cup {None}, version : 0 .. MaxVersion]
    BY DEF Nothing
  <2> QED BY <2>1, <2>2 DEF RenderInv
<1> QED BY <1>3, <1>4, <1>5 DEF IInv

(* Steps that leave the screens, the handlers and what is pending alone. *)
LEMMA QuietKeepsIInv ==
  ASSUME IInv,
         \/ Change
         \/ \E immediate \in BOOLEAN : RequestUpdate(immediate)
         \/ RequestUpdateAndWait \/ Return \/ EndCallback \/ BeginLoop \/ EndLoop
         \/ RenderTask \/ UNCHANGED vars
  PROVE  IInv'
<1> USE ActivityAssumption DEF IInv
<1>1. UNCHANGED navigation
  BY DEF vars, navigation, Change, RequestUpdate, RequestUpdateAndWait, Return,
     EndCallback, BeginLoop, EndLoop, RenderTask, RenderTake, RenderBegin,
     RenderEnd, Wake, Release
<1>2. ChainInv' /\ HandlerInv'
  BY <1>1 DEF navigation, ChainInv, HandlerInv, Screens
<1>3. IsInjective(Append(stack, current))'
  BY <1>1 DEF navigation, TypeOK
<1>4. CASE Change
  <2>1. TypeOK'
    BY <1>1, <1>3, <1>4 DEF navigation, TypeOK, Change, Callback, signals, render
  <2> QED
    BY <1>1, <1>2, <1>4, <2>1 DEF navigation, TypeOK, Change, Callback, signals, render,
       NavigationInv, TopInv, RenderInv, RenderedIsAlive
<1>5. CASE \E immediate \in BOOLEAN : RequestUpdate(immediate)
  <2>1. TypeOK'
    BY <1>1, <1>3, <1>5 DEF navigation, TypeOK, RequestUpdate, Callback, render, content
  <2> QED
    BY <1>1, <1>2, <1>5, <2>1 DEF navigation, TypeOK, RequestUpdate, Callback, render, content,
       NavigationInv, TopInv, RenderInv, RenderedIsAlive
<1>6. CASE RequestUpdateAndWait
  <2>1. TypeOK'
    BY <1>1, <1>3, <1>6 DEF navigation, TypeOK, RequestUpdateAndWait, Callback, render
  <2> QED
    BY <1>1, <1>2, <1>6, <2>1 DEF navigation, TypeOK, RequestUpdateAndWait, Callback, render,
       NavigationInv, TopInv, RenderInv, RenderedIsAlive
<1>7. CASE Return
  <2>1. TypeOK'
    BY <1>1, <1>3, <1>7 DEF navigation, TypeOK, NavigationInv, Return, render, content
  <2> QED
    BY <1>1, <1>2, <1>7, <2>1 DEF navigation, TypeOK, Return, render, content,
       NavigationInv, TopInv, RenderInv, RenderedIsAlive
<1>8. CASE EndCallback
  <2>1. TypeOK'
    BY <1>1, <1>3, <1>8 DEF navigation, TypeOK, EndCallback, Callback, render, content
  <2> QED
    BY <1>1, <1>2, <1>8, <2>1 DEF navigation, TypeOK, EndCallback, Callback, render, content,
       NavigationInv, TopInv, RenderInv, RenderedIsAlive
<1>9. CASE BeginLoop
  <2>1. TypeOK'
    BY <1>1, <1>3, <1>9 DEF navigation, TypeOK, BeginLoop, render, content, signals
  <2> QED
    BY <1>1, <1>2, <1>9, <2>1 DEF navigation, TypeOK, BeginLoop, render, content, signals,
       NavigationInv, TopInv, RenderInv, RenderedIsAlive
<1>10. CASE EndLoop
  <2>1. TypeOK'
    BY <1>1, <1>3, <1>10 DEF navigation, TypeOK, EndLoop, Flush, render, content
  <2>2. TopInv'
    BY <1>1, <1>10 DEF navigation, TypeOK, EndLoop, TopInv, HandlerInv, NavigationInv
  <2> QED
    BY <1>1, <1>2, <1>10, <2>1, <2>2 DEF navigation, TypeOK, EndLoop, Flush, render, content,
       NavigationInv, RenderInv, RenderedIsAlive
<1>11. CASE RenderTask
  <2>1. TypeOK'
    <3>1. {requested, mutex, notified, waiting, woken, handling}' \subseteq BOOLEAN
      BY <1>11 DEF navigation, signals, content, TypeOK,
         RenderTask, RenderTake, RenderBegin, RenderEnd, Wake, Release
    <3>2. rpc' \in {"blocked", "locking", "rendering", "waking", "releasing"}
      BY <1>11 DEF TypeOK, RenderTask, RenderTake, RenderBegin, RenderEnd, Wake, Release
    <3>3. {version, shown, asked}' \subseteq 0 .. MaxVersion
      BY <1>11 DEF content, TypeOK, RenderInv, RenderTask, RenderTake, RenderBegin,
         RenderEnd, Wake, Release
    <3>4. pc' = pc /\ ((waiting \/ woken) => pc = "waiting")'
      BY <1>11 DEF signals, TypeOK, RenderTask, RenderTake, RenderBegin, RenderEnd,
         Wake, Release
    <3> QED BY <1>1, <1>3, <3>1, <3>2, <3>3, <3>4 DEF navigation, TypeOK
  <2>2. NavigationInv' /\ TopInv'
    BY <1>1, <1>11 DEF navigation, signals, content, TypeOK, NavigationInv, TopInv,
       RenderTask, RenderTake, RenderBegin, RenderEnd, Wake, Release
  <2>3. RenderInv'
    <3>1. (mutex <=> rpc \in {"rendering", "waking", "releasing"})'
      BY <1>11 DEF RenderInv, RenderTask, RenderTake, RenderBegin, RenderEnd, Wake, Release
    <3>2. drawing' \in [activity : Activities \cup {None}, version : 0 .. MaxVersion]
      BY <1>11 DEF TypeOK, RenderInv, Nothing, RenderTask, RenderTake, RenderBegin,
         RenderEnd, Wake, Release
    <3>3. (rpc = "rendering" => drawing.activity \in Activities /\ RenderedIsAlive)'
      BY <1>1, <1>11 DEF navigation, TypeOK, RenderInv, RenderedIsAlive, RenderTask,
         RenderTake, RenderBegin, RenderEnd, Wake, Release
    <3>4. (asked <= version)'
      BY <1>11 DEF RenderInv, content, RenderTask, RenderTake, RenderBegin, RenderEnd,
         Wake, Release
    <3> QED BY <3>1, <3>2, <3>3, <3>4 DEF RenderInv
  <2> QED BY <1>2, <2>1, <2>2, <2>3
<1>12. CASE UNCHANGED vars
  BY <1>12 DEF vars, TypeOK, NavigationInv, ChainInv, TopInv, HandlerInv, RenderInv,
     RenderedIsAlive, Screens
<1> QED BY <1>4, <1>5, <1>6, <1>7, <1>8, <1>9, <1>10, <1>11, <1>12

(* A request to navigate: what is pending changes, the screens do not. *)
LEMMA RequestKeepsIInv ==
  ASSUME IInv,
         \/ \E a \in Fresh : StartActivityForResult(a) \/ ReplaceActivity(a)
         \/ Finish
         \/ \E a \in Fresh, action \in {"push", "replace"} : Gesture(action, a)
         \/ Gesture("pop", None)
  PROVE  IInv'
<1> USE ActivityAssumption DEF IInv
<1>1. /\ UNCHANGED <<current, stack, signals, pc, handling, render, content>>
      /\ pc \in {"callback", "idle"}
  BY DEF StartActivityForResult, ReplaceActivity, Finish, Gesture, Pend, Callback
<1>2. IsInjective(Append(stack, current))' /\ Screens' = Screens
  BY <1>1 DEF TypeOK, Screens
<1>3. current \in Activities
  BY <1>1 DEF TypeOK
<1>4. RenderInv'
  BY <1>1 DEF render, content, RenderInv, RenderedIsAlive
<1>5. CASE \E a \in Fresh : StartActivityForResult(a)
  <2> PICK a \in Fresh : StartActivityForResult(a)
    BY <1>5
  <2>1. a \in Activities /\ a \notin {current} \cup Range(stack)
    BY DEF Fresh, Alive
  <2>2. /\ pendingAction' = "push" /\ pendingActivity' = a
        /\ handler' = [handler EXCEPT ![current] = a]
        /\ current \notin Exclusive /\ Len(stack) < MaxStack
    BY DEF StartActivityForResult, Pend
  <2>3. TypeOK'
    BY <1>1, <1>2, <2>1, <2>2 DEF TypeOK, signals, render, content
  <2>4. \A i \in 1 .. Len(stack) : stack[i] # current
    BY <1>3, PushedScreens DEF TypeOK, IsInjective
  <2>5. ChainInv'
    BY <1>1, <1>2, <2>2, <2>4 DEF ChainInv, TypeOK
  <2>6. TopInv' /\ NavigationInv'
    BY <1>1, <1>3, <2>2 DEF TopInv, NavigationInv, TypeOK, signals,
       StartActivityForResult, Callback
  <2>7. HandlerInv'
    BY <1>1, <1>3, <2>2 DEF HandlerInv, TypeOK
  <2> QED BY <1>4, <2>3, <2>5, <2>6, <2>7
<1>6. CASE \E a \in Fresh : ReplaceActivity(a)
  <2> PICK a \in Fresh : ReplaceActivity(a)
    BY <1>6
  <2>1. a \in Activities /\ a \notin {current} \cup Range(stack)
    BY DEF Fresh, Alive
  <2>2. /\ pendingAction' = "replace" /\ pendingActivity' = a
        /\ handler' = handler /\ pc = "callback"
    BY DEF ReplaceActivity, Pend, Callback
  <2>3. TypeOK'
    BY <1>1, <1>2, <2>1, <2>2 DEF TypeOK, signals, render, content
  <2>4. ChainInv' /\ HandlerInv'
    BY <1>1, <1>2, <2>2 DEF ChainInv, HandlerInv
  <2>5. TopInv' /\ NavigationInv'
    BY <1>1, <2>2 DEF TopInv, NavigationInv, signals
  <2> QED BY <1>4, <2>3, <2>4, <2>5
<1>7. CASE Finish \/ Gesture("pop", None)
  <2>1. /\ pendingAction' = "pop" /\ pendingActivity' = None
        /\ handler' = handler /\ pc \in {"callback", "idle"}
    BY <1>7 DEF Finish, Gesture, Pend, Callback
  <2>2. TypeOK'
    BY <1>1, <1>2, <2>1 DEF TypeOK, signals, render, content
  <2>3. ChainInv' /\ HandlerInv'
    BY <1>1, <1>2, <2>1 DEF ChainInv, HandlerInv
  <2>4. TopInv' /\ NavigationInv'
    BY <1>1, <2>1 DEF TopInv, NavigationInv, signals
  <2> QED BY <1>4, <2>2, <2>3, <2>4
<1>8. CASE \E a \in Fresh, action \in {"push", "replace"} : Gesture(action, a)
  <2> PICK a \in Fresh, action \in {"push", "replace"} : Gesture(action, a)
    BY <1>8
  <2>1. a \in Activities /\ a \notin {current} \cup Range(stack)
    BY DEF Fresh, Alive
  <2>2. /\ pendingAction' = action /\ pendingActivity' = a
        /\ handler' = handler /\ pc = "idle"
        /\ action = "push" => Len(stack) < MaxStack
    BY DEF Gesture, Pend
  <2>3. TypeOK'
    BY <1>1, <1>2, <2>1, <2>2 DEF TypeOK, signals, render, content
  <2>4. ChainInv' /\ HandlerInv'
    BY <1>1, <1>2, <2>2 DEF ChainInv, HandlerInv
  <2>5. handler[current] = None
    BY <1>3, <2>2 DEF TopInv
  <2>6. TopInv' /\ NavigationInv'
    BY <1>1, <2>2, <2>5 DEF TopInv, NavigationInv, signals
  <2> QED BY <1>4, <2>3, <2>4, <2>6
<1> QED BY <1>5, <1>6, <1>7, <1>8

(* The top screen goes: back to the one below, or to the home screen. *)
LEMMA PopKeepsIInv ==
  ASSUME IInv, Pop
  PROVE  IInv'
<1> USE ActivityAssumption DEF IInv
<1>1. /\ UNCHANGED <<notified, waiting, woken, render, content>>
      /\ pendingAction' = "none" /\ pendingActivity' = None
      /\ pc = "navigating" /\ ~mutex
  BY DEF Pop, Navigate, MayNavigate
<1>2. current \in Activities /\ waiting = FALSE /\ woken = FALSE
  BY <1>1 DEF TypeOK
<1>3. RenderInv'
  BY <1>1 DEF render, content, RenderInv
<1>4. CASE stack = <<>>
  <2>1. /\ current' = None /\ stack' = <<>> /\ pc' = "homing"
        /\ handler' = [handler EXCEPT ![current] = None]
        /\ UNCHANGED <<requested, handling>>
    BY <1>4 DEF Pop, HandlersAfter
  <2>2. IsInjective(Append(stack, current))'
    BY <2>1 DEF IsInjective
  <2>3. TypeOK'
    BY <1>1, <1>2, <1>4, <2>1, <2>2 DEF TypeOK, render, content
  <2>4. ChainInv' /\ TopInv' /\ NavigationInv'
    BY <1>1, <1>2, <2>1 DEF ChainInv, TopInv, NavigationInv
  <2>5. Range(stack) = {}
    BY <1>4 DEF Range
  <2>6. HandlerInv'
    BY <1>2, <2>1, <2>5 DEF HandlerInv, TypeOK
  <2> QED BY <1>3, <2>3, <2>4, <2>6
<1>5. CASE stack # <<>>
  <2> DEFINE below == Last(stack)
             m == Len(stack) - 1
  <2>1. /\ current' = below /\ stack' = Front(stack)
        /\ handler' = [[handler EXCEPT ![below] = None] EXCEPT ![current] = None]
        /\ handling' \in BOOLEAN /\ requested' \in BOOLEAN
        /\ pc' \in {"callback", "navigating"}
    BY <1>5 DEF Pop, HandlersAfter, TypeOK
  <2>2. /\ Front(stack) \in Seq(Activities) /\ Len(Front(stack)) = m
        /\ below \in Activities /\ below = stack[m + 1]
        /\ \A i \in 1 .. m : Front(stack)[i] = stack[i]
        /\ Append(Front(stack), below) = stack
    BY <1>5, PoppedScreens DEF TypeOK, Last
  <2>3. m \in Nat /\ m + 1 = Len(stack) /\ 1 .. m + 1 = DOMAIN stack
    BY <1>5 DEF TypeOK
  <2>4. Screens' = stack
    BY <2>1, <2>2 DEF Screens
  <2>5. \A i, j \in 1 .. m + 1 : stack[i] = stack[j] => i = j
    <3>1. /\ \A i \in 1 .. Len(stack) : Append(stack, current)[i] = stack[i]
          /\ DOMAIN Append(stack, current) = 1 .. Len(stack) + 1
      BY <1>2, PushedScreens DEF TypeOK
    <3> QED BY <2>3, <3>1 DEF TypeOK, IsInjective
  <2>6. IsInjective(Append(stack, current))'
    BY <2>3, <2>4, <2>5 DEF IsInjective, Screens
  <2>7. TypeOK'
    <3>1. stack' \in Seq(Activities) /\ Len(stack') <= MaxStack
      BY <2>1, <2>2, <2>3 DEF TypeOK
    <3>2. handler' \in [Activities -> Activities \cup {None}]
      BY <2>1 DEF TypeOK
    <3>3. {requested, mutex, notified, waiting, woken, handling}' \subseteq BOOLEAN
      BY <1>1, <2>1 DEF TypeOK, render
    <3>4. /\ current' \in Activities /\ pc' # "homing" /\ current' # None
          /\ pc' \in {"callback", "navigating"}
      BY <2>1, <2>2
    <3>5. rpc' = rpc /\ {version, shown, asked}' \subseteq 0 .. MaxVersion
      BY <1>1 DEF TypeOK, render, content
    <3>6. waiting' = FALSE /\ woken' = FALSE
      BY <1>1, <1>2
    <3> QED BY <1>1, <2>6, <3>1, <3>2, <3>3, <3>4, <3>5, <3>6 DEF TypeOK
  <2>8. ChainInv'
    <3> SUFFICES ASSUME NEW i \in 1 .. m, handler'[stack'[i]] # None
                 PROVE  Screens'[i + 1] = handler'[stack'[i]]
      BY <2>1, <2>2 DEF ChainInv
    <3>1. stack'[i] = stack[i] /\ stack[i] \in Activities /\ stack[i + 1] \in Activities
      BY <2>1, <2>2, <2>3 DEF TypeOK
    <3>2. handler[stack[i]] # None /\ handler'[stack[i]] = handler[stack[i]]
      BY <2>1, <2>2, <3>1 DEF TypeOK
    <3>3. Screens[i + 1] = handler[stack[i]]
      BY <2>3, <3>2 DEF ChainInv
    <3>4. Screens[i + 1] = stack[i + 1]
      BY <1>2, <2>3, PushedScreens DEF Screens, TypeOK
    <3> QED BY <2>4, <3>1, <3>2, <3>3, <3>4
  <2>9. TopInv'
    BY <1>2, <2>1, <2>2 DEF TopInv, TypeOK
  <2>10. HandlerInv'
    <3> SUFFICES ASSUME NEW a \in Activities, handler'[a] # None
                 PROVE  a \in {current'} \cup Range(stack') /\ a \notin Exclusive
      BY DEF HandlerInv
    <3>1. a # current /\ a # below /\ handler[a] # None
      BY <2>1, <2>2 DEF TypeOK
    <3>2. a \in Range(stack) /\ a \notin Exclusive
      BY <3>1 DEF HandlerInv
    <3>3. PICK i \in 1 .. m + 1 : stack[i] = a
      BY <2>3, <3>2 DEF Range
    <3>4. i \in 1 .. m
      BY <2>2, <2>3, <3>1, <3>3
    <3>5. Front(stack)[i] = a /\ DOMAIN Front(stack) = 1 .. m
      BY <2>2, <3>3, <3>4
    <3> QED BY <2>1, <3>2, <3>4, <3>5 DEF Range
  <2>11. NavigationInv'
    BY <1>1, <1>2, <2>1 DEF NavigationInv
  <2> QED BY <1>3, <2>7, <2>8, <2>9, <2>10, <2>11
<1> QED BY <1>4, <1>5

(* What was asked for comes to the top, above the screen that asked or alone. *)
LEMMA LaunchKeepsIInv ==
  ASSUME IInv, Launch
  PROVE  IInv'
<1> USE ActivityAssumption DEF IInv
<1> DEFINE n == pendingActivity
<1>1. /\ UNCHANGED <<notified, waiting, woken, render, content, requested, handling>>
      /\ pendingAction' = "none" /\ pendingActivity' = None
      /\ pc = "navigating" /\ pc' = "callback" /\ ~mutex /\ current' = n
  BY DEF Launch, Navigate, MayNavigate
<1>2. current \in Activities /\ waiting = FALSE /\ woken = FALSE
  BY <1>1 DEF TypeOK
<1>3. RenderInv'
  BY <1>1 DEF render, content, RenderInv
<1>4. n \in Activities /\ n \notin {current} \cup Range(stack)
  BY DEF Launch, TypeOK
<1>5. NavigationInv'
  BY <1>1, <1>2 DEF NavigationInv
<1>6. CASE pendingAction = "push"
  <2>1. stack' = Screens /\ handler' = handler
    BY <1>6 DEF Launch, Screens
  <2>2. /\ Screens \in Seq(Activities) /\ Len(Screens) = Len(stack) + 1
        /\ Screens[Len(stack) + 1] = current
        /\ \A i \in 1 .. Len(stack) : Screens[i] = stack[i]
        /\ Range(Screens) = Range(stack) \cup {current}
    BY <1>2, PushedScreens DEF Screens, TypeOK
  <2>3. /\ Screens' \in Seq(Activities) /\ Len(Screens') = Len(stack) + 2
        /\ Screens'[Len(stack) + 2] = n
        /\ \A i \in 1 .. Len(stack) + 1 : Screens'[i] = Screens[i]
    <3>1. Screens' = Append(Screens, n)
      BY <1>1, <2>1 DEF Screens
    <3> HIDE DEF n
    <3>2. Len(stack) \in Nat
      BY DEF TypeOK
    <3> QED BY <1>4, <2>2, <3>1, <3>2, PushedScreens
  <2>4. Len(stack) \in Nat /\ Len(stack) < MaxStack
    BY <1>6 DEF TypeOK, NavigationInv
  <2>5. IsInjective(Append(stack, current))'
    <3>1. DOMAIN Screens' = 1 .. Len(stack) + 2 /\ DOMAIN Screens = 1 .. Len(stack) + 1
      BY <2>2, <2>3, <2>4
    <3>2. \A i \in 1 .. Len(stack) + 1 : Screens[i] # n
      BY <1>4, <2>2, <2>4, <3>1 DEF Range
    <3>3. \A i, j \in 1 .. Len(stack) + 1 : Screens[i] = Screens[j] => i = j
      BY <3>1 DEF TypeOK, IsInjective, Screens
    <3>4. \A i, j \in 1 .. Len(stack) + 2 : Screens'[i] = Screens'[j] => i = j
      BY <2>3, <2>4, <3>2, <3>3
    <3> QED BY <3>1, <3>4 DEF IsInjective, Screens
  <2>6. TypeOK'
    <3>1. stack' \in Seq(Activities) /\ Len(stack') <= MaxStack
      BY <2>1, <2>2, <2>4 DEF TypeOK
    <3> QED BY <1>1, <1>2, <1>4, <2>1, <2>5, <3>1 DEF TypeOK, render, content
  <2>7. ChainInv'
    <3> SUFFICES ASSUME NEW i \in 1 .. Len(stack) + 1, handler[Screens[i]] # None
                 PROVE  Screens'[i + 1] = handler[Screens[i]]
      BY <2>1, <2>2 DEF ChainInv
    <3>1. CASE i = Len(stack) + 1
      <4>1. handler[current] # None /\ i + 1 = Len(stack) + 2
        BY <2>2, <2>4, <3>1
      <4>2. pendingActivity = handler[current]
        BY <1>2, <1>6, <4>1 DEF TopInv
      <4> QED BY <2>2, <2>3, <3>1, <4>1, <4>2
    <3>2. CASE i \in 1 .. Len(stack)
      <4>1. Screens[i + 1] = handler[stack[i]] /\ Screens[i] = stack[i]
        BY <2>2, <3>2 DEF ChainInv
      <4>2. i + 1 \in 1 .. Len(stack) + 1
        BY <2>4, <3>2
      <4> QED BY <2>3, <4>1, <4>2
    <3> QED BY <2>4, <3>1, <3>2
  <2>8. TopInv'
    BY <1>1, <1>4, <2>1 DEF TopInv, HandlerInv
  <2>9. HandlerInv'
    BY <2>1, <2>2 DEF HandlerInv
  <2> QED BY <1>3, <1>5, <2>6, <2>7, <2>8, <2>9
<1>7. CASE pendingAction = "replace"
  <2>1. stack' = <<>> /\ handler' = [a \in Activities |-> None]
    BY <1>7 DEF Launch
  <2>2. stack' \in Seq(Activities) /\ Len(stack') = 0 /\ Append(stack', n) = <<n>>
    BY <2>1
  <2>3. IsInjective(Append(stack, current))'
    BY <1>1, <2>2 DEF IsInjective
  <2>4. TypeOK'
    BY <1>1, <1>2, <1>4, <2>1, <2>2, <2>3 DEF TypeOK, render, content
  <2>5. ChainInv' /\ TopInv' /\ HandlerInv'
    BY <1>1, <1>4, <2>1, <2>2 DEF ChainInv, TopInv, HandlerInv
  <2> QED BY <1>3, <1>5, <2>4, <2>5
<1> QED BY <1>6, <1>7 DEF Launch

(* The home screen comes while the render task may hold the mutex; it only adds
   to the screens, of which there are none. *)
LEMMA HomeKeepsIInv ==
  ASSUME IInv, NEW a \in Fresh, LaunchHome(a)
  PROVE  IInv'
<1> USE ActivityAssumption DEF IInv
<1>1. /\ UNCHANGED <<stack, pendingAction, pendingActivity, handler, notified,
                     waiting, woken, handling, render, content>>
      /\ pc = "homing" /\ pc' = "navigating" /\ current' = a /\ requested' = TRUE
  BY DEF LaunchHome
<1>2. /\ a \in Activities /\ stack = <<>> /\ pendingAction = "none"
      /\ current = None /\ waiting = FALSE /\ woken = FALSE
  BY <1>1 DEF Fresh, NavigationInv, TypeOK
<1>3. Range(stack) = {}
  BY <1>2 DEF Range
<1>4. Append(stack, current)' = <<a>>
  BY <1>1, <1>2
<1>5. IsInjective(Append(stack, current))'
  BY <1>4 DEF IsInjective
<1>6. TypeOK'
  BY <1>1, <1>2, <1>3, <1>5 DEF TypeOK, render, content
<1>7. handler[a] = None
  BY <1>2, <1>3 DEF HandlerInv
<1>8. NavigationInv' /\ ChainInv' /\ TopInv' /\ HandlerInv'
  BY <1>1, <1>2, <1>3, <1>7 DEF NavigationInv, ChainInv, TopInv, HandlerInv
<1>9. rpc # "rendering"
  BY <1>2, <1>3 DEF RenderInv, RenderedIsAlive
<1>10. RenderInv'
  BY <1>1, <1>9 DEF RenderInv, render, content
<1> QED BY <1>6, <1>8, <1>10

-----------------------------------------------------------------------------
(* The strengthening holds in every state, with or without changes outside the
   mutex. *)
THEOREM Inductive == Spec => []IInv
<1>1. IInv /\ [Next]_vars => IInv'
  <2> SUFFICES ASSUME IInv, [Next]_vars PROVE IInv'
    OBVIOUS
  <2>1. CASE MainTask
    BY <2>1, QuietKeepsIInv, RequestKeepsIInv, PopKeepsIInv, LaunchKeepsIInv,
       HomeKeepsIInv DEF MainTask
  <2>2. CASE RenderTask \/ UNCHANGED vars
    BY <2>2, QuietKeepsIInv
  <2> QED BY <2>1, <2>2 DEF Next
<1> QED BY <1>1, InitIInv, PTL DEF Spec

(* Type correctness: screens are distinct, the stack is bounded, what is pending
   is a new activity, and a wait has its flags to itself. *)
THEOREM TypeCorrect == Spec => []TypeOK
<1>1. IInv => TypeOK
  BY DEF IInv
<1> QED BY <1>1, Inductive, PTL

(* loop never destroys the activity renderTaskLoop is drawing, although the home
   screen is launched without the mutex. *)
THEOREM RenderedStaysAlive == Spec => []RenderedIsAlive
<1>1. IInv => RenderedIsAlive
  BY DEF IInv, RenderInv, RenderedIsAlive
<1> QED BY <1>1, Inductive, PTL

(* A handler waits for the screen right above its owner, whatever callbacks and
   gestures pushed, replaced or popped in between. *)
THEOREM ResultsReach == Spec => []ResultsReachTheirCaller
<1>1. IInv => ResultsReachTheirCaller
  <2> SUFFICES ASSUME IInv, NEW i \in 1 .. Len(Screens), Screens[i] # None,
                      handler[Screens[i]] # None
               PROVE  IF i < Len(Screens) THEN Screens[i + 1] = handler[Screens[i]]
                      ELSE pc # "idle"
    BY DEF ResultsReachTheirCaller, Screens
  <2>1. /\ Len(Screens) = Len(stack) + 1 /\ Len(stack) \in Nat
        /\ Screens[Len(stack) + 1] = current
        /\ \A j \in 1 .. Len(stack) : Screens[j] = stack[j]
    <3>1. stack \in Seq(Activities \cup {None}) /\ current \in Activities \cup {None}
      BY DEF IInv, TypeOK
    <3> QED BY <3>1, PushedScreens DEF Screens
  <2>2. CASE i \in 1 .. Len(stack)
    BY <2>1, <2>2 DEF IInv, ChainInv
  <2>3. CASE i = Len(stack) + 1
    BY <2>1, <2>3 DEF IInv, TopInv
  <2> QED BY <2>1, <2>2, <2>3
<1> QED BY <1>1, Inductive, PTL

(* When state is changed under a RenderLock only, requestUpdateAndWait returns
   with the state of its caller on the display.  Without that assumption it does
   not: see the violation MCActivityManagerUnlocked.cfg finds. *)
THEOREM WaitShows ==
  ASSUME UnlockedChanges = FALSE
  PROVE  Spec => WaitShowsTheState
<1> USE ActivityAssumption
<1>1. Init => ShownInv
  BY DEF Init, ShownInv
<1>2. ASSUME IInv, ShownInv, [Next]_vars PROVE ShownInv'
  <2>1. CASE MainTask /\ mutex
    <3>1. UNCHANGED <<version, drawing, shown, rpc>>
      BY <1>2, <2>1, UnlockedChanges = FALSE DEF MainTask, Change, RequestUpdate,
         RequestUpdateAndWait, Return, StartActivityForResult, ReplaceActivity, LaunchHome,
         Finish, EndCallback, BeginLoop, Gesture, Pop, Launch, Navigate, EndLoop,
         render, content
    <3> QED BY <1>2, <3>1 DEF ShownInv
  <2>2. CASE MainTask /\ ~mutex
    <3>1. rpc' = rpc
      BY <2>2 DEF MainTask, Change, RequestUpdate,
         RequestUpdateAndWait, Return, StartActivityForResult, ReplaceActivity, LaunchHome,
         Finish, EndCallback, BeginLoop, Gesture, Pop, Launch, Navigate, EndLoop, render
    <3> QED BY <1>2, <2>2, <3>1 DEF ShownInv, IInv, RenderInv
  <2>3. CASE RenderTask
    BY <1>2, <2>3 DEF ShownInv, RenderTask, RenderTake, RenderBegin, RenderEnd, Wake,
       Release, content
  <2>4. CASE UNCHANGED vars
    BY <1>2, <2>4 DEF ShownInv, vars
  <2> QED BY <1>2, <2>1, <2>2, <2>3, <2>4 DEF Next
<1>3. ASSUME IInv, ShownInv, [Next]_vars
      PROVE  [woken' /\ ~woken => shown >= asked \/ drawing.activity = None]_vars
  <2> SUFFICES ASSUME Next, woken', ~woken
               PROVE  shown >= asked \/ drawing.activity = None
    BY <1>3
  <2>1. rpc = "waking"
    BY DEF Next, RenderTask, RenderTake, RenderBegin, RenderEnd, Wake, Release,
       MainTask, Change, RequestUpdate, RequestUpdateAndWait, Return,
       StartActivityForResult, ReplaceActivity, LaunchHome, Finish, EndCallback,
       BeginLoop, Gesture, Pop, Launch, Navigate, EndLoop, Flush, signals
  <2>2. drawing.activity = None \/ shown = version
    BY <1>3, <2>1 DEF ShownInv
  <2>3. asked <= version /\ {version, shown, asked} \subseteq 0 .. MaxVersion
    BY <1>3 DEF IInv, TypeOK, RenderInv
  <2> QED BY <2>2, <2>3
<1> QED BY <1>1, <1>2, <1>3, Inductive, PTL DEF Spec, WaitShowsTheState
=============================================================================
