-------------------------- MODULE ActivityManager --------------------------
(***************************************************************************)
(* The two tasks of the user interface: the main task, which runs the      *)
(* current activity and changes screens, and the render task, which draws  *)
(* the current activity when it is notified.                               *)
(*                                                                         *)
(* The tasks share renderingMutex, one task notification each way,         *)
(* waitingTaskHandle and the state the screens are drawn from, here a      *)
(* version number.  What an activity does in loop(), onEnter() or a result *)
(* handler ("callback") is any sequence of the operations it can call.     *)
(* The navigation under the mutex is one step: the render task is not      *)
(* running then.                                                           *)
(***************************************************************************)
EXTENDS Integers, Sequences, SequencesExt

CONSTANTS
    Activities,         \* activities; one that was destroyed may be made again
    None,
    Exclusive,          \* those that require an exclusive storage loop
    MaxStack,           \* bounds stackActivities
    MaxVersion,         \* bounds the changes of state
    UnlockedChanges     \* whether a change may be made without a RenderLock

ASSUME ActivityAssumption ==
    /\ None \notin Activities /\ Exclusive \subseteq Activities /\ Activities # {}
    /\ MaxStack \in Nat /\ MaxVersion \in Nat
    /\ UnlockedChanges \in BOOLEAN

VARIABLES
    current,            \* currentActivity
    stack,              \* stackActivities, the bottom first
    pendingAction,      \* "none", "push", "pop" or "replace"
    pendingActivity,
    handler,            \* the activity whose result resultHandler is for
    requested,          \* requestedUpdate
    mutex,              \* whether the render task holds renderingMutex
    notified,           \* the notification of the render task
    waiting,            \* waitingTaskHandle # nullptr
    woken,              \* the notification of the main task
    pc,                 \* the main task
    handling,           \* whether the callback is a result handler
    rpc,                \* the render task
    drawing,            \* what it draws: an activity and a version
    version,            \* the state the screens are drawn from
    shown,              \* the version on the display
    asked               \* the version requestUpdateAndWait was called with

navigation == <<current, stack, pendingAction, pendingActivity, handler>>
render == <<mutex, rpc, drawing, shown>>
signals == <<requested, notified, waiting, woken>>
content == <<version, asked>>
vars == <<current, stack, pendingAction, pendingActivity, handler, requested,
          mutex, notified, waiting, woken, pc, handling, rpc, drawing, version,
          shown, asked>>

Nothing == [activity |-> None, version |-> 0]

Alive == {current, pendingActivity} \cup Range(stack)

Fresh == Activities \ Alive

Init ==
    /\ current \in Activities \ Exclusive
    /\ stack = <<>>
    /\ pendingAction = "none"
    /\ pendingActivity = None
    /\ handler = [a \in Activities |-> None]
    /\ requested \in BOOLEAN
    /\ mutex = FALSE
    /\ notified = FALSE
    /\ waiting = FALSE
    /\ woken = FALSE
    /\ pc = "idle"
    /\ handling = FALSE
    /\ rpc = "blocked"
    /\ drawing = Nothing
    /\ version = 0
    /\ shown = 0
    /\ asked = 0

-----------------------------------------------------------------------------
(* Faulty variants, not used by any action; they show that the properties at
   the end can fail. *)

(* The render task does not wait for the mutex. *)
RenderBeginUnlocked ==
    /\ rpc = "locking"
    /\ drawing' = [activity |-> current, version |-> version]
    /\ rpc' = IF current = None THEN "waking" ELSE "rendering"
    /\ UNCHANGED <<mutex, navigation, signals, content, pc, handling, shown>>

(* The screens change without the mutex. *)
MayNavigateUnlocked == TRUE

(* The flag of requestUpdate is cleared, the render task is not notified. *)
FlushSilently ==
    /\ requested' = FALSE
    /\ UNCHANGED <<notified, waiting, woken>>

(* The waiter relies on a render that is under way. *)
RequestUpdateAndWaitSilently ==
    /\ pc = "callback"
    /\ waiting' = TRUE
    /\ notified' = (notified \/ rpc = "blocked")
    /\ asked' = version
    /\ pc' = "waiting"
    /\ UNCHANGED <<navigation, requested, woken, handling, render, version>>

(* The handler stays set after it was called. *)
HandlersAfterKept(a) == handler

(* The render task wakes the main task whether or not it waits. *)
WakeAlways ==
    /\ rpc = "waking"
    /\ woken' = TRUE
    /\ waiting' = FALSE
    /\ rpc' = "releasing"
    /\ UNCHANGED <<navigation, requested, notified, content, pc, handling, mutex,
                   drawing, shown>>
-----------------------------------------------------------------------------
(* The operations of a callback. *)
Callback == pc = "callback"

(* A RenderLock is held for the change, or not. *)
Change ==
    /\ Callback
    /\ version < MaxVersion
    /\ ~mutex \/ UnlockedChanges
    /\ version' = version + 1
    /\ UNCHANGED <<navigation, signals, pc, handling, render, asked>>

RequestUpdate(immediate) ==
    /\ Callback
    /\ IF immediate THEN notified' = TRUE /\ UNCHANGED requested
                    ELSE requested' = TRUE /\ UNCHANGED notified
    /\ UNCHANGED <<navigation, waiting, woken, pc, handling, render, content>>

RequestUpdateAndWait ==
    /\ Callback
    /\ waiting' = TRUE
    /\ notified' = TRUE
    /\ asked' = version
    /\ pc' = "waiting"
    /\ UNCHANGED <<navigation, requested, woken, handling, render, version>>

Return ==
    /\ pc = "waiting"
    /\ woken
    /\ woken' = FALSE
    /\ pc' = "callback"
    /\ UNCHANGED <<navigation, requested, notified, waiting, handling, render, content>>

(* pushActivity, popActivity and replaceActivity. *)
Pend(action, a) ==
    /\ pendingAction' = action
    /\ pendingActivity' = a
    /\ UNCHANGED <<current, stack>>

StartActivityForResult(a) ==
    /\ Callback
    /\ current \notin Exclusive
    /\ Len(stack) < MaxStack
    /\ Pend("push", a)
    /\ handler' = [handler EXCEPT ![current] = a]
    /\ UNCHANGED <<signals, pc, handling, render, content>>

Finish ==
    /\ Callback
    /\ Pend("pop", None)
    /\ UNCHANGED <<handler, signals, pc, handling, render, content>>

ReplaceActivity(a) ==
    /\ Callback
    /\ Pend("replace", a)
    /\ UNCHANGED <<handler, signals, pc, handling, render, content>>

(* The callback returns; after a result handler the screen is drawn again. *)
EndCallback ==
    /\ Callback
    /\ pc' = IF current \in Exclusive /\ ~handling THEN "flushing" ELSE "navigating"
    /\ requested' = (requested \/ (handling /\ pendingAction = "none"))
    /\ handling' = FALSE
    /\ UNCHANGED <<navigation, notified, waiting, woken, render, content>>

-----------------------------------------------------------------------------
(* ActivityManager::loop *)
BeginLoop ==
    /\ pc = "idle"
    /\ pc' = "callback"
    /\ UNCHANGED <<navigation, signals, handling, render, content>>

(* A gesture asks for the home screen or for the light panel, or a screen handles
   it itself and finishes; loop returns.  The next pass may find another gesture,
   or runs the callback: what is pending waits. *)
Gesture(action, a) ==
    /\ pc = "idle"
    /\ current \notin Exclusive
    /\ action = "push" => Len(stack) < MaxStack
    /\ Pend(action, a)
    /\ UNCHANGED <<handler, signals, pc, handling, render, content>>

MayNavigate == ~mutex

HandlersAfter(a) == [handler EXCEPT ![a] = None]

Navigate ==
    /\ pc = "navigating"
    /\ MayNavigate
    /\ pendingAction' = "none"
    /\ pendingActivity' = None
    /\ UNCHANGED <<notified, waiting, woken, render, content>>

Pop ==
    /\ pendingAction = "pop"
    /\ Navigate
    /\ IF stack = <<>>
       THEN /\ current' = None
            /\ pc' = "homing"
            /\ handler' = HandlersAfter(current)
            /\ UNCHANGED <<stack, requested, handling>>
       ELSE LET below == Last(stack)
                called == handler[below] # None
            IN  /\ current' = below
                /\ stack' = Front(stack)
                /\ handler' = [HandlersAfter(below) EXCEPT ![current] = None]
                /\ handling' = called
                /\ pc' = IF called THEN "callback" ELSE "navigating"
                /\ requested' = (requested \/ ~called)

(* goHome without a current activity: the home screen is launched at once,
   without the mutex; its onEnter asks for a render and does no more. *)
LaunchHome(a) ==
    /\ pc = "homing"
    /\ a \notin Exclusive
    /\ current' = a
    /\ pc' = "navigating"
    /\ requested' = TRUE
    /\ UNCHANGED <<stack, pendingAction, pendingActivity, handler, notified,
                   waiting, woken, handling, render, content>>

(* onEnter of the new activity comes after the mutex is released. *)
Launch ==
    /\ pendingAction \in {"push", "replace"}
    /\ Navigate
    /\ current' = pendingActivity
    /\ stack' = IF pendingAction = "push" THEN Append(stack, current) ELSE <<>>
    /\ handler' = IF pendingAction = "push" THEN handler
                  ELSE [a \in Activities |-> None]
    /\ pc' = "callback"
    /\ UNCHANGED <<requested, handling>>

Flush ==
    /\ requested' = FALSE
    /\ notified' = (notified \/ requested)
    /\ UNCHANGED <<waiting, woken>>

EndLoop ==
    /\ pc = "flushing" \/ (pc = "navigating" /\ pendingAction = "none")
    /\ pc' = "idle"
    /\ Flush
    /\ UNCHANGED <<navigation, handling, render, content>>

-----------------------------------------------------------------------------
(* renderTaskLoop *)
RenderTake ==
    /\ rpc = "blocked"
    /\ notified
    /\ notified' = FALSE
    /\ rpc' = "locking"
    /\ UNCHANGED <<navigation, requested, waiting, woken, content, pc, handling,
                   mutex, drawing, shown>>

RenderBegin ==
    /\ rpc = "locking"
    /\ ~mutex
    /\ mutex' = TRUE
    /\ drawing' = [activity |-> current, version |-> version]
    /\ rpc' = IF current = None THEN "waking" ELSE "rendering"
    /\ UNCHANGED <<navigation, signals, content, pc, handling, shown>>

RenderEnd ==
    /\ rpc = "rendering"
    /\ shown' = drawing.version
    /\ rpc' = "waking"
    /\ UNCHANGED <<navigation, signals, content, pc, handling, mutex, drawing>>

Wake ==
    /\ rpc = "waking"
    /\ woken' = (woken \/ waiting)
    /\ waiting' = FALSE
    /\ rpc' = "releasing"
    /\ UNCHANGED <<navigation, requested, notified, content, pc, handling, mutex,
                   drawing, shown>>

(* The RenderLock ends with the turn of the loop, after the wake-up. *)
Release ==
    /\ rpc = "releasing"
    /\ mutex' = FALSE
    /\ rpc' = "blocked"
    /\ drawing' = Nothing
    /\ UNCHANGED <<navigation, signals, content, pc, handling, shown>>

MainTask ==
    \/ Change
    \/ \E immediate \in BOOLEAN : RequestUpdate(immediate)
    \/ RequestUpdateAndWait
    \/ Return
    \/ \E a \in Fresh : StartActivityForResult(a) \/ ReplaceActivity(a) \/ LaunchHome(a)
    \/ Finish
    \/ EndCallback
    \/ BeginLoop
    \/ \E a \in Fresh, action \in {"push", "replace"} : Gesture(action, a)
    \/ Gesture("pop", None)
    \/ Pop
    \/ Launch
    \/ EndLoop

RenderTask == RenderTake \/ RenderBegin \/ RenderEnd \/ Wake \/ Release

Next == MainTask \/ RenderTask

Spec == Init /\ [][Next]_vars

(* The scheduler runs both tasks; a callback returns, not always with a request
   to navigate, gestures do not take every loop, and the render task does not
   begin every turn in the instant without an activity. *)
Fairness ==
    /\ WF_vars(RenderTask)
    /\ SF_vars(RenderTake /\ current # None) /\ SF_vars(RenderBegin /\ current # None)
    /\ WF_vars(Return) /\ WF_vars(\E a \in Fresh : LaunchHome(a))
    /\ WF_vars(EndCallback) /\ SF_vars(EndCallback /\ pendingAction = "none")
    /\ SF_vars(BeginLoop)
    /\ SF_vars(Pop) /\ SF_vars(Launch) /\ SF_vars(EndLoop)

FairSpec == Spec /\ Fairness

-----------------------------------------------------------------------------
TypeOK ==
    /\ current \in Activities \cup {None}
    /\ (current = None) = (pc = "homing")
    /\ stack \in Seq(Activities) /\ Len(stack) <= MaxStack
    /\ IsInjective(Append(stack, current))
    /\ pendingActivity # None => pendingActivity \notin {current} \cup Range(stack)
    /\ pendingAction \in {"none", "push", "pop", "replace"}
    /\ pendingActivity \in Activities \cup {None}
    /\ (pendingActivity # None) = (pendingAction \in {"push", "replace"})
    /\ handler \in [Activities -> Activities \cup {None}]
    /\ {requested, mutex, notified, waiting, woken, handling} \subseteq BOOLEAN
    /\ pc \in {"idle", "callback", "waiting", "navigating", "flushing", "homing"}
    /\ rpc \in {"blocked", "locking", "rendering", "waking", "releasing"}
    /\ (waiting \/ woken) => pc = "waiting"
    /\ {version, shown, asked} \subseteq 0 .. MaxVersion

(* The activity the render task is drawing is not destroyed under it. *)
RenderedIsAlive ==
    rpc = "rendering" => drawing.activity \in {current} \cup Range(stack)

(* A result handler is called with the result of the activity it was set for:
   that activity is on top of the one that waits, or about to be. *)
ResultsReachTheirCaller ==
    LET screens == Append(stack, current)
    IN  \A i \in 1 .. Len(screens) :
            screens[i] # None /\ handler[screens[i]] # None =>
                IF i < Len(screens) THEN screens[i + 1] = handler[screens[i]]
                ELSE pc # "idle"

(* "Trigger a render and block until it completes", so that the screen reflects
   the new state before the caller goes on: when renderTaskLoop ends the wait,
   the display shows the state the caller had.  A turn that began in the instant
   without an activity draws nothing and may end the wait as well. *)
WaitShowsTheState ==
    [][woken' /\ ~woken => shown >= asked \/ drawing.activity = None]_vars

(* "pendingActivity while pushActivity is not expected": a push or a pop never
   finds an activity that is still to be launched, so that it is given up only
   for a replacement. *)
NoActivityDropped ==
    [][pendingActivity' # pendingActivity /\ pendingActivity # None
           => current' = pendingActivity \/ pendingAction' = "replace"]_vars

(* requestUpdateAndWait returns. *)
WaiterWakes == pc = "waiting" ~> pc # "waiting"

(* A change followed by requestUpdate gets on the display. *)
RequestedIsDrawn ==
    \A v \in 1 .. MaxVersion : version = v /\ requested ~> shown >= v
=============================================================================
