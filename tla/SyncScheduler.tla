--------------------------- MODULE SyncScheduler ---------------------------
(***************************************************************************)
(* When the main loop lets SyncClient::syncOnce run: SyncScheduler::tick,  *)
(* called once per loop, notifyLifecycleCommit, called whenever an event   *)
(* was queued, and flushBeforeSleep.  (syncNow and readerSyncDue have no   *)
(* caller.)                                                                *)
(*                                                                         *)
(* millis() wraps; deadlines are compared by the sign of a difference, and *)
(* 0 stands for no deadline.  A burst is one call of syncOnce, on the same *)
(* task: running is FALSE whenever tick is entered.  Wi-Fi, pairing and    *)
(* what is on the screen change between two ticks.                         *)
(***************************************************************************)
EXTENDS Integers

CONSTANTS
    Wrap,           \* millis() counts modulo Wrap (2^32)
    Step,           \* what one advance of the clock adds
    ConnectDelay,   \* CONNECT_DELAY_MS
    IdlePoll,       \* IDLE_POLL_INTERVAL_MS
    AgainDelay,     \* the delay after a burst that left work
    NotifyDelay,    \* the delay of notifyLifecycleCommit
    BackoffBase,    \* BACKOFF_BASE_MS
    BackoffMax,     \* BACKOFF_MAX_MS
    MaxFailures,    \* where failures saturates
    Durations       \* how long a burst may take

Instants == 0 .. Wrap - 1

ASSUME SchedulerAssumption ==
    /\ Wrap \in Nat \ {0} /\ Step \in Instants \ {0}
    /\ {ConnectDelay, IdlePoll, AgainDelay, NotifyDelay, BackoffMax} \subseteq 0 .. Wrap \div 2
    /\ ConnectDelay # 0
    /\ BackoffBase \in Nat /\ MaxFailures \in Nat
    /\ Durations \subseteq Nat

VARIABLES
    millis,             \* the clock
    nextAttempt,        \* nextAttemptMs
    lastSuccess,        \* lastSuccessMs
    failures,
    pending,
    wifiWasConnected,
    wifi,               \* WiFi.status() == WL_CONNECTED
    paired,
    reading,            \* the reader is on the stack of activities
    hold,               \* how much of the backoff after a failure is left,
                        \* 0 when its deadline fell on 0 by accident
    bursts              \* parity of the number of bursts

environment == <<wifi, paired, reading>>
vars == <<millis, nextAttempt, lastSuccess, failures, pending, wifiWasConnected,
          wifi, paired, reading, hold, bursts>>

After(now, delay) == (now + delay) % Wrap

(* Boot calls notifyLifecycleCommit when the outbox is not empty. *)
Booted(now, queued) ==
    /\ millis' = now
    /\ nextAttempt' = IF queued THEN After(now, NotifyDelay) ELSE 0
    /\ pending' = queued
    /\ lastSuccess' = 0
    /\ failures' = 0
    /\ wifiWasConnected' = FALSE
    /\ hold' = 0

Init ==
    /\ millis = 1
    /\ \/ nextAttempt = 0 /\ pending = FALSE
       \/ nextAttempt = After(1, NotifyDelay) /\ pending = TRUE
    /\ lastSuccess = 0
    /\ failures = 0
    /\ wifiWasConnected = FALSE
    /\ wifi = FALSE
    /\ paired \in BOOLEAN
    /\ reading \in BOOLEAN
    /\ hold = 0
    /\ bursts = 0

-----------------------------------------------------------------------------
(* Faulty variants, not used by any action; they show that the properties at
   the end can fail. *)

(* The instants are compared as numbers. *)
DeadlineReachedUnsigned(now, deadline) == deadline # 0 /\ now >= deadline

(* A commit always sets its own deadline. *)
NotifyAnyway ==
    /\ pending' = TRUE
    /\ nextAttempt' = After(millis, NotifyDelay)
    /\ UNCHANGED <<millis, lastSuccess, failures, wifiWasConnected, environment,
                   hold, bursts>>

(* A commit sets no deadline of its own. *)
NotifyPendingOnly ==
    /\ pending' = TRUE
    /\ UNCHANGED <<millis, nextAttempt, lastSuccess, failures, wifiWasConnected,
                   environment, hold, bursts>>

(* A burst that left work leaves no deadline. *)
SucceededOnce(now, more) ==
    /\ failures' = 0
    /\ lastSuccess' = now
    /\ pending' = more
    /\ nextAttempt' = 0
    /\ hold' = 0

(* The idle poll is for what is pending. *)
PollDuePending ==
    /\ wifi /\ pending /\ lastSuccess # 0
    /\ (millis - lastSuccess) % Wrap >= IdlePoll

(* failures is not saturated. *)
OneMoreUnbounded == failures + 1
-----------------------------------------------------------------------------
(* deadlineReached: (int32_t)(now - deadline) >= 0. *)
DeadlineReached(now, deadline) ==
    /\ deadline # 0
    /\ (now - deadline) % Wrap < Wrap \div 2

(* exponentialBackoffMs without and with its jitter. *)
PowersOfTwo == <<1, 2, 4, 8, 16, 32, 64, 128, 256, 512, 1024>>

Bounded(count) ==
    LET scaled == BackoffBase * PowersOfTwo[1 + IF count < 10 THEN count ELSE 10]
    IN  IF scaled < BackoffMax THEN scaled ELSE BackoffMax

Jittered(count, jitter) ==
    IF Bounded(count) > BackoffMax - jitter THEN BackoffMax ELSE Bounded(count) + jitter

Jitters(count) == 0 .. Bounded(count) \div 4

OneMore == IF failures < MaxFailures THEN failures + 1 ELSE MaxFailures

-----------------------------------------------------------------------------
Advance ==
    /\ millis' = After(millis, Step)
    /\ hold' = IF hold > Step THEN hold - Step ELSE 0
    /\ UNCHANGED <<nextAttempt, lastSuccess, failures, pending, wifiWasConnected,
                   environment, bursts>>

(* Wi-Fi, the credentials and the screen change. *)
Environment ==
    /\ wifi' \in BOOLEAN /\ paired' \in BOOLEAN /\ reading' \in BOOLEAN
    /\ environment' # environment
    /\ UNCHANGED <<millis, nextAttempt, lastSuccess, failures, pending,
                   wifiWasConnected, hold, bursts>>

(* notifyLifecycleCommit while the device runs: the reading session or a bookmark
   has queued an event, whatever is scheduled, paired or connected by then.  A
   deadline that is set stays, above all that of a backoff.  (The one call from
   within a burst, of the retry of a held position, changes nothing: work is
   pending there and the burst sets the deadline when it ends.) *)
NotifyLifecycleCommit ==
    /\ pending' = TRUE
    /\ nextAttempt' = IF nextAttempt = 0 THEN After(millis, NotifyDelay) ELSE nextAttempt
    /\ UNCHANGED <<millis, lastSuccess, failures, wifiWasConnected, environment,
                   hold, bursts>>

(* refreshConnectivitySchedule *)
Connected == wifi /\ ~wifiWasConnected /\ paired

PollDue ==
    /\ wifi /\ ~pending /\ lastSuccess # 0
    /\ (millis - lastSuccess) % Wrap >= IdlePoll

Wanted == pending \/ Connected \/ PollDue

Deadline ==
    IF Connected THEN After(millis, ConnectDelay)
    ELSE IF PollDue THEN millis
    ELSE nextAttempt

(* runBurst(1) *)
Succeeded(now, more) ==
    /\ failures' = 0
    /\ lastSuccess' = now
    /\ pending' = more
    /\ nextAttempt' = IF more THEN After(now, AgainDelay) ELSE 0
    /\ hold' = 0

Failed(now, jitter) ==
    /\ failures' = OneMore
    /\ nextAttempt' = After(now, Jittered(failures', jitter))
    /\ pending' = TRUE
    /\ hold' = IF nextAttempt' = 0 THEN 0 ELSE Bounded(failures')
    /\ UNCHANGED lastSuccess

RunBurst ==
    /\ bursts' = 1 - bursts
    /\ \E spent \in Durations :
          /\ millis' = After(millis, spent)
          /\ \/ \E more \in BOOLEAN : Succeeded(millis', more)
             \/ \E jitter \in Jitters(OneMore) : Failed(millis', jitter)

Due ==
    /\ Wanted /\ ~reading /\ paired /\ wifi
    /\ DeadlineReached(millis, Deadline)

Tick ==
    /\ wifiWasConnected' = wifi
    /\ IF Due
       THEN RunBurst
       ELSE /\ pending' = Wanted
            /\ nextAttempt' = Deadline
            /\ hold' = IF Connected THEN 0 ELSE hold
            /\ UNCHANGED <<millis, lastSuccess, failures, bursts>>
    /\ UNCHANGED environment

(* enterDeepSleep, and the boot that follows.  flushBeforeSleep tries once more,
   whatever is scheduled; of that only what it left in the outbox remains. *)
Sleep(queued) ==
    /\ Booted(1, queued)
    /\ wifi' = FALSE
    /\ UNCHANGED <<paired, reading, bursts>>

Next ==
    \/ Advance
    \/ Environment
    \/ NotifyLifecycleCommit
    \/ Tick
    \/ \E queued \in BOOLEAN : Sleep(queued)

Spec == Init /\ [][Next]_vars

(* The loop runs and time passes; a burst that is due is not preempted by the
   environment for ever. *)
FairSpec == Spec /\ WF_vars(Advance) /\ SF_vars(Tick /\ bursts' # bursts) /\ WF_vars(Tick)

-----------------------------------------------------------------------------
TypeOK ==
    /\ {millis, nextAttempt, lastSuccess} \subseteq Instants
    /\ failures \in 0 .. MaxFailures
    /\ {pending, wifiWasConnected, wifi, paired, reading} \subseteq BOOLEAN
    /\ hold \in 0 .. BackoffMax
    /\ bursts \in 0 .. 1

(* tick does not sync again before the backoff of the last failure is over,
   across a wrap of the clock too and however many events are queued meanwhile,
   unless Wi-Fi has connected in between. *)
BackoffHonoured ==
    [][bursts' # bursts => hold = 0]_vars

(* What is pending is tried, as long as it can be: what a burst left, and what is
   queued while the device is idle and has no deadline. *)
PendingIsServed ==
    \A b \in 0 .. 1 :
        pending /\ bursts = b ~> bursts # b \/ ~(wifi /\ paired /\ ~reading)

(* After a success the server is asked again, although nothing is queued. *)
PollsWhenIdle ==
    \A b \in 0 .. 1 :
        lastSuccess # 0 /\ bursts = b ~> bursts # b \/ lastSuccess = 0 \/ ~(wifi /\ paired /\ ~reading)
=============================================================================
