------------------------ MODULE SyncSchedulerProofs ------------------------
(***************************************************************************)
(* For every width of the clock and all delays of at most half of it, the  *)
(* scheduler keeps its types and honours the backoff of a failed burst,    *)
(* across a wrap of the clock too.                                         *)
(***************************************************************************)
EXTENDS SyncScheduler, TLAPS

(* How far the deadline is ahead of the clock, modulo its width. *)
Ahead == (nextAttempt - millis) % Wrap

(* While a part of the backoff is left, there is something to send, and there is a
   deadline, so that a commit sets none.  It is ahead by at least that part and by
   no more than what the signed comparison can tell from one that has passed. *)
BackoffScheduled ==
    hold > 0 =>
        pending /\ nextAttempt # 0 /\ hold <= Ahead /\ Ahead <= Wrap \div 2

IInv == TypeOK /\ BackoffScheduled

-----------------------------------------------------------------------------
(* Arithmetic of a clock that wraps. *)

LEMMA Remainder ==
    ASSUME NEW w \in Nat \ {0}, NEW a \in Int
    PROVE  a % w \in 0 .. w - 1
OBVIOUS

LEMMA RemainderBelow ==
    ASSUME NEW w \in Nat \ {0}, NEW a \in 0 .. w - 1
    PROVE  a % w = a
OBVIOUS

LEMMA RemainderAbove ==
    ASSUME NEW w \in Nat \ {0}, NEW a \in w .. 2 * w - 1
    PROVE  a % w = a - w
OBVIOUS

LEMMA RemainderNegative ==
    ASSUME NEW w \in Nat \ {0}, NEW a \in -w .. -1
    PROVE  a % w = a + w
OBVIOUS

LEMMA HalfOf ==
    ASSUME NEW w \in Nat \ {0}
    PROVE  /\ w \div 2 \in 0 .. w - 1
           /\ w \div 2 <= w - w \div 2
OBVIOUS

(* The constants, as far as the steps below need them. *)
LEMMA Widths ==
    /\ Wrap \in Nat \ {0} /\ Wrap > 1
    /\ Step \in 1 .. Wrap - 1
    /\ {0, 1} \subseteq Instants
    /\ Instants = 0 .. Wrap - 1 /\ Instants \subseteq Nat
    /\ Wrap \div 2 \in Nat /\ Wrap \div 2 < Wrap
    /\ Wrap \div 2 <= Wrap - Wrap \div 2
    /\ BackoffMax \in Nat /\ BackoffMax <= Wrap \div 2
BY SchedulerAssumption, HalfOf DEF Instants

LEMMA AfterIsInstant ==
    ASSUME NEW now \in Instants, NEW delay \in Nat
    PROVE  After(now, delay) \in Instants
<1>1. now + delay \in Int /\ Wrap \in Nat \ {0}
  BY Widths
<1>2. (now + delay) % Wrap \in 0 .. Wrap - 1
  BY <1>1, Remainder, Zenon
<1> QED BY <1>2, Widths, Zenon DEF After

(* A deadline of at most half the width is that far ahead. *)
LEMMA AfterIsAhead ==
    ASSUME NEW now \in Instants, NEW delay \in 0 .. Wrap \div 2
    PROVE  /\ After(now, delay) \in Instants
           /\ (After(now, delay) - now) % Wrap = delay
<1>1. /\ Wrap \in Nat \ {0} /\ delay \in 0 .. Wrap - 1 /\ delay \in Nat
      /\ now \in 0 .. Wrap - 1
  BY Widths
<1>2. CASE now + delay < Wrap
  <2>1. now + delay \in 0 .. Wrap - 1
    BY <1>1, <1>2
  <2>2. After(now, delay) = now + delay
    BY <1>1, <2>1, RemainderBelow, Zenon DEF After
  <2>3. (now + delay) - now = delay
    BY <1>1
  <2>4. delay % Wrap = delay
    BY <1>1, RemainderBelow, Zenon
  <2> QED BY <1>1, <2>2, <2>3, <2>4, AfterIsInstant, Zenon
<1>3. CASE now + delay >= Wrap
  <2>1. now + delay \in Wrap .. 2 * Wrap - 1
    BY <1>1, <1>3
  <2>2. After(now, delay) = (now + delay) - Wrap
    BY <1>1, <2>1, RemainderAbove, Zenon DEF After
  <2>3. ((now + delay) - Wrap) - now = delay - Wrap /\ delay - Wrap \in -Wrap .. -1
    BY <1>1
  <2>4. (delay - Wrap) % Wrap = (delay - Wrap) + Wrap
    BY <1>1, <2>3, RemainderNegative, Zenon
  <2>5. (delay - Wrap) + Wrap = delay
    BY <1>1
  <2> QED BY <1>1, <2>2, <2>3, <2>4, <2>5, AfterIsInstant, Zenon
<1> QED BY <1>1, <1>2, <1>3

(* How two instants differ modulo the width. *)
LEMMA Difference ==
    ASSUME NEW later \in Instants, NEW earlier \in Instants
    PROVE  /\ later >= earlier => (later - earlier) % Wrap = later - earlier
           /\ later < earlier => (later - earlier) % Wrap = (later - earlier) + Wrap
<1>1. Wrap \in Nat \ {0} /\ later \in 0 .. Wrap - 1 /\ earlier \in 0 .. Wrap - 1
  BY Widths
<1>2. ASSUME later >= earlier PROVE (later - earlier) % Wrap = later - earlier
  <2>1. later - earlier \in 0 .. Wrap - 1
    BY <1>1, <1>2
  <2> QED BY <1>1, <2>1, RemainderBelow, Zenon
<1>3. ASSUME later < earlier PROVE (later - earlier) % Wrap = (later - earlier) + Wrap
  <2>1. later - earlier \in -Wrap .. -1
    BY <1>1, <1>3
  <2> QED BY <1>1, <2>1, RemainderNegative, Zenon
<1> QED BY <1>2, <1>3, Zenon

(* A deadline that is ahead by no more than half the width is not reached. *)
LEMMA AheadIsNotReached ==
    ASSUME NEW now \in Instants, NEW deadline \in Instants,
           (deadline - now) % Wrap \in 1 .. Wrap \div 2
    PROVE  ~DeadlineReached(now, deadline)
<1> DEFINE ahead == (deadline - now) % Wrap
           past == (now - deadline) % Wrap
           half == Wrap \div 2
<1>1. /\ deadline >= now => ahead = deadline - now
      /\ deadline < now => ahead = (deadline - now) + Wrap
      /\ now >= deadline => past = now - deadline
      /\ now < deadline => past = (now - deadline) + Wrap
      /\ ahead \in 1 .. half
  BY Difference
<1>2. /\ half \in Nat /\ half <= Wrap - half /\ Wrap \in Nat
      /\ now \in Nat /\ deadline \in Nat
  BY Widths
<1> HIDE DEF ahead, past, half
<1>3. ~(past < half)
  BY <1>1, <1>2
<1> QED BY <1>3 DEF DeadlineReached, past, half

(* The clock that advances by less than the distance of a deadline comes closer
   to it by as much. *)
LEMMA AdvanceComesCloser ==
    ASSUME NEW now \in Instants, NEW deadline \in Instants,
           (deadline - now) % Wrap > Step
    PROVE  (deadline - After(now, Step)) % Wrap = ((deadline - now) % Wrap) - Step
<1> DEFINE ahead == (deadline - now) % Wrap
           next == After(now, Step)
           left == (deadline - next) % Wrap
<1>1. /\ Wrap \in Nat \ {0} /\ Step \in 1 .. Wrap - 1 /\ Step \in Nat
      /\ now \in 0 .. Wrap - 1 /\ deadline \in 0 .. Wrap - 1
  BY Widths
<1>2. /\ now + Step \in 0 .. Wrap - 1 => next = now + Step
      /\ now + Step \in Wrap .. 2 * Wrap - 1 => next = (now + Step) - Wrap
  BY <1>1, RemainderBelow, RemainderAbove, Zenon DEF After
<1>3. next \in Instants
  BY <1>1, AfterIsInstant, Zenon
<1>4. /\ deadline >= now => ahead = deadline - now
      /\ deadline < now => ahead = (deadline - now) + Wrap
      /\ ahead > Step
  BY Difference
<1>5. /\ deadline >= next => left = deadline - next
      /\ deadline < next => left = (deadline - next) + Wrap
  BY <1>3, Difference, Zenon
<1>6. next \in 0 .. Wrap - 1
  BY <1>3, Widths, Zenon
<1> HIDE DEF ahead, next, left
<1>7. left = ahead - Step
  BY <1>1, <1>2, <1>4, <1>5, <1>6
<1> QED BY <1>7 DEF ahead, next, left
-----------------------------------------------------------------------------
(* The backoff, with its jitter or without, is at most BackoffMax, and the jitter
   only adds to it. *)
LEMMA BackoffIsBounded ==
    ASSUME NEW count \in Nat
    PROVE  /\ Bounded(count) \in 0 .. BackoffMax
           /\ \A jitter \in Jitters(count) :
                Jittered(count, jitter) \in Bounded(count) .. BackoffMax
<1> USE SchedulerAssumption
<1>1. BackoffMax \in Nat /\ BackoffBase \in Nat
  BY HalfOf
<1>2. PowersOfTwo[1 + IF count < 10 THEN count ELSE 10] \in Nat
  BY DEF PowersOfTwo
<1>3. \A m \in Nat : BackoffBase * m \in Nat
  BY <1>1
<1>4. Bounded(count) \in 0 .. BackoffMax
  BY <1>1, <1>2, <1>3 DEF Bounded
<1>5. \A jitter \in Jitters(count) : jitter \in Nat
  BY <1>4 DEF Jitters
<1> QED BY <1>1, <1>4, <1>5 DEF Jittered

(* What a burst that failed leaves: the whole backoff, and a deadline that is at
   least as far ahead. *)
LEMMA FailedSchedules ==
    ASSUME TypeOK, NEW now \in Instants, NEW jitter \in Jitters(OneMore),
           Failed(now, jitter)
    PROVE  /\ failures' \in 0 .. MaxFailures
           /\ nextAttempt' \in Instants
           /\ pending' = TRUE
           /\ hold' \in 0 .. BackoffMax
           /\ (nextAttempt' - now) % Wrap \in hold' .. Wrap \div 2
           /\ hold' > 0 => nextAttempt' # 0
           /\ lastSuccess' = lastSuccess
<1> USE SchedulerAssumption
<1>1. failures' = OneMore /\ OneMore \in 0 .. MaxFailures /\ OneMore \in Nat
  BY DEF Failed, OneMore, TypeOK
<1>2. /\ Bounded(OneMore) \in 0 .. BackoffMax
      /\ Jittered(OneMore, jitter) \in Bounded(OneMore) .. BackoffMax
  BY <1>1, BackoffIsBounded
<1>3. Jittered(OneMore, jitter) \in 0 .. Wrap \div 2
  BY <1>2, HalfOf
<1>4. /\ nextAttempt' = After(now, Jittered(OneMore, jitter))
      /\ hold' = IF nextAttempt' = 0 THEN 0 ELSE Bounded(OneMore)
  BY <1>1 DEF Failed
<1>5. /\ nextAttempt' \in Instants
      /\ (nextAttempt' - now) % Wrap = Jittered(OneMore, jitter)
  BY <1>3, <1>4, AfterIsAhead
<1> QED BY <1>1, <1>2, <1>3, <1>4, <1>5 DEF Failed

(* No burst is due while a part of the backoff is left. *)
LEMMA HeldIsNotDue == IInv /\ hold > 0 => ~Due
<1> SUFFICES ASSUME IInv, hold > 0 PROVE ~Due
  OBVIOUS
<1> USE SchedulerAssumption
<1>1. /\ pending /\ ~PollDue
      /\ millis \in Instants /\ nextAttempt \in Instants
  BY DEF IInv, TypeOK, BackoffScheduled, PollDue
<1>2. CASE Connected
  <2>1. ConnectDelay \in 1 .. Wrap \div 2
    BY HalfOf
  <2>2. /\ After(millis, ConnectDelay) \in Instants
        /\ (After(millis, ConnectDelay) - millis) % Wrap \in 1 .. Wrap \div 2
    BY <1>1, <2>1, AfterIsAhead
  <2>3. ~DeadlineReached(millis, After(millis, ConnectDelay))
    BY <1>1, <2>2, AheadIsNotReached
  <2> QED BY <1>2, <2>3 DEF Due, Deadline
<1>3. CASE ~Connected
  <2>1. Ahead \in 1 .. Wrap \div 2
    <3>1. Ahead \in 0 .. Wrap - 1 /\ hold \in Nat /\ hold <= Ahead /\ Ahead <= Wrap \div 2
      BY <1>1, Remainder, HalfOf DEF IInv, TypeOK, BackoffScheduled, Ahead, Instants
    <3> QED BY <3>1, HalfOf
  <2>2. ~DeadlineReached(millis, nextAttempt)
    BY <1>1, <2>1, AheadIsNotReached DEF Ahead
  <2> QED BY <1>1, <1>3, <2>2 DEF Due, Deadline
<1> QED BY <1>2, <1>3
-----------------------------------------------------------------------------
LEMMA BootDeadline == {0, 1} \subseteq Instants /\ After(1, NotifyDelay) \in Instants
<1>1. NotifyDelay \in 0 .. Wrap \div 2 /\ {0, 1} \subseteq Instants
  BY SchedulerAssumption, Widths, Zenon
<1> QED BY <1>1, AfterIsAhead, Zenon

LEMMA InitIInv == Init => IInv
<1> SUFFICES ASSUME Init PROVE IInv
  OBVIOUS
<1>1. {0, 1} \subseteq Instants /\ After(1, NotifyDelay) \in Instants
  BY BootDeadline
<1>2. ~(0 > 0) /\ 0 \in 0 .. BackoffMax /\ 0 \in 0 .. MaxFailures /\ 0 \in 0 .. 1
  BY SchedulerAssumption, Widths
<1>3. TypeOK
  BY <1>1, <1>2, Zenon DEF Init, TypeOK
<1> QED BY <1>2, <1>3, Zenon DEF Init, IInv, BackoffScheduled

LEMMA AheadIsNatural ==
    ASSUME millis \in Instants, nextAttempt \in Instants
    PROVE  Ahead \in Nat
<1>1. nextAttempt - millis \in Int /\ Wrap \in Nat \ {0}
  BY Widths
<1>2. Ahead \in 0 .. Wrap - 1
  BY <1>1, Remainder, Zenon DEF Ahead
<1> QED BY <1>1, <1>2

LEMMA AdvanceKeeps == IInv /\ Advance => IInv'
<1> SUFFICES ASSUME IInv, Advance PROVE IInv'
  OBVIOUS
<1>1. /\ millis \in Instants /\ nextAttempt \in Instants /\ nextAttempt' \in Instants
      /\ millis' = After(millis, Step)
      /\ hold \in 0 .. BackoffMax
  BY DEF IInv, TypeOK, Advance
<1>a. Step \in Nat /\ BackoffMax \in Nat
  BY Widths
<1>b. millis' \in Instants
  BY <1>1, <1>a, AfterIsInstant, Zenon
<1>2. hold' \in 0 .. BackoffMax
  BY <1>1, <1>a DEF Advance
<1>3. TypeOK'
  BY <1>1, <1>b, <1>2 DEF IInv, TypeOK, Advance, environment
<1>4. ASSUME hold' > 0
      PROVE  pending' /\ nextAttempt' # 0 /\ hold' <= Ahead' /\ Ahead' <= Wrap \div 2
  <2>1. hold > Step /\ hold' = hold - Step /\ hold > 0
    BY <1>1, <1>a, <1>4 DEF Advance
  <2>2. pending /\ nextAttempt # 0 /\ hold <= Ahead /\ Ahead <= Wrap \div 2
    BY <2>1 DEF IInv, BackoffScheduled
  <2>3. Ahead \in Nat
    BY <1>1, AheadIsNatural
  <2>4. Ahead > Step
    BY <1>1, <1>a, <2>1, <2>2, <2>3
  <2>5. (nextAttempt - After(millis, Step)) % Wrap = Ahead - Step
    BY <1>1, <2>4, AdvanceComesCloser, Zenon DEF Ahead
  <2>6. nextAttempt' = nextAttempt /\ pending' = pending
    BY DEF Advance
  <2>7. Ahead' = Ahead - Step
    BY <1>1, <2>5, <2>6, Zenon DEF Ahead
  <2>8. Wrap \div 2 \in Nat
    BY Widths
  <2> QED BY <1>1, <1>a, <2>1, <2>2, <2>3, <2>6, <2>7, <2>8
<1> QED BY <1>3, <1>4 DEF IInv, BackoffScheduled

LEMMA TickKeeps == IInv /\ Tick => IInv'
<1> SUFFICES ASSUME IInv, Tick PROVE IInv'
  OBVIOUS
<1> USE SchedulerAssumption
<1>1. TypeOK
  BY DEF IInv
<1>2. CASE Due
  <2>1. RunBurst
    BY <1>2 DEF Tick
  <2>2. PICK spent \in Durations :
          /\ millis' = After(millis, spent)
          /\ \/ \E more \in BOOLEAN : Succeeded(millis', more)
             \/ \E jitter \in Jitters(OneMore) : Failed(millis', jitter)
    BY <2>1 DEF RunBurst
  <2>3. millis' \in Instants
    <3>1. spent \in Nat /\ millis \in Instants
      BY <1>1, SchedulerAssumption, Zenon DEF TypeOK
    <3> QED BY <2>2, <3>1, AfterIsInstant, Zenon
  <2>4. bursts' \in 0 .. 1
    BY <1>1, <2>1 DEF RunBurst, TypeOK
  <2>5. {wifiWasConnected', wifi', paired', reading'} \subseteq BOOLEAN
    BY <1>1 DEF Tick, environment, TypeOK
  <2>6. ASSUME NEW more \in BOOLEAN, Succeeded(millis', more) PROVE IInv'
    <3>1. nextAttempt' \in Instants /\ lastSuccess' \in Instants
      <4>1. AgainDelay \in 0 .. Wrap \div 2 /\ 0 \in Instants
        BY SchedulerAssumption, Widths, Zenon
      <4>2. After(millis', AgainDelay) \in Instants
        BY <2>3, <4>1, AfterIsAhead, Zenon
      <4> QED BY <2>3, <2>6, <4>1, <4>2, Zenon DEF Succeeded
    <3>2. /\ hold' = 0 /\ failures' = 0 /\ pending' \in BOOLEAN
          /\ 0 \in 0 .. BackoffMax /\ 0 \in 0 .. MaxFailures
      BY <2>6, HalfOf DEF Succeeded
    <3> QED BY <2>3, <2>4, <2>5, <3>1, <3>2 DEF IInv, TypeOK, BackoffScheduled
  <2>7. ASSUME NEW jitter \in Jitters(OneMore), Failed(millis', jitter) PROVE IInv'
    <3>1. /\ failures' \in 0 .. MaxFailures
          /\ nextAttempt' \in Instants
          /\ pending' = TRUE
          /\ hold' \in 0 .. BackoffMax
          /\ Ahead' \in hold' .. Wrap \div 2
          /\ hold' > 0 => nextAttempt' # 0
          /\ lastSuccess' = lastSuccess
      BY <1>1, <2>3, <2>7, FailedSchedules DEF Ahead
    <3>2. TypeOK'
      BY <1>1, <2>3, <2>4, <2>5, <3>1 DEF TypeOK
    <3> QED BY <3>1, <3>2, HalfOf DEF IInv, BackoffScheduled
  <2> QED BY <2>2, <2>6, <2>7
<1>3. CASE ~Due
  <2>1. /\ pending' = Wanted /\ nextAttempt' = Deadline
        /\ hold' = IF Connected THEN 0 ELSE hold
        /\ UNCHANGED <<millis, lastSuccess, failures, bursts>>
        /\ wifiWasConnected' = wifi /\ UNCHANGED environment
    BY <1>3 DEF Tick
  <2>2. Deadline \in Instants
    BY <1>1, AfterIsAhead DEF Deadline, TypeOK
  <2>3. pending' \in BOOLEAN /\ hold' \in 0 .. BackoffMax
    BY <1>1, <2>1, HalfOf DEF Wanted, Connected, PollDue, TypeOK
  <2>4. TypeOK'
    BY <1>1, <2>1, <2>2, <2>3 DEF TypeOK, environment
  <2>5. ASSUME hold' > 0
        PROVE  pending' /\ nextAttempt' # 0 /\ hold' <= Ahead' /\ Ahead' <= Wrap \div 2
    <3>1. ~Connected /\ hold' = hold /\ hold > 0
      BY <2>1, <2>5
    <3>2. pending /\ nextAttempt # 0 /\ hold <= Ahead /\ Ahead <= Wrap \div 2
      BY <3>1 DEF IInv, BackoffScheduled
    <3>3. nextAttempt' = nextAttempt
      BY <2>1, <3>1, <3>2 DEF Deadline, PollDue
    <3> QED BY <2>1, <3>1, <3>2, <3>3 DEF Ahead, Wanted
  <2> QED BY <2>4, <2>5 DEF IInv, BackoffScheduled
<1> QED BY <1>2, <1>3

(* A commit leaves the deadline of a backoff alone. *)
LEMMA NotifyKeeps == IInv /\ NotifyLifecycleCommit => IInv'
<1> SUFFICES ASSUME IInv, NotifyLifecycleCommit PROVE IInv'
  OBVIOUS
<1>1. /\ millis \in Instants /\ nextAttempt \in Instants
      /\ millis' = millis /\ hold' = hold /\ pending' = TRUE
      /\ nextAttempt' = IF nextAttempt = 0 THEN After(millis, NotifyDelay) ELSE nextAttempt
  BY DEF IInv, TypeOK, NotifyLifecycleCommit
<1>2. NotifyDelay \in 0 .. Wrap \div 2
  BY SchedulerAssumption
<1>3. nextAttempt' \in Instants
  BY <1>1, <1>2, AfterIsAhead
<1>4. TypeOK'
  BY <1>1, <1>3 DEF IInv, TypeOK, NotifyLifecycleCommit, environment
<1>5. BackoffScheduled'
  BY <1>1 DEF IInv, BackoffScheduled, Ahead
<1> QED BY <1>4, <1>5 DEF IInv

LEMMA StepIInv == IInv /\ [Next]_vars => IInv'
<1> SUFFICES ASSUME IInv, [Next]_vars PROVE IInv'
  OBVIOUS
<1>1. CASE Environment
  BY <1>1 DEF Environment, IInv, TypeOK, BackoffScheduled, Ahead
<1>2. ASSUME NEW queued \in BOOLEAN, Sleep(queued) PROVE IInv'
  <2>1. {0, 1} \subseteq Instants /\ After(1, NotifyDelay) \in Instants
    BY BootDeadline
  <2>2. ~(0 > 0) /\ 0 \in 0 .. BackoffMax /\ 0 \in 0 .. MaxFailures
    BY SchedulerAssumption, Widths
  <2>3. hold' = 0
    BY <1>2 DEF Sleep, Booted
  <2>4. TypeOK'
    BY <1>2, <2>1, <2>2 DEF Sleep, Booted, IInv, TypeOK
  <2> QED BY <2>2, <2>3, <2>4, Zenon DEF IInv, BackoffScheduled
<1>3. CASE UNCHANGED vars
  BY <1>3 DEF vars, IInv, TypeOK, BackoffScheduled, Ahead
<1> QED BY <1>1, <1>2, <1>3, AdvanceKeeps, NotifyKeeps, TickKeeps DEF Next

(* The invariant the theorems rest on. *)
THEOREM Inductive == Spec => []IInv
<1> QED BY InitIInv, StepIInv, PTL DEF Spec

(* Every value of the scheduler keeps its type, the deadlines and the clock within
   its width, failures at most at its saturation. *)
THEOREM TypeCorrect == Spec => []TypeOK
<1>1. IInv => TypeOK
  BY DEF IInv
<1> QED BY <1>1, Inductive, PTL

(* tick runs no burst before the backoff of the last failure is over, whatever the
   clock's width, wherever it wraps and whatever is committed meanwhile, unless
   Wi-Fi has connected in between. *)
THEOREM NoEarlyRetry == Spec => BackoffHonoured
<1>1. IInv /\ [Next]_vars => [bursts' # bursts => hold = 0]_vars
  <2> SUFFICES ASSUME IInv, [Next]_vars, bursts' # bursts PROVE hold = 0
    OBVIOUS
  <2>1. Tick /\ Due
    BY DEF Next, vars, Advance, Environment, NotifyLifecycleCommit, Tick, Sleep
  <2>2. hold \in Nat
    BY SchedulerAssumption, HalfOf DEF IInv, TypeOK
  <2> QED BY <2>1, <2>2, HeldIsNotDue
<1> QED BY <1>1, Inductive, PTL DEF Spec, BackoffHonoured
=============================================================================
