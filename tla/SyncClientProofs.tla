-------------------------- MODULE SyncClientProofs --------------------------
(***************************************************************************)
(* The cursor covers the inbox and uploads follow complete pulls, for any  *)
(* stream, page size, number of resets and sequence of decisions.          *)
(*                                                                         *)
(* The invariant adds what a page under way promises: it reaches from the  *)
(* cursor to the page's own, every event in between is still in the page,  *)
(* in the inbox, done with or skipped, and a page that says it is the last *)
(* one ends at the watermark.                                              *)
(***************************************************************************)
EXTENDS SyncClient, TLAPS

Covered(n) == stream[n] = "ask" => inbox[n] # "none" \/ n \in resolved

PageReachesOn ==
    pc = "deferring" =>
        /\ cursor <= answer.cursor
        /\ \A n \in answer.events : cursor < n /\ n <= answer.cursor
        /\ \A n \in cursor + 1 .. answer.cursor : n \in answer.events \/ Covered(n)

LastPageIsComplete ==
    /\ pc \in {"deferring", "committed"} =>
          answer.hasMore \/ answer.cursor = answer.watermark
    /\ pc = "committed" => cursor = answer.cursor
    /\ pulled # -1 => pulled <= cursor /\ pc # "idle"

IInv ==
    /\ TypeOK
    /\ CursorCoversInbox
    /\ UploadOnlyAfterCompletePull
    /\ PageReachesOn
    /\ LastPageIsComplete

-----------------------------------------------------------------------------
LEMMA InitIInv == Init => IInv
<1> SUFFICES ASSUME Init PROVE IInv
  OBVIOUS
<1> USE SyncClientAssumption DEF Init
<1>1. TypeOK
  BY DEF TypeOK, Marks, Kinds, Sequences, NoAnswer
<1>2. CursorCoversInbox /\ UploadOnlyAfterCompletePull
  BY DEF CursorCoversInbox, UploadOnlyAfterCompletePull
<1>3. PageReachesOn /\ LastPageIsComplete
  BY DEF PageReachesOn, LastPageIsComplete
<1> QED
  BY <1>1, <1>2, <1>3 DEF IInv

(* A longer stream still begins with the events it had. *)
LEMMA PublishKeeps ==
    ASSUME IInv, NEW k \in Kinds, Publish(k)
    PROVE  IInv'
<1>1. /\ UNCHANGED <<inbox, resolved, cursor, outbox, unwritten, uploaded, pc, batch,
                     answer, pulled, resets>>
      /\ stream' = Append(stream, k) /\ Len(stream) < MaxStream
  BY DEF Publish, local
<1>2. /\ stream \in Seq(Kinds) /\ Len(stream) \in Nat
      /\ cursor \in 0 .. Len(stream) /\ answer.cursor \in 0 .. Len(stream)
      /\ answer.watermark \in 0 .. Len(stream)
  BY DEF IInv, TypeOK
<1>3. /\ stream' \in Seq(Kinds) /\ Len(stream') = Len(stream) + 1
      /\ \A n \in 1 .. Len(stream) : stream'[n] = stream[n]
  BY <1>1, <1>2
<1>4. TypeOK'
  BY <1>1, <1>2, <1>3, SyncClientAssumption DEF IInv, TypeOK
<1>5. CursorCoversInbox'
  BY <1>1, <1>2, <1>3 DEF IInv, CursorCoversInbox
<1>6. UploadOnlyAfterCompletePull' /\ LastPageIsComplete'
  BY <1>1 DEF IInv, UploadOnlyAfterCompletePull, LastPageIsComplete
<1>7. PageReachesOn'
  BY <1>1, <1>2, <1>3 DEF IInv, PageReachesOn, Covered
<1> QED
  BY <1>4, <1>5, <1>6, <1>7 DEF IInv

LEMMA DecideKeeps ==
    ASSUME IInv, NEW n \in Sequences, NEW mark \in Marks, Decide(n, mark)
    PROVE  IInv'
<1>1. /\ UNCHANGED <<stream, cursor, outbox, unwritten, uploaded, pc, batch, answer,
                     pulled, resets>>
      /\ pc = "idle"
      /\ inbox' = [inbox EXCEPT ![n] = mark]
      /\ resolved' = IF mark = "none" THEN resolved \cup {n} ELSE resolved
  BY DEF Decide, local
<1>2. TypeOK'
  BY <1>1 DEF IInv, TypeOK
<1>3. CursorCoversInbox'
  BY <1>1 DEF IInv, TypeOK, CursorCoversInbox
<1>4. UploadOnlyAfterCompletePull' /\ PageReachesOn' /\ LastPageIsComplete'
  BY <1>1 DEF IInv, UploadOnlyAfterCompletePull, PageReachesOn, LastPageIsComplete
<1> QED
  BY <1>2, <1>3, <1>4 DEF IInv

(* The steps that leave the stream, the inbox and the cursor alone and end or
   begin a step of syncOnce. *)
LEMMA ReturnKeeps ==
    ASSUME IInv, Return,
           UNCHANGED <<stream, inbox, resolved, cursor, outbox, unwritten>>,
           resets' \in 0 .. MaxResets
    PROVE  IInv'
<1>1. /\ pc' = "idle" /\ batch' = {} /\ pulled' = -1 /\ answer' = NoAnswer
      /\ uploaded' \in {uploaded, uploaded \cup batch}
  BY DEF Return
<1>2. TypeOK'
  BY <1>1 DEF IInv, TypeOK, NoAnswer
<1>3. CursorCoversInbox'
  BY DEF IInv, CursorCoversInbox
<1>4. UploadOnlyAfterCompletePull' /\ PageReachesOn' /\ LastPageIsComplete'
  BY <1>1 DEF UploadOnlyAfterCompletePull, PageReachesOn, LastPageIsComplete
<1> QED
  BY <1>2, <1>3, <1>4 DEF IInv

LEMMA ReceiveKeeps ==
    ASSUME IInv, NEW p \in Pages, Receive(p)
    PROVE  IInv'
<1> DEFINE a == [events |-> PageEvents(p), cursor |-> p.cursor,
                 watermark |-> Len(stream), hasMore |-> p.hasMore]
<1>1. /\ UNCHANGED <<stream, inbox, resolved, cursor, outbox, unwritten, resets>>
      /\ pc = "requested" /\ p.from <= cursor
      /\ \/ /\ ValidatePull(a) /\ answer' = a /\ pc' = "deferring"
            /\ uploaded' = uploaded \cup batch
            /\ UNCHANGED <<batch, pulled>>
         \/ Return
  BY DEF Receive
<1>2. CASE Return
  <2>1. resets' \in 0 .. MaxResets
    BY <1>1 DEF IInv, TypeOK
  <2> QED
    BY <1>1, <1>2, <2>1, ReturnKeeps
<1>3. CASE /\ ValidatePull(a) /\ answer' = a /\ pc' = "deferring"
           /\ uploaded' = uploaded \cup batch
           /\ UNCHANGED <<batch, pulled>>
  <2>1. /\ p.from \in Nat /\ p.cursor \in 0 .. Len(stream) /\ p.hasMore \in BOOLEAN
        /\ Len(stream) \in Nat /\ Len(stream) <= MaxStream /\ cursor \in Nat
    BY DEF IInv, TypeOK, Pages
  <2>2. /\ answer'.cursor = p.cursor /\ answer'.events = p.from + 1 .. p.cursor
        /\ answer'.watermark = Len(stream) /\ answer'.hasMore = p.hasMore
    BY <1>3 DEF PageEvents
  <2>3. /\ cursor <= p.cursor
        /\ p.hasMore \/ p.cursor = Len(stream)
        /\ \A n \in p.from + 1 .. p.cursor : cursor < n /\ n <= p.cursor
    BY <1>3 DEF ValidatePull, PageEvents
  <2>4. p.from + 1 .. p.cursor \subseteq Sequences
    BY <2>1, SyncClientAssumption DEF Sequences
  <2>5. TypeOK'
    BY <1>1, <1>3, <2>1, <2>4 DEF IInv, TypeOK, PageEvents
  <2>6. CursorCoversInbox'
    BY <1>1 DEF IInv, CursorCoversInbox
  <2>7. UploadOnlyAfterCompletePull'
    BY <1>1, <1>3 DEF IInv, UploadOnlyAfterCompletePull
  <2>8. PageReachesOn'
    BY <1>1, <2>1, <2>2, <2>3 DEF PageReachesOn
  <2>9. LastPageIsComplete'
    BY <1>1, <1>3, <2>2, <2>3 DEF IInv, LastPageIsComplete
  <2> QED
    BY <2>5, <2>6, <2>7, <2>8, <2>9 DEF IInv
<1> QED
  BY <1>1, <1>2, <1>3

LEMMA DeferKeeps ==
    ASSUME IInv, NEW n \in Sequences, Defer(n)
    PROVE  IInv'
<1>1. /\ UNCHANGED <<stream, resolved, cursor, outbox, unwritten, uploaded, pc, batch, pulled, resets>>
      /\ pc = "deferring" /\ n \in ToDefer
      /\ \A m \in ToDefer : n <= m
      /\ inbox' = [inbox EXCEPT ![n] = Deferred(n)]
      /\ answer' = [answer EXCEPT !.events = {m \in answer.events : m > n}]
  BY DEF Defer, local
<1>2. Deferred(n) \in Marks /\ Deferred(n) # "none"
  BY DEF IInv, TypeOK, Deferred, Marks
<1>3. /\ answer'.events = {m \in answer.events : m > n}
      /\ answer'.cursor = answer.cursor /\ answer'.watermark = answer.watermark
      /\ answer'.hasMore = answer.hasMore
  BY <1>1 DEF IInv, TypeOK
<1>4. TypeOK'
  BY <1>1, <1>2 DEF IInv, TypeOK
<1>5. \A m \in Sequences : Covered(m) => Covered(m)'
  BY <1>1, <1>2 DEF IInv, TypeOK, Covered
<1>6. \A m \in answer.events : m \in answer'.events \/ Covered(m)'
  <2> SUFFICES ASSUME NEW m \in answer.events, ~(m > n)
               PROVE  Covered(m)'
    BY <1>3
  <2>1. m \in Sequences /\ m \in Nat /\ n \in Nat
    BY DEF IInv, TypeOK, Sequences
  <2>2. CASE stream[m] = "ask"
    <3>1. m = n
      BY <1>1, <2>1, <2>2 DEF ToDefer
    <3> QED
      BY <1>1, <1>2, <3>1 DEF IInv, TypeOK, Covered
  <2>3. CASE stream[m] # "ask"
    BY <1>1, <2>3 DEF Covered
  <2> QED
    BY <2>2, <2>3
<1>7. CursorCoversInbox'
  <2>1. \A m \in 1 .. cursor : m \in Sequences
    BY SyncClientAssumption DEF IInv, TypeOK, Sequences
  <2> QED
    BY <1>1, <1>5, <2>1 DEF IInv, CursorCoversInbox, Covered
<1>8. PageReachesOn'
  <2>1. \A m \in cursor + 1 .. answer.cursor : m \in Sequences
    BY SyncClientAssumption DEF IInv, TypeOK, Sequences
  <2>2. \A m \in cursor + 1 .. answer.cursor : m \in answer'.events \/ Covered(m)'
    BY <1>1, <1>5, <1>6, <2>1 DEF IInv, PageReachesOn
  <2> QED
    BY <1>1, <1>3, <2>2 DEF IInv, PageReachesOn
<1>9. UploadOnlyAfterCompletePull' /\ LastPageIsComplete'
  BY <1>1, <1>3 DEF IInv, UploadOnlyAfterCompletePull, LastPageIsComplete
<1> QED
  BY <1>4, <1>7, <1>8, <1>9 DEF IInv

(* The cursor moves over events that were all taken care of. *)
LEMMA CommitKeeps ==
    ASSUME IInv, Commit
    PROVE  IInv'
<1>1. /\ UNCHANGED <<stream, inbox, resolved, outbox, unwritten, uploaded, batch, answer,
                     pulled, resets>>
      /\ pc = "deferring" /\ pc' = "committed" /\ ToDefer = {}
      /\ cursor' = answer.cursor
  BY DEF Commit, local
<1>2. TypeOK'
  BY <1>1 DEF IInv, TypeOK
<1>3. \A n \in answer.events : Covered(n)
  BY <1>1 DEF ToDefer, Covered
<1>4. CursorCoversInbox'
  <2> SUFFICES ASSUME NEW n \in 1 .. answer.cursor
               PROVE  Covered(n)
    BY <1>1 DEF CursorCoversInbox, Covered
  <2>1. CASE n <= cursor
    BY <2>1 DEF IInv, TypeOK, CursorCoversInbox, Covered
  <2>2. CASE ~(n <= cursor)
    <3>1. n \in cursor + 1 .. answer.cursor
      BY <2>2 DEF IInv, TypeOK
    <3> QED
      BY <1>1, <1>3, <3>1 DEF IInv, PageReachesOn
  <2> QED
    BY <2>1, <2>2
<1>5. UploadOnlyAfterCompletePull' /\ LastPageIsComplete' /\ PageReachesOn'
  BY <1>1 DEF IInv, TypeOK, UploadOnlyAfterCompletePull, LastPageIsComplete, PageReachesOn
<1> QED
  BY <1>2, <1>4, <1>5 DEF IInv

LEMMA FinishPullKeeps ==
    ASSUME IInv, NEW b \in SUBSET LocalEvents, FinishPull(b)
    PROVE  IInv'
<1>1. /\ UNCHANGED <<stream, inbox, resolved, cursor, outbox, unwritten, uploaded, resets>>
      /\ pc = "committed" /\ pulled = -1 /\ batch = {} /\ answer' = NoAnswer
      /\ \/ /\ ~answer.hasMore /\ b \subseteq outbox
            /\ batch' = b /\ pc' = "requested" /\ pulled' = answer.watermark
         \/ pc' = "idle" /\ UNCHANGED <<batch, pulled>>
  BY DEF FinishPull, MayUploadAfterPull, local
<1>2. TypeOK'
  BY <1>1 DEF IInv, TypeOK, NoAnswer
<1>3. CursorCoversInbox'
  BY <1>1 DEF IInv, CursorCoversInbox
<1>4. UploadOnlyAfterCompletePull'
  BY <1>1 DEF IInv, TypeOK, UploadOnlyAfterCompletePull, LastPageIsComplete
<1>5. LastPageIsComplete' /\ PageReachesOn'
  BY <1>1 DEF IInv, TypeOK, LastPageIsComplete, PageReachesOn
<1> QED
  BY <1>2, <1>3, <1>4, <1>5 DEF IInv

LEMMA OtherKeeps ==
    ASSUME IInv,
           \/ \E e \in LocalEvents : Queue(e)
           \/ SyncOnce
           \/ \E settled \in SUBSET LocalEvents : FinishExchange(settled)
           \/ UNCHANGED vars
    PROVE  IInv'
<1>1. UNCHANGED <<stream, inbox, resolved, cursor, resets>>
  BY DEF Queue, SyncOnce, FinishExchange, vars, local
<1>2. TypeOK'
  <2>1. CASE \E e \in LocalEvents : Queue(e)
    <3>1. PICK e \in LocalEvents : Queue(e)
      BY <2>1
    <3>2. /\ unwritten' = unwritten \ {e} /\ outbox' = outbox \cup {e}
          /\ UNCHANGED <<stream, inbox, resolved, cursor, uploaded, pc, batch, answer, pulled, resets>>
      BY <3>1 DEF Queue
    <3>3. batch \subseteq outbox'
      BY <3>2 DEF IInv, TypeOK
    <3> QED
      BY <3>2, <3>3 DEF IInv, TypeOK
  <2>2. CASE SyncOnce
    <3>1. /\ pc' = "requested" /\ batch' = {} /\ pulled' = -1
          /\ UNCHANGED <<stream, inbox, resolved, cursor, outbox, unwritten, uploaded, answer, resets>>
      BY <2>2 DEF SyncOnce, local
    <3> QED
      BY <3>1 DEF IInv, TypeOK
  <2>3. CASE \E settled \in SUBSET LocalEvents : FinishExchange(settled)
    <3>1. /\ pc' = "idle" /\ batch' = {} /\ pulled' = -1 /\ answer' = NoAnswer
          /\ outbox' \subseteq outbox
          /\ UNCHANGED <<stream, inbox, resolved, cursor, unwritten, uploaded, resets>>
      BY <2>3 DEF FinishExchange, Retire
    <3> QED
      BY <3>1 DEF IInv, TypeOK, NoAnswer
  <2>4. CASE UNCHANGED vars
    BY <2>4 DEF vars, local, IInv, TypeOK
  <2> QED
    BY <2>1, <2>2, <2>3, <2>4
<1>3. CursorCoversInbox'
  BY <1>1 DEF IInv, CursorCoversInbox
<1>4. UploadOnlyAfterCompletePull'
  BY <1>1 DEF Queue, SyncOnce, FinishExchange, vars, local, IInv,
              UploadOnlyAfterCompletePull
<1>5. PageReachesOn'
  BY <1>1 DEF Queue, SyncOnce, FinishExchange, vars, local, IInv, PageReachesOn, Covered
<1>6. LastPageIsComplete'
  BY <1>1 DEF Queue, SyncOnce, FinishExchange, vars, local, IInv, LastPageIsComplete
<1> QED
  BY <1>2, <1>3, <1>4, <1>5, <1>6 DEF IInv

(* IInv is inductive. *)
THEOREM Inductive == Spec => []IInv
<1>1. Init => IInv
  BY InitIInv
<1>2. IInv /\ [Next]_vars => IInv'
  <2> SUFFICES ASSUME IInv, [Next]_vars PROVE IInv'
    OBVIOUS
  <2>1. CASE UNCHANGED vars \/ SyncOnce \/ \E e \in LocalEvents : Queue(e)
    BY <2>1, OtherKeeps
  <2>2. CASE \E settled \in SUBSET LocalEvents : FinishExchange(settled)
    BY <2>2, OtherKeeps
  <2>3. CASE \E k \in Kinds : Publish(k)
    BY <2>3, PublishKeeps
  <2>4. CASE \E n \in Sequences, mark \in Marks : Decide(n, mark)
    BY <2>4, DecideKeeps
  <2>5. CASE \E p \in Pages : Receive(p)
    BY <2>5, ReceiveKeeps
  <2>6. CASE \E n \in Sequences : Defer(n)
    BY <2>6, DeferKeeps
  <2>7. CASE Commit
    BY <2>7, CommitKeeps
  <2>8. CASE \E b \in SUBSET LocalEvents : FinishPull(b)
    BY <2>8, FinishPullKeeps
  <2>9. CASE GiveUp \/ PowerLoss
    <3>1. /\ Return /\ UNCHANGED <<stream, inbox, resolved, cursor, outbox, unwritten>>
          /\ resets' \in 0 .. MaxResets
      BY <2>9, SyncClientAssumption DEF GiveUp, PowerLoss, IInv, TypeOK
    <3> QED
      BY <3>1, ReturnKeeps
  <2> QED
    BY <2>1, <2>2, <2>3, <2>4, <2>5, <2>6, <2>7, <2>8, <2>9 DEF Next
<1> QED
  BY <1>1, <1>2, PTL DEF Spec

(* Every variable keeps its type; the batch stays part of the outbox. *)
THEOREM TypeCorrect == Spec => []TypeOK
<1>1. IInv => TypeOK
  BY DEF IInv
<1> QED
  BY <1>1, Inductive, PTL

(* The durable cursor never passes an event that is not taken care of. *)
THEOREM CursorIsCovered == Spec => []CursorCoversInbox
<1>1. IInv => CursorCoversInbox
  BY DEF IInv
<1> QED
  BY <1>1, Inductive, PTL

(* Nothing is uploaded before the whole backlog is on the card. *)
THEOREM PullBeforeUpload == Spec => []UploadOnlyAfterCompletePull
<1>1. IInv => UploadOnlyAfterCompletePull
  BY DEF IInv
<1> QED
  BY <1>1, Inductive, PTL

(* A step writes an inbox file that is missing only for an event beyond the
   cursor, and never puts an event the reader decided about up for review. *)
LEMMA InboxStep ==
    ASSUME IInv, [Next]_vars, NEW n \in Sequences
    PROVE  /\ n <= cursor /\ inbox[n] = "none" => inbox'[n] = "none"
           /\ inbox[n] \in {"accepted", "dismissed"} => inbox'[n] # "json"
<1>1. CASE UNCHANGED inbox
  BY <1>1
<1>2. CASE \E m \in Sequences, mark \in Marks : Decide(m, mark)
  BY <1>2 DEF Decide, IInv, TypeOK
<1>3. CASE \E m \in Sequences : Defer(m)
  <2>1. PICK m \in Sequences : Defer(m)
    BY <1>3
  <2>2. /\ m \in answer.events /\ pc = "deferring"
        /\ inbox' = [inbox EXCEPT ![m] = Deferred(m)]
    BY <2>1 DEF Defer, ToDefer
  <2>3. cursor < m
    BY <2>2 DEF IInv, PageReachesOn
  <2>4. /\ m \in Int /\ n \in Int /\ cursor \in Int
        /\ inbox \in [Sequences -> Marks]
    BY DEF Sequences, IInv, TypeOK
  <2>5. CASE m = n
    BY <2>2, <2>3, <2>4, <2>5 DEF Deferred
  <2>6. CASE m # n
    BY <2>2, <2>4, <2>6
  <2> QED
    BY <2>5, <2>6
<1> QED
  BY <1>1, <1>2, <1>3
     DEF Next, vars, Publish, Queue, SyncOnce, Receive, Commit, FinishPull,
         FinishExchange, GiveUp, PowerLoss

(* What was decided stays decided when the event is pulled again. *)
THEOREM DecisionsSurvive == Spec => DecisionSurvivesReplay
<1>1. IInv /\ [Next]_vars =>
        [\A n \in Sequences :
            inbox[n] \in {"accepted", "dismissed"} => inbox'[n] # "json"]_vars
  BY InboxStep
<1> QED
  BY <1>1, Inductive, PTL DEF Spec, DecisionSurvivesReplay

(* What was done with below the cursor does not come back. *)
THEOREM DoneIsDone == Spec => NothingReturnsBelowTheCursor
<1>1. IInv /\ [Next]_vars =>
        [\A n \in Sequences :
            n <= cursor /\ inbox[n] = "none" => inbox'[n] = "none"]_vars
  BY InboxStep
<1> QED
  BY <1>1, Inductive, PTL DEF Spec, NothingReturnsBelowTheCursor
=============================================================================
