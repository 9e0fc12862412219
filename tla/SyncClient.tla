----------------------------- MODULE SyncClient -----------------------------
(***************************************************************************)
(* SyncClient::syncOnce against the event stream of the server: a pull of  *)
(* one page, and only when that page was the last one and is on the card,  *)
(* an exchange that uploads a batch of the outbox and pulls again.         *)
(*                                                                         *)
(* The stream is a growing sequence of events, some of which the reader    *)
(* has to be asked about; those are put in the inbox, one file each, then  *)
(* the applied cursor moves (Checkpoint: one atomic, durable save).  The   *)
(* inbox files, the outbox (a set here; Outbox has its files) and the      *)
(* cursor survive a reset.  sync runs on the main task, so the reader      *)
(* decides about an event only between two calls; power, a request or its  *)
(* answer may be lost at any step, and an answer may be inconsistent.      *)
(***************************************************************************)
EXTENDS Integers, Sequences, FiniteSets

CONSTANTS
    MaxStream,      \* bounds the events other devices publish
    LocalEvents,    \* the events this device puts in its outbox
    PageSize,       \* PULL_LIMIT
    MaxBatch,       \* MAX_BATCH_EVENTS
    MaxResets       \* bounds the power losses of one run

ASSUME SyncClientAssumption ==
    /\ MaxStream \in Nat /\ PageSize \in Nat \ {0} /\ MaxBatch \in Nat \ {0}
    /\ MaxResets \in Nat

Sequences == 1 .. MaxStream
Kinds == {"ask", "skip"}
Marks == {"none", "json", "accepted", "dismissed"}

VARIABLES
    stream,     \* the server's event log: whether shouldDefer holds of each
    inbox,      \* the file that holds an event, by its extension
    resolved,   \* the events whose files were removed again
    cursor,     \* the durable appliedCursor
    outbox,     \* the events in the outbox
    unwritten,  \* the local events to come
    uploaded,   \* the events the server has
    pc,         \* where the main task is
    batch,      \* what this step uploads, empty for a pull
    answer,     \* the page under way
    pulled,     \* the high watermark this syncOnce has pulled up to, or -1
    resets

local == <<outbox, unwritten, uploaded>>
vars == <<stream, inbox, resolved, cursor, outbox, unwritten, uploaded, pc,
          batch, answer, pulled, resets>>

NoAnswer == [events |-> {}, cursor |-> 0, watermark |-> 0, hasMore |-> FALSE]

Init ==
    /\ stream = <<>>
    /\ inbox = [n \in Sequences |-> "none"]
    /\ resolved = {}
    /\ cursor = 0
    /\ outbox = {}
    /\ unwritten = LocalEvents
    /\ uploaded = {}
    /\ pc = "idle"
    /\ batch = {}
    /\ answer = NoAnswer
    /\ pulled = -1
    /\ resets = 0

-----------------------------------------------------------------------------
(* Faulty variants, not used by any action; they show that the properties at
   the end can fail. *)

(* has_more is not compared with the cursors. *)
ValidatePullTrusting(a) ==
    /\ a.cursor >= cursor /\ a.watermark >= a.cursor
    /\ \A n \in a.events : cursor < n /\ n <= a.cursor

(* Events at or below the cursor are let through. *)
ValidatePullUnordered(a) ==
    /\ a.cursor >= cursor /\ a.watermark >= a.cursor
    /\ IF a.hasMore THEN a.cursor \notin {a.watermark, cursor}
                    ELSE a.cursor = a.watermark
    /\ \A n \in a.events : n <= a.cursor

(* deferPulled writes the file unless it exists as it is. *)
DeferredOver(n) == "json"

(* The page is committed although an event of it was not deferred. *)
CommitEarly ==
    /\ pc = "deferring"
    /\ cursor' = answer.cursor
    /\ pc' = "committed"
    /\ UNCHANGED <<stream, inbox, resolved, local, batch, answer, pulled, resets>>

(* The answer of an exchange retires nothing. *)
RetireNothing(settled) == outbox
-----------------------------------------------------------------------------
(* Another device publishes an event (external). *)
Publish(k) ==
    /\ Len(stream) < MaxStream
    /\ stream' = Append(stream, k)
    /\ UNCHANGED <<inbox, resolved, cursor, local, pc, batch, answer, pulled, resets>>

(* A local event is queued, between two syncs. *)
Queue(e) ==
    /\ pc = "idle"
    /\ e \in unwritten
    /\ unwritten' = unwritten \ {e}
    /\ outbox' = outbox \cup {e}
    /\ UNCHANGED <<stream, inbox, resolved, cursor, uploaded, pc, batch, answer, pulled, resets>>

(* The reader accepts or declines an event, or it is done with and its file is
   removed. *)
Decide(n, mark) ==
    /\ pc = "idle"
    /\ inbox[n] # "none"
    /\ mark # inbox[n] /\ mark # "json"
    /\ inbox' = [inbox EXCEPT ![n] = mark]
    /\ resolved' = IF mark = "none" THEN resolved \cup {n} ELSE resolved
    /\ UNCHANGED <<stream, cursor, local, pc, batch, answer, pulled, resets>>

-----------------------------------------------------------------------------
(* syncOnce begins: the pull request goes out. *)
SyncOnce ==
    /\ pc = "idle"
    /\ pc' = "requested"
    /\ batch' = {}
    /\ pulled' = -1
    /\ UNCHANGED <<stream, inbox, resolved, cursor, local, answer, resets>>

(* validatePull; the loop of syncStep repeats the test of the sequences. *)
ValidatePull(a) ==
    /\ a.cursor >= cursor
    /\ a.watermark >= a.cursor
    /\ IF a.hasMore THEN a.cursor \notin {a.watermark, cursor}
                    ELSE a.cursor = a.watermark
    /\ \A n \in a.events : cursor < n /\ n <= a.cursor

(* syncOnce returns early.  What it posted may have reached the server. *)
Return ==
    /\ pc' = "idle"
    /\ batch' = {}
    /\ answer' = NoAnswer
    /\ pulled' = -1
    /\ uploaded' \in {uploaded, uploaded \cup batch}

(* The pages a server may send: the events from some cursor to another, and a
   flag that may be wrong (external: ValidatePull has to cope with it). *)
Pages ==
    [from : 0 .. Len(stream), cursor : 0 .. Len(stream), hasMore : BOOLEAN]

PageEvents(p) == p.from + 1 .. p.cursor

(* An answer arrives; one that is not valid ends syncOnce.  The server has
   taken the batch when it answers, and may have when it does not. *)
Receive(p) ==
    /\ pc = "requested"
    /\ p.from <= cursor /\ p.cursor - cursor <= PageSize
    /\ LET a == [events |-> PageEvents(p), cursor |-> p.cursor,
                 watermark |-> Len(stream), hasMore |-> p.hasMore]
       IN  IF ValidatePull(a)
           THEN /\ answer' = a
                /\ pc' = "deferring"
                /\ uploaded' = uploaded \cup batch
                /\ UNCHANGED <<batch, pulled>>
           ELSE Return
    /\ UNCHANGED <<stream, inbox, resolved, cursor, outbox, unwritten, resets>>

(* The events of the page that are neither skipped nor deferred yet. *)
ToDefer == {n \in answer.events : stream[n] = "ask"}

(* deferPulled leaves a file alone, whatever was decided about it. *)
Deferred(n) == IF inbox[n] = "none" THEN "json" ELSE inbox[n]

Defer(n) ==
    /\ pc = "deferring"
    /\ n \in ToDefer
    /\ \A m \in ToDefer : n <= m
    /\ inbox' = [inbox EXCEPT ![n] = Deferred(n)]
    /\ answer' = [answer EXCEPT !.events = {m \in @ : m > n}]
    /\ UNCHANGED <<stream, resolved, cursor, local, pc, batch, pulled, resets>>

Commit ==
    /\ pc = "deferring"
    /\ ToDefer = {}
    /\ cursor' = answer.cursor
    /\ pc' = "committed"
    /\ UNCHANGED <<stream, inbox, resolved, local, batch, answer, pulled, resets>>

MayUploadAfterPull(ok, hasMore) == ok /\ ~hasMore

(* The first step is over.  Its caller goes on to an exchange of a batch read
   from the outbox now, or returns; the batch may be empty although the outbox
   is not, when no event can be read. *)
FinishPull(b) ==
    /\ pc = "committed"
    /\ pulled = -1
    /\ batch = {}
    /\ IF MayUploadAfterPull(TRUE, answer.hasMore) /\ outbox # {}
       THEN /\ b \subseteq outbox /\ Cardinality(b) <= MaxBatch
            /\ batch' = b
            /\ pc' = "requested"
            /\ pulled' = answer.watermark
       ELSE pc' = "idle" /\ b = {} /\ UNCHANGED <<batch, pulled>>
    /\ answer' = NoAnswer
    /\ UNCHANGED <<stream, inbox, resolved, cursor, local, resets>>

(* The events the acknowledgements settle are retired; a failure to remove one
   of their files leaves the rest of them for the next exchange. *)
Retire(settled) == outbox \ settled

FinishExchange(settled) ==
    /\ pc = "committed"
    /\ pulled # -1
    /\ settled \subseteq batch \cap uploaded
    /\ outbox' = Retire(settled)
    /\ pc' = "idle"
    /\ batch' = {}
    /\ answer' = NoAnswer
    /\ pulled' = -1
    /\ UNCHANGED <<stream, inbox, resolved, cursor, unwritten, uploaded, resets>>

(* No answer, a refusal, or a write that failed: syncStep returns an error. *)
GiveUp ==
    /\ pc \in {"requested", "deferring"}
    /\ Return
    /\ UNCHANGED <<stream, inbox, resolved, cursor, outbox, unwritten, resets>>

PowerLoss ==
    /\ pc # "idle"
    /\ resets < MaxResets
    /\ resets' = resets + 1
    /\ Return
    /\ UNCHANGED <<stream, inbox, resolved, cursor, outbox, unwritten>>

Next ==
    \/ \E k \in Kinds : Publish(k)
    \/ \E e \in LocalEvents : Queue(e)
    \/ \E n \in Sequences, mark \in Marks : Decide(n, mark)
    \/ SyncOnce
    \/ \E p \in Pages : Receive(p)
    \/ \E n \in Sequences : Defer(n)
    \/ Commit
    \/ \E b \in SUBSET LocalEvents : FinishPull(b)
    \/ \E settled \in SUBSET LocalEvents : FinishExchange(settled)
    \/ GiveUp
    \/ PowerLoss

Spec == Init /\ [][Next]_vars

(* The page of a correct server. *)
HonestPage ==
    LET last == IF Len(stream) - cursor > PageSize THEN cursor + PageSize ELSE Len(stream)
    IN  [from |-> cursor, cursor |-> last, hasMore |-> last < Len(stream)]

(* The scheduler calls syncOnce again and again, and neither the pull nor the
   exchange fails at the same place for ever. *)
Fairness ==
    /\ WF_vars(SyncOnce)
    /\ \A exchanging \in BOOLEAN :
          /\ SF_vars((batch # {}) = exchanging /\ Receive(HonestPage))
          /\ \A n \in Sequences : SF_vars((batch # {}) = exchanging /\ Defer(n))
          /\ SF_vars((batch # {}) = exchanging /\ Commit)
    /\ SF_vars(\E b \in SUBSET LocalEvents \ {{}} : FinishPull(b))
    /\ WF_vars(\E b \in SUBSET LocalEvents : FinishPull(b))
    /\ SF_vars(batch # {} /\ FinishExchange(batch))
    /\ WF_vars(FinishExchange({}))

FairSpec == Spec /\ Fairness

-----------------------------------------------------------------------------
TypeOK ==
    /\ stream \in Seq(Kinds) /\ Len(stream) <= MaxStream
    /\ inbox \in [Sequences -> Marks]
    /\ resolved \subseteq Sequences
    /\ cursor \in 0 .. Len(stream)
    /\ outbox \subseteq LocalEvents
    /\ unwritten \subseteq LocalEvents
    /\ uploaded \subseteq LocalEvents
    /\ pc \in {"idle", "requested", "deferring", "committed"}
    /\ batch \subseteq outbox
    /\ answer \in [events : SUBSET Sequences, cursor : 0 .. Len(stream),
                   watermark : 0 .. Len(stream), hasMore : BOOLEAN]
    /\ pulled \in -1 .. Len(stream)
    /\ resets \in 0 .. MaxResets

(* The cursor never passes an event the reader has to be asked about unless
   that event is in the inbox or was done with: not across lost answers, failed
   writes, resets and pages. *)
CursorCoversInbox ==
    \A n \in 1 .. cursor :
        stream[n] = "ask" => inbox[n] # "none" \/ n \in resolved

(* Local positions are exposed only when everything the server had at the time
   of the preceding pull is on the card: "A failed/truncated pull or more pages
   must never fall through to an upload." *)
UploadOnlyAfterCompletePull ==
    batch # {} => pc # "idle" /\ pulled # -1 /\ pulled <= cursor

(* An event pulled once more, after a reset or a failed save of the cursor,
   does not undo the reader's decision about it. *)
DecisionSurvivesReplay ==
    [][\A n \in Sequences :
          inbox[n] \in {"accepted", "dismissed"} => inbox'[n] # "json"]_vars

(* An event whose file was removed comes back only while the cursor has not
   passed it. *)
NothingReturnsBelowTheCursor ==
    [][\A n \in Sequences :
          n <= cursor /\ inbox[n] = "none" => inbox'[n] = "none"]_vars

(* The reader catches up with the stream and the outbox drains. *)
CatchesUp == <>[](cursor = Len(stream) /\ outbox = {})
=============================================================================
