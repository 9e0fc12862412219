------------------------------- MODULE Outbox -------------------------------
(***************************************************************************)
(* The outbox of DurableQueue between the two that use it: the reading     *)
(* session, which writes the position event (ReadingEvents::               *)
(* persistProgress), and the exchange half of SyncClient::syncStep, which  *)
(* marks events as attempted, posts them and retires what the server       *)
(* answered.                                                               *)
(*                                                                         *)
(* An event is one file named after its identity: NNN.pending while it may *)
(* still be rewritten, NNN.sent from its first attempt on.  A write of     *)
(* either is atomic (AtomicFile), except that a failed remove can leave    *)
(* the backup of a successful write behind, and a failed roll-back can     *)
(* leave only the backup of a failed one.  Writer and exchange run on one  *)
(* task, so they interleave only between their operations; power may be    *)
(* lost, and a request or its answer, between any two storage calls.       *)
(***************************************************************************)
EXTENDS Integers, FiniteSets, Sequences

CONSTANTS
    Bodies,         \* what a position event may say
    None,           \* no file, or no body
    MaxId,          \* bounds the client sequences one run may reserve
    MaxBatch,       \* MAX_BATCH_EVENTS
    ScanLimit,      \* MAX_QUEUE_SCAN
    Faults,         \* the storage calls that may fail with no error returned
    MaxResets       \* bounds the power losses of one run

Ids == 1 .. MaxId

ASSUME OutboxAssumption ==
    /\ None \notin Bodies
    /\ MaxId \in Nat /\ MaxBatch \in Nat \ {0} /\ ScanLimit \in Nat \ {0}
    /\ Faults \subseteq {"remove", "rollback", "read"}
    /\ MaxResets \in Nat

VARIABLES
    pend, sent, bak,    \* NNN.pending, NNN.sent and NNN.pending.bak
    nextId,             \* the durable nextSequence
    pc,                 \* where the main task is
    want,               \* the body persistProgress is to store
    current,            \* progressIdentity, 0 when empty
    batch,              \* syncStep's batch: read before it is marked
    acks,               \* the events of the batch still to retire
    wire,               \* the bodies ever posted, per identity
    server,             \* the body the server decided about, per identity
    newest,             \* the body last put on the card, per identity
    skipped,            \* the events a batch passed over, as they were not read
    resets

writer == <<want, current>>
exchange == <<batch, acks>>
world == <<wire, server>>
vars == <<pend, sent, bak, nextId, pc, want, current, batch, acks, wire,
          server, newest, skipped, resets>>

-----------------------------------------------------------------------------
Init ==
    /\ pend = [i \in Ids |-> None]
    /\ sent = [i \in Ids |-> None]
    /\ bak = [i \in Ids |-> None]
    /\ nextId = 1
    /\ pc = "idle"
    /\ want = None
    /\ current = 0
    /\ batch = <<>>
    /\ acks = {}
    /\ wire = [i \in Ids |-> {}]
    /\ server = [i \in Ids |-> None]
    /\ newest = [i \in Ids |-> None]
    /\ skipped = {}
    /\ resets = 0

-----------------------------------------------------------------------------
(* Faulty variants, not used by any action; they show that the properties at
   the end can fail. *)

(* replaceUnattempted does not look for an attempted file. *)
MayReplaceAnything(i) == pend[i] # None \/ sent[i] # None

(* replaceUnattempted creates the file when it is missing. *)
MayReplaceMissing(i) == sent[i] = None

(* The whole batch is retired, whatever the answer settles. *)
AcksOfWholeBatch(settled) == DOMAIN batch

(* An answer settles nothing once the server knew the event already. *)
AcksOfNothing(settled) == {}

(* The batch is not sorted. *)
OrderedAnyhow(entries, b) == {b[k] : k \in DOMAIN b} \subseteq entries

(* reserveIdentity does not notice that the sequences are exhausted. *)
ReserveBeyondLast ==
    /\ pc = "reserving"
    /\ current' = nextId
    /\ nextId' = nextId + 1
    /\ pc' = "enqueueing"
    /\ UNCHANGED <<pend, sent, bak, want, exchange, world, newest, skipped, resets>>
-----------------------------------------------------------------------------
(* ReadingEvents::persistProgress: reserve an identity when there is none,
   rewrite its event, and when that is refused or fails start a new event
   under a second identity. *)
PersistProgress(b) ==
    /\ pc = "idle"
    /\ want' = b
    /\ IF current # 0
       THEN pc' = "replacing" /\ UNCHANGED <<nextId, current>>
       ELSE \/ /\ nextId <= MaxId
               /\ current' = nextId
               /\ nextId' = nextId + 1
               /\ pc' = "replacing"
            \/ pc' = "idle" /\ UNCHANGED <<nextId, current>>
    /\ UNCHANGED <<pend, sent, bak, exchange, world, newest, skipped, resets>>

MayReplace(i) == sent[i] = None /\ pend[i] # None

(* A write of NNN.pending that takes effect; it begins by recovering, so an old
   backup is gone unless its removal fails again. *)
Stored(i, b) ==
    /\ pend' = [pend EXCEPT ![i] = b]
    /\ newest' = [newest EXCEPT ![i] = b]
    /\ \/ bak' = [bak EXCEPT ![i] = None]
       \/ /\ "remove" \in Faults
          /\ pend[i] # None
          /\ bak' = [bak EXCEPT ![i] = pend[i]]

(* A write that fails: the old file is still there, or its backup only. *)
NotStored(i) ==
    /\ UNCHANGED newest
    /\ \/ UNCHANGED <<pend, bak>>
       \/ /\ "rollback" \in Faults
          /\ pend[i] # None
          /\ bak' = [bak EXCEPT ![i] = pend[i]]
          /\ pend' = [pend EXCEPT ![i] = None]

ReplaceUnattempted ==
    /\ pc = "replacing"
    /\ \/ MayReplace(current) /\ Stored(current, want) /\ pc' = "idle"
       \/ MayReplace(current) /\ NotStored(current) /\ pc' = "reserving"
       \/ ~MayReplace(current) /\ pc' = "reserving" /\ UNCHANGED <<pend, bak, newest>>
    /\ UNCHANGED <<sent, nextId, writer, exchange, world, skipped, resets>>

(* The second reserveIdentity; it has failed when pc falls back to "idle". *)
ReserveReplacement ==
    /\ pc = "reserving"
    /\ \/ /\ nextId <= MaxId
          /\ current' = nextId
          /\ nextId' = nextId + 1
          /\ pc' = "enqueueing"
       \/ pc' = "idle" /\ UNCHANGED <<nextId, current>>
    /\ UNCHANGED <<pend, sent, bak, want, exchange, world, newest, skipped, resets>>

(* enqueue leaves an existing file alone. *)
Enqueue ==
    /\ pc = "enqueueing"
    /\ pc' = "idle"
    /\ \/ pend[current] = None /\ Stored(current, want)
       \/ UNCHANGED <<pend, bak, newest>>
    /\ UNCHANGED <<sent, nextId, writer, exchange, world, skipped, resets>>

(* endBook forgets the identity. *)
EndBook ==
    /\ pc = "idle"
    /\ current # 0
    /\ current' = 0
    /\ UNCHANGED <<pend, sent, bak, nextId, pc, want, exchange, world, newest, skipped, resets>>

-----------------------------------------------------------------------------
Entries ==
    [id : Ids, attempted : {FALSE}, body : Bodies] \cup
    [id : Ids, attempted : {TRUE}, body : Bodies]

OnCard ==
    {e \in Entries : e.body = IF e.attempted THEN sent[e.id] ELSE pend[e.id]}

(* nextBatch sorts what the directory scan returned. *)
Ordered(entries, b) ==
    /\ {b[k] : k \in DOMAIN b} \subseteq entries
    /\ \A k \in DOMAIN b : \A e \in entries :
          e \notin {b[j] : j \in 1 .. k} => e.id >= b[k].id
    /\ \A j, k \in DOMAIN b : j # k => b[j] # b[k]

(* The scan lists every file, or some ScanLimit of them.  An event whose file is
   not read is left out, and newer ones follow; the batch is a prefix of the rest,
   cut by the number of events and by their sizes. *)
NextBatch(b, unread) ==
    \E scan \in SUBSET OnCard :
        /\ \/ scan = OnCard /\ Cardinality(OnCard) <= ScanLimit
           \/ Cardinality(scan) = ScanLimit
        /\ unread \subseteq scan
        /\ unread # {} => "read" \in Faults
        /\ Ordered(scan \ unread, b)

StartExchange(b, unread) ==
    /\ pc = "idle"
    /\ b # <<>>
    /\ NextBatch(b, unread)
    /\ batch' = b
    /\ skipped' = skipped \cup {e.id : e \in {u \in unread : u.id < b[Len(b)].id}}
    /\ pc' = "marking"
    /\ UNCHANGED <<pend, sent, bak, nextId, writer, acks, world, newest, resets>>

Marked(e) == e.attempted \/ sent[e.id] # None

(* markAttempted of the first event of the batch not marked yet: a rename. *)
MarkAttempted(k) ==
    /\ pc = "marking"
    /\ k \in DOMAIN batch
    /\ ~Marked(batch[k])
    /\ \A j \in 1 .. k - 1 : Marked(batch[j])
    /\ pend[batch[k].id] # None
    /\ sent' = [sent EXCEPT ![batch[k].id] = pend[batch[k].id]]
    /\ pend' = [pend EXCEPT ![batch[k].id] = None]
    /\ UNCHANGED <<bak, nextId, pc, writer, exchange, world, newest, skipped, resets>>

(* syncStep returns: the rename failed, the request or its answer was lost or
   refused, the pull part of the answer was refused, or a retirement failed. *)
GiveUp ==
    /\ pc \in {"marking", "posted", "retiring"}
    /\ pc' = "idle"
    /\ batch' = <<>>
    /\ acks' = {}
    /\ UNCHANGED <<pend, sent, bak, nextId, writer, world, newest, skipped, resets>>

Post ==
    /\ pc = "marking"
    /\ \A k \in DOMAIN batch : Marked(batch[k])
    /\ wire' = [i \in Ids |-> wire[i] \cup
                   {batch[k].body : k \in {j \in DOMAIN batch : batch[j].id = i}}]
    /\ pc' = "posted"
    /\ UNCHANGED <<pend, sent, bak, nextId, writer, exchange, server, newest, skipped, resets>>

(* A posted event reaches the server, possibly long after the client gave up
   on the answer; the server decides once, by the first body it gets for an
   identity, whether it accepts or rejects the event (external: the client
   re-posts what was not answered and relies on it; it retires both alike). *)
ServerTakes(i, b) ==
    /\ b \in wire[i]
    /\ server[i] = None
    /\ server' = [server EXCEPT ![i] = b]
    /\ UNCHANGED <<pend, sent, bak, nextId, pc, writer, exchange, wire, newest, skipped, resets>>

(* The events to retire: those of this batch that got a final status. *)
AcksOf(settled) == {k \in DOMAIN batch : batch[k].id \in settled}

(* An answer arrives, and the pull part of it could be applied.  It settles
   some of the events the server decided about; any other status settles nothing. *)
Answer(settled) ==
    /\ pc = "posted"
    /\ settled \subseteq {i \in Ids : server[i] # None}
    /\ acks' = AcksOf(settled)
    /\ pc' = "retiring"
    /\ UNCHANGED <<pend, sent, bak, nextId, writer, batch, world, newest, skipped, resets>>

(* retireAcknowledged removes the .sent file, else the .pending file. *)
RetireAcknowledged(k) ==
    /\ pc = "retiring"
    /\ k \in acks
    /\ acks' = acks \ {k}
    /\ LET i == batch[k].id
       IN  IF sent[i] # None
           THEN sent' = [sent EXCEPT ![i] = None] /\ UNCHANGED pend
           ELSE pend' = [pend EXCEPT ![i] = None] /\ UNCHANGED sent
    /\ UNCHANGED <<bak, nextId, pc, writer, batch, world, newest, skipped, resets>>

FinishExchange ==
    /\ pc = "retiring"
    /\ acks = {}
    /\ pc' = "idle"
    /\ batch' = <<>>
    /\ UNCHANGED <<pend, sent, bak, nextId, writer, acks, world, newest, skipped, resets>>

-----------------------------------------------------------------------------
PowerLoss ==
    /\ pc # "off"
    /\ resets < MaxResets
    /\ resets' = resets + 1
    /\ pc' = "off"
    /\ want' = None
    /\ current' = 0
    /\ batch' = <<>>
    /\ acks' = {}
    /\ UNCHANGED <<pend, sent, bak, nextId, world, newest, skipped>>

(* begin(): recoverAtomic for every backup in the outbox. *)
Boot ==
    /\ pc = "off"
    /\ pc' = "idle"
    /\ pend' = [i \in Ids |-> IF pend[i] = None THEN bak[i] ELSE pend[i]]
    /\ bak' = [i \in Ids |-> None]
    /\ UNCHANGED <<sent, nextId, writer, exchange, world, newest, skipped, resets>>

Batches == UNION {[1 .. n -> OnCard] : n \in 1 .. MaxBatch}

Next ==
    \/ \E b \in Bodies : PersistProgress(b)
    \/ ReplaceUnattempted
    \/ ReserveReplacement
    \/ Enqueue
    \/ EndBook
    \/ \E b \in Batches, unread \in SUBSET OnCard : StartExchange(b, unread)
    \/ \E k \in 1 .. MaxBatch : MarkAttempted(k)
    \/ Post
    \/ \E i \in Ids, b \in Bodies : ServerTakes(i, b)
    \/ \E settled \in SUBSET Ids : Answer(settled)
    \/ \E k \in 1 .. MaxBatch : RetireAcknowledged(k)
    \/ FinishExchange
    \/ GiveUp
    \/ PowerLoss
    \/ Boot

Spec == Init /\ [][Next]_vars

(* What the card and the server do in the end for a client that keeps trying:
   the scheduler starts exchanges, calls of the file system are not refused for
   ever, so that time and again every file is read, and an answer that settles all the events of a batch comes at last. *)
Fairness ==
    /\ WF_vars(Boot)
    /\ SF_vars(\E b \in Batches : StartExchange(b, {}))
    /\ \A k \in 1 .. MaxBatch : SF_vars(MarkAttempted(k))
    /\ SF_vars(Post)
    /\ WF_vars(\E i \in Ids, b \in Bodies : ServerTakes(i, b))
    /\ SF_vars(Answer({i \in Ids : server[i] # None}) /\ acks' # {})
    /\ \A k \in 1 .. MaxBatch : SF_vars(RetireAcknowledged(k))
    /\ WF_vars(ReplaceUnattempted \/ ReserveReplacement \/ Enqueue)
    /\ WF_vars(GiveUp \/ FinishExchange)

FairSpec == Spec /\ Fairness

-----------------------------------------------------------------------------
TypeOK ==
    /\ pend \in [Ids -> Bodies \cup {None}]
    /\ sent \in [Ids -> Bodies \cup {None}]
    /\ bak \in [Ids -> Bodies \cup {None}]
    /\ nextId \in 1 .. MaxId + 1
    /\ pc \in {"off", "idle", "replacing", "reserving", "enqueueing", "marking",
                "posted", "retiring"}
    /\ want \in Bodies \cup {None}
    /\ current \in {0} \cup Ids
    /\ batch \in Seq(Entries)
    /\ acks \subseteq DOMAIN batch
    /\ wire \in [Ids -> SUBSET Bodies]
    /\ server \in [Ids -> Bodies \cup {None}]
    /\ newest \in [Ids -> Bodies \cup {None}]
    /\ skipped \subseteq Ids
    /\ resets \in 0 .. MaxResets

(* An identity never goes over the wire with two different bodies, however
   often it is posted again, rewritten before, or carried over a reset: the
   server may take a repeated identity for a repetition. *)
OneBodyPerIdentity ==
    \A i \in Ids : \A a, b \in wire[i] : a = b

(* The last body written for an identity is on the card until the server has
   accepted or rejected exactly that body: coalescing, crashes, lost answers and late
   retirements lose no position. *)
NothingWrittenIsLost ==
    \A i \in Ids :
        newest[i] # None => newest[i] \in {pend[i], sent[i], server[i]}

(* No event is attempted before an older one of the outbox has been, unless the
   file of the older one could not be read when a batch was put together. *)
AttemptsInOrder ==
    \A i, j \in Ids : i < j /\ pend[i] # None /\ i \notin skipped => sent[j] = None

(* An event that was written and has left the outbox does not come back. *)
RetiredStaysRetired ==
    [][\A i \in Ids :
          newest[i] # None /\ pend[i] = None /\ sent[i] = None
          => pend'[i] = None /\ sent'[i] = None]_vars

(* With removals and roll-backs that fail unnoticed an old body may return, but
   an event still leaves the card only when the server has one of its bodies. *)
NoEventVanishes ==
    \A i \in Ids :
        newest[i] # None =>
            server[i] # None \/ \E f \in {pend, sent, bak} : f[i] # None

(* Every event that was written reaches the server and leaves the outbox. *)
EventuallyDelivered ==
    \A i \in Ids :
        pend[i] # None ~> server[i] # None /\ pend[i] = None /\ sent[i] = None
=============================================================================
