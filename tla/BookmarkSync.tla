---------------------------- MODULE BookmarkSync ----------------------------
(***************************************************************************)
(* BookmarkSync for one book: the bookmark list of the reader and of the   *)
(* list screen above it, its file, the annotation events in the outbox,    *)
(* the annotations pulled into the inbox, and the server between them.     *)
(*                                                                         *)
(* Opening the book or its list, and coming back from the list, loads the  *)
(* file and reconciles: the inbox is applied in memory, bookmarks without  *)
(* a fingerprint are queued, the list is saved, and only then is the inbox *)
(* retired.  Adding and deleting a bookmark queues its event first and     *)
(* saves the list afterwards.  Storage calls fail and power is lost        *)
(* between any two of these steps.                                         *)
(*                                                                         *)
(* Outbox has the life of an event file in detail; here an event is marked *)
(* and retired in a step.  A page is pulled in order, and pulled again when *)
(* its cursor was not committed.  Exchanges run only while no reader is    *)
(* open.                                                                   *)
(***************************************************************************)
EXTENDS Integers, Sequences, FiniteSets, SequencesExt, FiniteSetsExt

CONSTANTS
    Marks,          \* positions in the book, each with its sync id
    Contents,       \* what a bookmark may say
    Plain,          \* what a local one says
    MaxId,          \* bounds the events this device queues
    MaxLog,         \* bounds the events of the server
    MaxApply,       \* MAX_APPLY_PER_OPEN
    Rarities,       \* the rare events that may happen
    MaxRare,        \* bounds how many kinds of them meet in one run
    MaxRareLog      \* bounds the events of the server in such a run

(* A save that leaves no readable file, a load that fails although there is
   one, a scan of the inbox that does not list every file, a directive this
   firmware does not know, an annotation for a bookmark that has no sync id, an
   event the server answers with "rejected", a page pulled again that ends before
   what is left of the first pull. *)
Rare == {"torn", "unreadable", "scan", "strange", "twin", "refused", "gap"}

ASSUME BookmarkAssumption ==
    /\ Plain \in Contents
    /\ MaxId \in Nat /\ MaxLog \in Nat /\ MaxRare \in Nat /\ MaxRareLog \in 0 .. MaxLog
    /\ MaxApply \in Nat \ {0}
    /\ Rarities \subseteq Rare

VARIABLES
    paired,
    card,           \* the bookmark file
    list,           \* the bookmarks in memory
    out,            \* the outbox, in the order of its sequences
    sent,           \* how many of its events were attempted
    nextId,
    inbox,          \* the server sequences pulled and not retired
    cursor,
    log,            \* the server's annotation events
    taken,          \* the events of this device it has decided about
    pc,             \* where the main task is
    todo,           \* the list positions its loop has still to queue
    doomed,         \* the list positions to erase
    changed,        \* reconcile has something to save
    applied,        \* the inbox items it applied and has to retire
    rare            \* the rare events that happened

outbox == <<out, sent, nextId>>
mail == <<inbox, cursor>>
server == <<log, taken>>
loop == <<todo, doomed, changed, applied>>
vars == <<paired, card, list, outbox, mail, server, pc, loop, rare>>

(* stage tells whether a bookmark has a sync id ("named") and a fingerprint
   ("queued"); base is its revision. *)
Bookmarks ==
    [mark : Marks, content : Contents, stage : {"new", "named", "queued"},
     event : 0 .. MaxId, base : 0 .. MaxLog, conflict : BOOLEAN]

(* The events of this device, and what the server tells it. *)
Events ==
    [id : 1 .. MaxId, mark : Marks, kind : {"upserted", "deleted"},
     content : Contents, base : 0 .. MaxLog]

Annotations ==
    [mark : Marks, kind : {"upserted", "deleted", "conflict", "strange"},
     content : Contents, own : BOOLEAN, rev : 0 .. MaxLog]

Init ==
    /\ paired = FALSE
    /\ card = <<>> /\ list = <<>>
    /\ out = <<>> /\ sent = 0 /\ nextId = 1
    /\ inbox = {} /\ cursor = 0
    /\ log = <<>> /\ taken = {}
    /\ pc = "closed"
    /\ todo = {} /\ doomed = {} /\ changed = FALSE /\ applied = {}
    /\ rare = {}

-----------------------------------------------------------------------------
(* Faulty variants, not used by any action; they show that the properties at
   the end can fail. *)

(* The inbox is retired although the list was not saved. *)
ResolveAllTheSame ==
    /\ UNCHANGED applied
    /\ pc' = IF applied = {} THEN "open" ELSE "resolving"

(* A bookmark is erased although its deletion was not queued. *)
EraseAllTheSame(id) == doomed

(* An event that was retired still counts as attempted. *)
RetireUncounted(k) ==
    /\ pc = "closed" /\ paired
    /\ k \in 1 .. sent
    /\ out[k].id \in taken
    /\ out' = RemoveAt(out, k)
    /\ UNCHANGED <<paired, card, list, sent, nextId, mail, server, pc, loop, rare>>

-----------------------------------------------------------------------------
Happen(odd) ==
    /\ odd \subseteq Rarities
    /\ rare' = rare \cup odd
    /\ Cardinality(rare') <= MaxRare
    /\ rare' # {} => Len(log) <= MaxRareLog

(* The server (external): revision-checked updates, and every event comes back
   to this device, marked as its own where it is.  An open reader sees nothing
   of it before the next exchange, so that its steps commute with the reader's
   and are taken only while none is open. *)
Revision(m) ==
    LET changes == {i \in DOMAIN log : log[i].mark = m /\ log[i].kind \in {"upserted", "deleted"}}
    IN  IF changes = {} THEN 0 ELSE Max(changes)

Served(m) ==
    IF Revision(m) # 0 /\ log[Revision(m)].kind = "upserted" THEN {log[Revision(m)].content} ELSE {}

Annotation(m, kind, content, own, rev) ==
    [mark |-> m, kind |-> kind, content |-> content, own |-> own, rev |-> rev]

Publish(annotation) ==
    /\ Len(log) < IF rare = {} THEN MaxLog ELSE MaxRareLog
    /\ log' = Append(log, annotation)

(* Another device changes a bookmark. *)
Remote(m, kind, content) ==
    /\ pc = "closed"
    /\ kind = "deleted" => Served(m) # {}
    /\ \/ kind \in {"upserted", "deleted"} /\ UNCHANGED rare
       \/ kind = "strange" /\ Happen({"strange"})
    /\ Publish(Annotation(m, kind, content, FALSE, Len(log) + 1))
    /\ UNCHANGED <<paired, card, list, outbox, mail, taken, pc, loop>>

(* What e asks for: one content, or none. *)
Wanted(e) == IF e.kind = "upserted" THEN {e.content} ELSE {}

(* A posted event arrives, if need be after the client gave up on the answer.
   A stale revision is a conflict, unless nothing would be overwritten. *)
ServerTakes(k) ==
    /\ pc = "closed"
    /\ k \in 1 .. sent
    /\ out[k].id \notin taken
    /\ \A j \in 1 .. k - 1 : out[j].id \in taken
    /\ taken' = taken \cup {out[k].id}
    /\ LET e == out[k]
           fresh == e.base = Revision(e.mark)
       IN  \/ /\ fresh \/ Served(e.mark) \in {{}, Wanted(e)}
              /\ Publish(Annotation(e.mark, e.kind, e.content, TRUE, Len(log) + 1))
           \/ ~fresh /\ Publish(Annotation(e.mark, "conflict", Plain, TRUE, Revision(e.mark)))
    /\ UNCHANGED <<paired, card, list, outbox, mail, pc, loop, rare>>

(* It may refuse one instead: nothing changes there, and no annotation tells. *)
ServerRefuses(k) ==
    /\ pc = "closed"
    /\ k \in 1 .. sent
    /\ out[k].id \notin taken
    /\ \A j \in 1 .. k - 1 : out[j].id \in taken
    /\ taken' = taken \cup {out[k].id}
    /\ Happen({"refused"})
    /\ UNCHANGED <<paired, card, list, outbox, mail, log, pc, loop>>

-----------------------------------------------------------------------------
(* An exchange, while no reader is open. *)
MarkAttempted(n) ==
    /\ pc = "closed" /\ paired
    /\ n \in sent + 1 .. Len(out)
    /\ sent' = n
    /\ UNCHANGED <<paired, card, list, out, nextId, mail, server, pc, loop, rare>>

(* Answered "accepted" or "rejected". *)
RetireAcknowledged(k) ==
    /\ pc = "closed" /\ paired
    /\ k \in 1 .. sent
    /\ out[k].id \in taken
    /\ out' = RemoveAt(out, k)
    /\ sent' = sent - 1
    /\ UNCHANGED <<paired, card, list, nextId, mail, server, pc, loop, rare>>

(* Items up to n are pulled, and something after n is left in the inbox of an
   earlier pull, but not all that is before it. *)
LeavesGap(n) == \E j \in inbox : \E i \in n + 1 .. j : i \notin inbox

(* The items of a page are deferred, those too that an earlier try deferred and
   that were applied and retired since; then its cursor is committed.  When a
   call fails or power is lost on the way, the cursor stays where it was. *)
DeferPulled(n) ==
    /\ pc = "closed" /\ paired
    /\ n \in cursor + 1 .. Len(log)
    /\ inbox' = inbox \cup (cursor + 1 .. n)
    /\ cursor' \in {cursor, n}
    /\ Happen(IF LeavesGap(n) THEN {"gap"} ELSE {})
    /\ UNCHANGED <<paired, card, list, outbox, server, pc, loop>>

Pair ==
    /\ pc = "closed" /\ ~paired
    /\ paired' = TRUE
    /\ UNCHANGED <<card, list, outbox, mail, server, pc, loop, rare>>

-----------------------------------------------------------------------------
(* replaceUnattempted, or reserveIdentity and enqueue: the event of bookmark b
   is queued under id, or not at all when id is 0. *)
Queues(b, kind, id) ==
    LET content == IF kind = "upserted" THEN b.content ELSE Plain
        event == [id |-> id, mark |-> b.mark, kind |-> kind, content |-> content, base |-> b.base]
    IN  \/ /\ id # 0 /\ id = b.event
           /\ \E k \in sent + 1 .. Len(out) : out[k].id = id /\ out' = [out EXCEPT ![k] = event]
           /\ UNCHANGED <<sent, nextId>>
        \/ /\ id = nextId /\ nextId <= MaxId
           /\ out' = Append(out, event)
           /\ nextId' = nextId + 1
           /\ UNCHANGED sent
        \/ id = 0 /\ UNCHANGED outbox

Named(b) == IF b.stage = "new" THEN [b EXCEPT !.stage = "named"] ELSE b

(* enqueueUpsert *)
Upserted(b, id) ==
    IF id = 0 THEN Named(b)
    ELSE [b EXCEPT !.stage = "queued", !.event = id, !.conflict = FALSE]

(* std::find_if over the sync ids; 0 when there is none. *)
Existing(bookmarks, m) ==
    SelectInSeq(bookmarks, LAMBDA b : b.mark = m /\ b.stage # "new")

(* applyAnnotation of the item q; state is the list and whether it changed. *)
ApplyAnnotation(state, q) ==
    LET item == log[q]
        k == Existing(state.list, item.mark)
        settled == [state.list[k] EXCEPT !.base = item.rev, !.event = 0, !.conflict = item.kind = "conflict"]
        remote == [mark |-> item.mark, content |-> item.content, stage |-> "queued",
                   event |-> 0, base |-> item.rev, conflict |-> FALSE]
        Becomes(bookmarks) == [list |-> bookmarks, changed |-> TRUE]
    IN  CASE k = 0 /\ item.kind \in {"conflict", "deleted"} -> state
          [] k = 0 /\ item.kind = "upserted" -> Becomes(Append(state.list, remote))
          [] k # 0 /\ item.kind = "deleted" -> Becomes(RemoveAt(state.list, k))
          [] k # 0 /\ (item.kind = "conflict" \/ (item.kind = "upserted" /\ item.own)) -> Becomes([state.list EXCEPT ![k] = settled])
          [] OTHER -> Becomes([state.list EXCEPT ![k] = remote])

(* nextAnnotation, again and again: at most MaxApply of the items the scans
   list, in order, up to the first with an unknown directive. *)
ToApply(items) ==
    LET known == {q \in items : \A p \in items : p <= q => log[p].kind # "strange"}
    IN  {q \in known : Cardinality({p \in known : p < q}) < MaxApply}

(* A bookmark without a sync id is not found: what is said of it meets nothing,
   or adds a second one. *)
Unfound(bookmarks, items) ==
    \E k \in DOMAIN bookmarks, q \in items :
        bookmarks[k].stage = "new" /\ bookmarks[k].mark = log[q].mark

(* The items are applied in the order of the server's sequences; at[q] is the
   state after those up to q. *)
Replay(bookmarks, items) ==
    LET at[q \in 0 .. Len(log)] ==
            IF q = 0 THEN [list |-> bookmarks, changed |-> FALSE]
            ELSE IF q \in items THEN ApplyAnnotation(at[q - 1], q)
            ELSE at[q - 1]
    IN  at[Len(log)]

(* What comes next: queueing, saving what changed, retiring what was applied. *)
Queued ==
    pc' = IF todo' # {} THEN "queueing"
          ELSE IF changed' THEN "saving"
          ELSE IF applied' # {} THEN "resolving" ELSE "open"

(* The reader opens the book, or its list, or comes back from there: the file
   is loaded and the inbox applied in memory. *)
Load ==
    /\ pc \in {"closed", "open"}
    /\ \E loaded \in {card, <<>>}, items \in SUBSET inbox :
          LET result == Replay(loaded, ToApply(items))
              odd == {r \in Rare : \/ (r = "unreadable" /\ loaded # card)
                                  \/ (r = "scan" /\ items # inbox)
                                  \/ (r = "twin" /\ Unfound(loaded, ToApply(items)))}
          IN  /\ Happen(odd)
              /\ applied' = ToApply(items)
              /\ list' = IF paired THEN [k \in DOMAIN result.list |-> Named(result.list[k])]
                         ELSE result.list
              /\ changed' = (result.changed \/ list' # result.list)
    /\ todo' = IF paired THEN {k \in DOMAIN list' : list'[k].stage # "queued"} ELSE {}
    /\ Queued
    /\ UNCHANGED <<paired, card, outbox, mail, server, doomed>>

(* The queue cannot be opened: reconcile does nothing. *)
LoadOnly ==
    /\ pc \in {"closed", "open"}
    /\ list' = card
    /\ pc' = "open"
    /\ UNCHANGED <<paired, card, outbox, mail, server, loop, rare>>

EnqueueUpsert(k) ==
    /\ pc = "queueing"
    /\ k \in todo /\ \A j \in todo : k <= j
    /\ todo' = todo \ {k}
    /\ \E id \in 0 .. MaxId :
          /\ Queues(list[k], "upserted", id)
          /\ list' = [list EXCEPT ![k] = Upserted(list[k], id)]
          /\ changed' = (changed \/ id # 0)
    /\ UNCHANGED <<paired, card, mail, server, doomed, applied, rare>>
    /\ Queued

(* What follows a failed save. *)
AfterFailure ==
    /\ pc' = "open"
    /\ applied' = {}

(* BookmarkFile::save removes the file and writes it anew. *)
Save ==
    /\ pc = "saving"
    /\ changed' = FALSE
    /\ \/ card' = list /\ UNCHANGED <<applied, rare>> /\ pc' = IF applied = {} THEN "open" ELSE "resolving"
       \/ UNCHANGED <<card, rare>> /\ AfterFailure
       \/ card' = <<>> /\ Happen({"torn"}) /\ AfterFailure
    /\ UNCHANGED <<paired, list, outbox, mail, server, todo, doomed>>

(* resolveInbox, in order, until one fails. *)
ResolveInbox ==
    /\ pc = "resolving"
    /\ \/ inbox' = inbox \ {Min(applied)} /\ applied' = applied \ {Min(applied)}
       \/ UNCHANGED inbox /\ applied' = {}
    /\ pc' = IF applied' = {} THEN "open" ELSE "resolving"
    /\ UNCHANGED <<paired, card, list, outbox, cursor, server, todo, doomed, changed, rare>>

Close ==
    /\ pc = "open"
    /\ pc' = "closed"
    /\ list' = <<>>
    /\ UNCHANGED <<paired, card, outbox, mail, server, loop, rare>>

-----------------------------------------------------------------------------
Matching(m) == {k \in DOMAIN list : list[k].mark = m}

(* addBookmark where there is none: enqueueLocalUpsert leaves the bookmark new
   when the device is not paired or the queue cannot be opened, and its failure
   does not stop the save. *)
AddBookmark(m) ==
    /\ pc = "open"
    /\ Matching(m) = {}
    /\ LET fresh == [mark |-> m, content |-> Plain, stage |-> "new", event |-> 0, base |-> 0, conflict |-> FALSE]
       IN  \/ list' = <<fresh>> \o list /\ UNCHANGED outbox
           \/ /\ paired
              /\ \E id \in 0 .. MaxId :
                    /\ Queues(fresh, "upserted", id)
                    /\ list' = <<Upserted(fresh, id)>> \o list
    /\ pc' = "saving"
    /\ UNCHANGED <<paired, card, mail, server, loop, rare>>

(* addBookmark where there are some erases them all, the list screen one. *)
DeleteBookmarks(ks) ==
    /\ pc = "open"
    /\ \E m \in Marks : ks = Matching(m) \/ \E k \in Matching(m) : ks = {k}
    /\ ks # {}
    /\ todo' = ks /\ doomed' = ks
    /\ pc' = "deleting"
    /\ UNCHANGED <<paired, card, list, outbox, mail, server, changed, applied, rare>>

(* What is erased after the deletion was queued under id. *)
StillToErase(id) == IF id = 0 THEN {} ELSE doomed

Without(ks) ==
    LET kept[k \in 0 .. Len(list)] ==
            IF k = 0 THEN <<>>
            ELSE IF k \in ks THEN kept[k - 1]
            ELSE Append(kept[k - 1], list[k])
    IN  kept[Len(list)]

(* enqueueLocalDelete; when one fails all of them stay. *)
EnqueueDelete(k) ==
    /\ pc = "deleting"
    /\ k \in todo /\ \A j \in todo : k <= j
    /\ todo' = todo \ {k}
    /\ \E erase \in {{}, doomed} :
          /\ IF ~paired \/ list[k].stage = "new"
             THEN erase = doomed /\ UNCHANGED outbox
             ELSE \E id \in 0 .. MaxId : Queues(list[k], "deleted", id) /\ erase = StillToErase(id)
          /\ IF todo' # {}
             THEN doomed' = erase /\ UNCHANGED <<list, pc>>
             ELSE /\ doomed' = {}
                  /\ list' = Without(erase)
                  /\ pc' = IF erase = {} THEN "open" ELSE "saving"
    /\ UNCHANGED <<paired, card, mail, server, changed, applied, rare>>

-----------------------------------------------------------------------------
(* Power is lost; during a save, with or without the new file. *)
PowerLoss ==
    /\ pc # "closed"
    /\ \/ UNCHANGED <<card, rare>>
       \/ pc = "saving" /\ card' = <<>> /\ Happen({"torn"})
    /\ pc' = "closed"
    /\ list' = <<>>
    /\ todo' = {} /\ doomed' = {} /\ changed' = FALSE /\ applied' = {}
    /\ UNCHANGED <<paired, outbox, mail, server>>

Next ==
    \/ \E m \in Marks, c \in Contents : Remote(m, "upserted", c)
    \/ \E m \in Marks : Remote(m, "deleted", Plain) \/ Remote(m, "strange", Plain)
    \/ \E k \in 1 .. MaxId : ServerTakes(k) \/ ServerRefuses(k) \/ MarkAttempted(k) \/ RetireAcknowledged(k)
    \/ \E n \in 1 .. MaxLog : DeferPulled(n)
    \/ Pair
    \/ Load
    \/ LoadOnly
    \/ \E k \in DOMAIN list : EnqueueUpsert(k)
    \/ Save
    \/ ResolveInbox
    \/ Close
    \/ \E m \in Marks : AddBookmark(m)
    \/ \E ks \in SUBSET DOMAIN list : DeleteBookmarks(ks)
    \/ \E k \in DOMAIN list : EnqueueDelete(k)
    \/ PowerLoss

Spec == Init /\ [][Next]_vars

-----------------------------------------------------------------------------
TypeOK ==
    /\ paired \in BOOLEAN
    /\ {card, list} \subseteq Seq(Bookmarks)
    /\ out \in Seq(Events)
    /\ sent \in 0 .. Len(out)
    /\ nextId \in 1 .. MaxId + 1
    /\ log \in Seq(Annotations) /\ Len(log) <= MaxLog
    /\ inbox \subseteq 1 .. Len(log) /\ applied \subseteq 1 .. Len(log)
    /\ cursor \in 0 .. Len(log)
    /\ taken \subseteq 1 .. MaxId
    /\ pc \in {"closed", "open", "queueing", "saving", "resolving", "deleting"}
    /\ todo \subseteq DOMAIN list /\ doomed \subseteq DOMAIN list
    /\ changed \in BOOLEAN
    /\ rare \subseteq Rarities

Shown(bookmarks, m) ==
    {bookmarks[k].content : k \in {j \in DOMAIN bookmarks : bookmarks[j].mark = m}}

(* An annotation leaves the inbox only when the bookmark file says what it
   said: whatever failed, applying what is about to be retired to the file once
   more would change nothing in it.  (Not so when the file could not be read and
   the inbox met an empty list, or met a bookmark without a sync id.) *)
RetiredIsSaved ==
    [][~(inbox \subseteq inbox') /\ rare \cap {"unreadable", "twin"} = {} =>
          \A m \in Marks : Shown(Replay(card, applied).list, m) = Shown(card, m)]_vars

Flagged(m) == \E k \in DOMAIN card : card[k].mark = m /\ card[k].conflict

Settled ==
    /\ paired /\ pc = "closed"
    /\ out = <<>> /\ inbox = {} /\ cursor = Len(log)
    /\ \A k \in DOMAIN card : card[k].stage = "queued"

(* Once everything is queued, delivered, pulled and applied, the device shows
   what the server has, or shows a conflict: no add, deletion or remote change
   is forgotten by a failed save, a reset between two steps, an answer that was
   lost, a page that is pulled again, or changes of two devices that cross.  (Not
   so when something of Rare happened: what the server rejected, say, is on the
   device alone, and nothing tells of it.) *)
SettledMeansSame ==
    Settled /\ rare = {} => \A m \in Marks : Flagged(m) \/ Shown(card, m) = Served(m)
=============================================================================
