--------------------------- MODULE ProgressInbox ---------------------------
(***************************************************************************)
(* The reader's consent to positions of other devices, for one book: the   *)
(* progress files of the inbox, the record of a manual recovery request,   *)
(* the reader that asks, applies and resolves (EpubReaderActivity), and    *)
(* the settings screen that asks for all books (BorgesSyncActivity).       *)
(*                                                                         *)
(* A stream event NNN is one file whose extension is the decision; the     *)
(* manual record is one file whose content is, rewritten atomically        *)
(* (AtomicFile).  A rename, a removal or a rewrite is one step, may fail,  *)
(* and power may be lost between any two.  A scan of the inbox lists at    *)
(* most MAX_QUEUE_SCAN files, so it may not list a file, and the record may *)
(* be unreadable when it is read, which then counts as no record.          *)
(***************************************************************************)
EXTENDS Integers, FiniteSets

CONSTANTS
    MaxStream,          \* bounds the stream events about the book
    MaxRequests,        \* bounds the manual requests
    StorageFails,       \* whether a storage call may fail
    Rarities            \* which of the rare things below may happen

Stream == 1 .. MaxStream
Requests == 1 .. MaxRequests
Marks == {"none", "json", "accepted", "dismissed"}
Decisions == {"none", "pending", "accepted", "dismissed", "resolved", "superseded"}

(* An event pulled again, a scan that does not list every file, a record that
   is there and cannot be read, and the use of the settings screen. *)
Rare == {"replay", "scan", "unread", "review"}

ASSUME InboxAssumption ==
    /\ MaxStream \in Nat /\ MaxRequests \in Nat
    /\ StorageFails \in BOOLEAN
    /\ Rarities \subseteq Rare

Items == [manual : BOOLEAN, id : Nat, dismissed : BOOLEAN]
NoItem == [manual |-> FALSE, id |-> 0, dismissed |-> FALSE]
StreamItem(n, dismissed) == [manual |-> FALSE, id |-> n, dismissed |-> dismissed]
Identity(item) == <<item.manual, item.id>>

VARIABLES
    file,       \* the extension of the file of each stream event
    manual,     \* recovery_<book>.json: request, decision, stream sequence
    cursor,     \* the durable pull cursor
    place,      \* "home", "opening" or "reading"
    step,       \* what is left of an operation of several storage calls
    item,       \* the item the operation is about
    todo,       \* the events it has still to remove
    ok,         \* what it will return
    asked,      \* remoteDecisionChecked
    offered,    \* the item a prompt shows
    applying,   \* pendingAppliedRemote: applied, not resolved yet
    consent,    \* items the reader accepted, not done with nor superseded
    granted,    \* the last one whose acceptance was reported, with later ones
                \* accepted before; one of them has to be applicable
    taken,      \* the stream events ever accepted
    rare        \* the rare things that have happened

files == <<file, manual, cursor>>
ghosts == <<consent, granted, taken>>
vars == <<file, manual, cursor, place, step, item, todo, ok, asked, offered,
          applying, consent, granted, taken, rare>>

NoRequest == [req |-> 0, decision |-> "none", stream |-> 0]

Init ==
    /\ file = [n \in Stream |-> "none"]
    /\ manual = NoRequest
    /\ cursor = 0
    /\ place = "home"
    /\ step = "none"
    /\ item = NoItem
    /\ todo = {}
    /\ ok = TRUE
    /\ asked = FALSE
    /\ offered = NoItem
    /\ applying = NoItem
    /\ consent = {}
    /\ granted = {}
    /\ taken = {}
    /\ rare = {}

Max0(S) == IF S = {} THEN 0 ELSE CHOOSE n \in S : \A m \in S : m <= n
-----------------------------------------------------------------------------
(* Faulty variants, not used by any action; they show that the properties at
   the end can fail. *)

(* A manual record that is not accepted does not hide older consent. *)
NextApplicableNewest(scan, record) ==
    LET newest == Max0({n \in scan : file[n] = "accepted"})
    IN  IF record.decision = "accepted"
        THEN [manual |-> TRUE, id |-> record.req, dismissed |-> FALSE]
        ELSE IF newest = 0 THEN NoItem ELSE StreamItem(newest, FALSE)

(* The event itself is taken for an older one. *)
OlderOrSame(n, scan) == {m \in scan : m <= n /\ file[m] # "none"}

(* Every other event of the book is taken for an older one. *)
AllOthers(n, scan) == {m \in scan : m # n /\ file[m] # "none"}

(* The item stays behind when the removals are over. *)
FinishResolveDirty ==
    /\ step = "sweeping" /\ todo = {}
    /\ step' = "none"
    /\ ok' = TRUE
    /\ UNCHANGED <<files, place, item, todo, asked, offered, applying, ghosts, rare>>
-----------------------------------------------------------------------------
(* nextApplicableProgress: the record that was read decides alone; without one,
   the newest accepted event does.  shouldAutoApply is false for every directive. *)
NextApplicable(scan, record) ==
    LET newest == Max0({n \in scan : file[n] = "accepted"})
        chosen == record.stream
    IN  IF record = NoRequest
        THEN IF newest = 0 THEN NoItem ELSE StreamItem(newest, FALSE)
        ELSE IF record.decision = "accepted"
        THEN [manual |-> TRUE, id |-> record.req, dismissed |-> FALSE]
        ELSE IF chosen # 0 /\ file[chosen] # "none"
        THEN StreamItem(chosen, file[chosen] = "dismissed")
        ELSE NoItem

ManualItem ==
    [manual |-> TRUE, id |-> manual.req, dismissed |-> manual.decision # "pending"]

Reviewable(scan, dismissed) ==
    {n \in scan : file[n] = "json" \/ (dismissed /\ file[n] = "dismissed")}

Newest(S) ==
    IF S = {} THEN NoItem ELSE StreamItem(Max0(S), file[Max0(S)] = "dismissed")

(* nextProgressDecision of the open book. *)
NextDecision(scan, record) ==
    IF record.decision = "accepted" THEN NoItem
    ELSE IF record.decision = "pending" THEN ManualItem
    ELSE Newest(Reviewable(scan, FALSE) \ {record.stream})

(* nextProgressDecision of any book, declined ones included: a manual record
   that the scan lists comes first, unless it is accepted. *)
NextReview(scan, listed) ==
    IF listed /\ manual.decision \notin {"none", "accepted"} THEN ManualItem
    ELSE Newest(Reviewable(scan, TRUE))
-----------------------------------------------------------------------------
Idle == step = "none" /\ offered = NoItem

Happens(r) == r \in Rarities /\ rare' = rare \cup {r}

Present == {n \in Stream : file[n] # "none"}

(* A directory scan lists the files there are, or some of them. *)
Listing(scan) ==
    \/ scan = Present /\ UNCHANGED rare
    \/ scan # Present /\ Happens("scan")

(* A directory scan, and readProgressInbox of the record: it returns the record,
   or nothing although there is one. *)
Reads(scan, record) ==
    LET odd == (IF scan = Present THEN {} ELSE {"scan"}) \cup
               (IF record = manual THEN {} ELSE {"unread"})
    IN  /\ record \in {manual, NoRequest}
        /\ odd \subseteq Rarities
        /\ rare' = rare \cup odd

(* A storage call that fails returns false and changes nothing. *)
Fails == StorageFails

(* deferPulled of the next event, or of one pulled before whose cursor was not
   committed.  The scheduler is not called while the reader is on the stack. *)
DeferPulled(n) ==
    /\ step = "none" /\ place = "home"
    /\ n = cursor + 1
    /\ file' = [file EXCEPT ![n] = IF @ = "none" THEN "json" ELSE @]
    /\ \/ cursor' = n /\ UNCHANGED rare
       \/ Happens("replay") /\ UNCHANGED cursor
    /\ UNCHANGED <<manual, place, step, item, todo, ok, asked, offered, applying, ghosts>>

(* fetchProgress found a position: restoreProgressCandidate replaces the record
   under a new request, and the reader is opened again. *)
FetchProgress ==
    /\ Idle /\ place = "reading"
    /\ manual.req < MaxRequests
    /\ manual' = [req |-> manual.req + 1, decision |-> "pending", stream |-> 0]
    /\ consent' = {}
    /\ granted' = {}
    /\ place' = "opening"
    /\ asked' = FALSE
    /\ applying' = NoItem
    /\ UNCHANGED <<file, cursor, step, item, todo, ok, offered, taken, rare>>

OpenBook ==
    /\ Idle /\ place = "home"
    /\ place' = "opening"
    /\ UNCHANGED <<files, step, item, todo, ok, asked, offered, applying, ghosts, rare>>

(* The activity is destroyed; pendingAppliedRemote goes with it. *)
CloseBook ==
    /\ Idle /\ place = "reading"
    /\ place' = "home"
    /\ asked' = FALSE
    /\ applying' = NoItem
    /\ UNCHANGED <<files, step, item, todo, ok, offered, ghosts, rare>>

(* The position is mapped, saved, and recorded as an explicit jump. *)
Apply(it) == applying' = it

(* loadBook applies what was accepted, if it can be mapped and saved. *)
LoadBook(scan, record) ==
    /\ Reads(scan, record)
    /\ Idle /\ place = "opening"
    /\ place' = "reading"
    /\ \/ Apply(NextApplicable(scan, record))
       \/ UNCHANGED applying
    /\ UNCHANGED <<files, step, item, todo, ok, asked, offered, ghosts>>

(* The reader's prompt, once per opening. *)
Ask(scan, record) ==
    /\ Reads(scan, record)
    /\ Idle /\ place = "reading" /\ ~asked
    /\ asked' = TRUE
    /\ offered' = NextDecision(scan, record)
    /\ UNCHANGED <<files, place, step, item, todo, ok, applying, ghosts>>

(* The settings screen shows the next decision of all books. *)
Review(scan, listed) ==
    /\ Happens("review")
    /\ listed \/ "scan" \in Rarities
    /\ scan = Present \/ "scan" \in Rarities
    /\ Idle /\ place = "home"
    /\ offered' = NextReview(scan, listed)
    /\ offered' # NoItem
    /\ UNCHANGED <<files, place, step, item, todo, ok, asked, applying, ghosts>>

-----------------------------------------------------------------------------
(* acceptProgress returns; the reader then applies what was accepted, if it can
   be mapped and saved.  Against a record the item stands alone, without one it
   replaces the older ones. *)
Later(it, items) ==
    IF manual = NoRequest THEN {i \in items : i[2] > it.id} ELSE {}

Accepted(it) ==
    /\ consent' = {Identity(it)} \cup Later(it, consent)
    /\ granted' = {Identity(it)} \cup {i \in Later(it, consent) : file[i[2]] = "accepted"}
    /\ offered' = NoItem
    /\ (place = "reading" /\ Apply(it)) \/ UNCHANGED applying

NotAccepted ==
    /\ offered' = NoItem
    /\ UNCHANGED <<consent, granted, applying>>

(* setRecoveryDecision rewrites the record. *)
SetRecoveryDecision(decision, stream) ==
    manual' = [manual EXCEPT !.decision = decision, !.stream = stream]

(* acceptProgress where a manual record exists: one rewrite of the record. *)
AcceptByRecord ==
    /\ step = "none" /\ offered # NoItem
    /\ manual # NoRequest
    /\ LET stale == IF offered.manual THEN offered.id # manual.req
                    ELSE file[offered.id] = "none"
       IN  \/ /\ ~stale
              /\ IF offered.manual THEN SetRecoveryDecision("accepted", 0)
                 ELSE SetRecoveryDecision("superseded", offered.id)
              /\ taken' = IF offered.manual THEN taken ELSE taken \cup {offered.id}
              /\ Accepted(offered)
           \/ /\ stale \/ Fails
              /\ NotAccepted
              /\ UNCHANGED <<manual, taken>>
    /\ UNCHANGED <<file, cursor, place, step, item, todo, ok, asked, rare>>

(* The listed files of events before n. *)
Older(n, scan) == {m \in scan : m < n /\ file[m] # "none"}

(* acceptProgress of a stream event where no record was found: its file is
   renamed ... *)
AcceptByRename(scan) ==
    /\ Reads(scan, NoRequest)
    /\ step = "none" /\ offered # NoItem /\ ~offered.manual
    /\ \/ /\ file[offered.id] = IF offered.dismissed THEN "dismissed" ELSE "json"
          /\ file' = [file EXCEPT ![offered.id] = "accepted"]
          /\ taken' = taken \cup {offered.id}
          /\ step' = "cleaning"
          /\ item' = offered
          /\ todo' = Older(offered.id, scan)
          /\ ok' = TRUE
          /\ consent' = consent \cup {Identity(offered)}
          /\ granted' = IF granted = {} THEN {} ELSE granted \cup {Identity(offered)}
          /\ UNCHANGED <<offered, applying>>
       \/ /\ Fails
          /\ NotAccepted
          /\ UNCHANGED <<file, step, item, todo, ok, taken>>
    /\ UNCHANGED <<manual, cursor, place, asked>>

(* removeInboxFile removes .json and .accepted. *)
Removed(n) == IF file[n] = "dismissed" THEN "dismissed" ELSE "none"

(* ... and the older ones are removed; resolveProgressThrough does the same up
   to and including the item. *)
RemoveOlder(n) ==
    /\ step \in {"cleaning", "sweeping"}
    /\ n \in todo
    /\ todo' = todo \ {n}
    /\ \/ file' = [file EXCEPT ![n] = Removed(n)] /\ UNCHANGED ok
       \/ Fails /\ ok' = FALSE /\ UNCHANGED file
    /\ UNCHANGED <<manual, cursor, place, step, item, asked, offered, applying, ghosts, rare>>

FinishAccept ==
    /\ step = "cleaning" /\ todo = {}
    /\ step' = "none"
    /\ IF ok THEN Accepted(item) ELSE NotAccepted
    /\ item' = NoItem
    /\ ok' = TRUE
    /\ UNCHANGED <<files, place, todo, asked, taken, rare>>

DismissOffered ==
    /\ step = "none" /\ offered # NoItem
    /\ \/ /\ IF offered.manual
             THEN /\ offered.id = manual.req
                  /\ SetRecoveryDecision("dismissed", 0)
                  /\ UNCHANGED file
             ELSE /\ file[offered.id] \in {"json", "dismissed"}
                  /\ file' = [file EXCEPT ![offered.id] = "dismissed"]
                  /\ UNCHANGED manual
          /\ granted' = IF offered.manual THEN {} ELSE granted \ {Identity(offered)}
          /\ consent' = consent \ {Identity(offered)}
       \/ /\ Fails
          /\ UNCHANGED <<file, manual, granted, consent>>
    /\ offered' = NoItem
    /\ UNCHANGED <<cursor, place, step, item, todo, ok, asked, applying, taken, rare>>

-----------------------------------------------------------------------------
(* resolveProgress, once the jump is recorded and queued. *)
ResolveManual ==
    /\ Idle /\ applying # NoItem /\ applying.manual
    /\ applying.id = manual.req
    /\ manual.decision \in {"accepted", "resolved"}
    /\ SetRecoveryDecision("resolved", 0)
    /\ applying' = NoItem
    /\ consent' = consent \ {Identity(applying)}
    /\ granted' = granted \ {Identity(applying)}
    /\ UNCHANGED <<file, cursor, place, step, item, todo, ok, asked, offered, taken, rare>>

ResolveStream(scan) ==
    /\ Listing(scan)
    /\ Idle /\ applying # NoItem /\ ~applying.manual
    /\ file' = [file EXCEPT ![applying.id] = Removed(applying.id)]
    /\ step' = "sweeping"
    /\ item' = applying
    /\ todo' = Older(applying.id, scan) \cup
               (IF file'[applying.id] = "none" THEN {} ELSE {applying.id} \cap scan)
    /\ ok' = TRUE
    /\ granted' = {i \in granted : i[1] \/ i[2] > applying.id}
    /\ UNCHANGED <<manual, cursor, place, asked, offered, applying, consent, taken>>

FinishResolve ==
    /\ step = "sweeping" /\ todo = {}
    /\ step' = "none"
    /\ item' = NoItem
    /\ ok' = TRUE
    /\ IF ok
       THEN applying' = NoItem /\ consent' = {i \in consent : i[1] \/ i[2] > item.id}
       ELSE UNCHANGED <<applying, consent>>
    /\ UNCHANGED <<files, place, todo, asked, offered, granted, taken, rare>>

PowerLoss ==
    /\ place' = "home"
    /\ step' = "none"
    /\ item' = NoItem
    /\ todo' = {}
    /\ ok' = TRUE
    /\ asked' = FALSE
    /\ offered' = NoItem
    /\ applying' = NoItem
    /\ UNCHANGED <<files, ghosts, rare>>

Next ==
    \/ \E n \in Stream : DeferPulled(n)
    \/ FetchProgress
    \/ OpenBook
    \/ CloseBook
    \/ \E scan \in SUBSET Present, record \in {manual, NoRequest} :
          LoadBook(scan, record) \/ Ask(scan, record)
    \/ \E scan \in SUBSET Present, listed \in BOOLEAN : Review(scan, listed)
    \/ AcceptByRecord
    \/ \E scan \in SUBSET Present : AcceptByRename(scan)
    \/ \E n \in Stream : RemoveOlder(n)
    \/ FinishAccept
    \/ DismissOffered
    \/ ResolveManual
    \/ \E scan \in SUBSET Present : ResolveStream(scan)
    \/ FinishResolve
    \/ PowerLoss

Spec == Init /\ [][Next]_vars

-----------------------------------------------------------------------------
TypeOK ==
    /\ file \in [Stream -> Marks]
    /\ manual \in [req : 0 .. MaxRequests, decision : Decisions, stream : {0} \cup Stream]
    /\ (manual.decision = "superseded") = (manual.stream # 0)
    /\ cursor \in {0} \cup Stream
    /\ place \in {"home", "opening", "reading"}
    /\ step \in {"none", "cleaning", "sweeping"}
    /\ {item, offered, applying} \subseteq Items
    /\ todo \subseteq Stream
    /\ step = "none" => item = NoItem /\ todo = {}
    /\ ok \in BOOLEAN /\ asked \in BOOLEAN
    /\ consent \cup granted \subseteq BOOLEAN \X Nat
    /\ taken \subseteq Stream
    /\ rare \subseteq Rarities

(* "The server can recommend a location, but only the reader may authorize a
   jump": the position moves only to an item the reader accepted, that was not
   done with, and that no later decision superseded. *)
JumpOnlyWithConsent ==
    [][applying' # applying /\ applying' # NoItem => Identity(applying') \in consent']_vars

(* The same as long as the reader alone decides: every event is pulled once,
   the scans list every file, the record is readable whenever it is read and the
   settings screen stays closed. *)
OrdinaryJumpOnlyWithConsent ==
    [][rare' = {} /\ applying' # applying /\ applying' # NoItem
       => Identity(applying') \in consent']_vars

(* An acceptance that was reported survives failures, resets, replays and the
   settings screen: the next opening of the book applies it, or one accepted
   later, if no scan came short and the record was readable whenever it was read. *)
ConsentIsDurable ==
    "scan" \notin rare /\ "unread" \notin rare /\ granted # {}
        => Identity(NextApplicable(Stream, manual)) \in granted

(* Whatever happened, a position that was pulled is on the card until the reader accepted it or a
   later one. *)
NoSuggestionLost ==
    \A n \in 1 .. cursor : file[n] = "none" => \E m \in taken : m >= n
=============================================================================
