------------------------ MODULE ProgressInboxProofs ------------------------
(***************************************************************************)
(* For any number of events and manual requests, with failing storage,     *)
(* resets, replays, scans that come short, records that cannot be read and *)
(* the settings screen: no position is lost before the reader took it or a *)
(* later one.  An acceptance that was reported decides the next opening    *)
(* while scans and the record can be read, and as long as nothing rare     *)
(* happens no jump is made without consent.                                *)
(***************************************************************************)
EXTENDS ProgressInbox, WellFoundedInduction, TLAPS

(* The record: without a request it is empty. *)
RecordInv ==
    /\ manual.decision = "none" <=> manual.req = 0
    /\ manual.req = 0 => manual = NoRequest /\ \A i \in consent : ~i[1]

(* What is shown, applied or operated on is an event, or the request. *)
ItemsInv ==
    /\ \A it \in {offered, applying, item} : it # NoItem /\ ~it.manual => it.id \in Stream
    /\ offered.manual => offered.id = manual.req /\ manual # NoRequest
    /\ step # "none" => item # NoItem /\ ~item.manual
    /\ \A i \in consent : ~i[1] => i[2] \in Stream

(* An event that decides where the book opens was taken once; an operation
   removes nothing after its item. *)
TakenInv ==
    /\ \A n \in Stream : file[n] = "accepted" => n \in taken
    /\ manual.stream # 0 => manual.stream \in taken
    /\ applying # NoItem /\ ~applying.manual => applying.id \in taken
    /\ step # "none" => item.id \in taken /\ \A n \in todo : n <= item.id

(* While older events are removed after an acceptance, the accepted one stays;
   while a resolved one is removed, what was granted is newer; and of what is
   not to remove any more nothing is left that could be applied. *)
StepInv ==
    /\ step = "cleaning" =>
          /\ "unread" \notin rare => manual = NoRequest
          /\ file[item.id] = "accepted"
          /\ item.id \notin todo
    /\ step = "sweeping" =>
          /\ offered = NoItem
          /\ \A i \in granted : i[1] \/ i[2] > item.id
    /\ step # "none" /\ ok /\ "scan" \notin rare =>
          \A n \in Stream \ todo : n <= item.id =>
             \/ file[n] \in {"none", "dismissed"}
             \/ step = "cleaning" /\ n = item.id

(* What a scan finds accepted, the reader accepted. *)
ConsentInv ==
    /\ "unread" \notin rare /\ manual.decision = "accepted" => <<TRUE, manual.req>> \in consent
    /\ "scan" \notin rare /\ manual = NoRequest =>
          \A n \in Stream : file[n] = "accepted" => <<FALSE, n>> \in consent

(* What was granted is what the next opening of the book finds. *)
GrantedInv ==
    "scan" \notin rare /\ "unread" \notin rare /\ granted # {} =>
        IF manual = NoRequest
        THEN \E n \in Stream :
                /\ file[n] = "accepted"
                /\ \A m \in Stream : file[m] = "accepted" => m <= n
                /\ <<FALSE, n>> \in granted
                /\ \A i \in granted : ~i[1] /\ i[2] <= n
        ELSE \/ manual.decision = "accepted" /\ granted = {<<TRUE, manual.req>>}
             \/ /\ manual.stream # 0
                /\ file[manual.stream] # "none"
                /\ granted = {<<FALSE, manual.stream>>}

(* As long as nothing rare happened. *)
OrdinaryInv ==
    rare = {} =>
        /\ \A n \in Stream : n > cursor => file[n] = "none"
        /\ manual.stream # 0 =>
              /\ manual.stream <= cursor
              /\ file[manual.stream] # "dismissed"
              /\ file[manual.stream] # "none" => <<FALSE, manual.stream>> \in consent
        /\ step = "none" /\ offered # NoItem /\ ~offered.manual =>
              /\ place = "reading"
              /\ file[offered.id] = "json"
              /\ offered.id # manual.stream
              /\ ~offered.dismissed

IInv ==
    /\ TypeOK /\ NoSuggestionLost /\ RecordInv /\ ItemsInv /\ TakenInv
    /\ StepInv /\ ConsentInv /\ GrantedInv /\ OrdinaryInv

-----------------------------------------------------------------------------
(* A set of naturals that is not empty has a least element. *)
LEMMA HasLeast ==
  ASSUME NEW S \in SUBSET Nat, S # {}
  PROVE  \E n \in S : \A m \in S : n <= m
<1> DEFINE R == OpToRel(<, Nat)
<1>1. \A x, y \in Nat : x < y => <<x, y>> \in R
  BY DEF OpToRel
<1>2. IsWellFoundedOn(R, Nat)
  BY NatLessThanWellFounded
<1> HIDE DEF R
<1>3. PICK n \in S : \A m \in S : ~ (<<m, n>> \in R)
  BY <1>2, WFMin
<1>4. ASSUME NEW m \in S PROVE n <= m
  <2>1. ~ (m < n)
    BY <1>1, <1>3
  <2>2. m \in Nat /\ n \in Nat
    OBVIOUS
  <2> QED BY <2>1, <2>2
<1> QED BY <1>4

(* A set of events that is not empty has a greatest element, and Max0 is it. *)
LEMMA MaxIs ==
  ASSUME NEW S \in SUBSET Stream, S # {}
  PROVE  Max0(S) \in S /\ \A m \in S : m <= Max0(S)
<1> DEFINE D == {MaxStream - n : n \in S}
<1>1. D \subseteq Nat
  <2>1. ASSUME NEW n \in S PROVE MaxStream - n \in Nat
    <3>1. n \in Stream
      OBVIOUS
    <3> QED BY <3>1, InboxAssumption DEF Stream
  <2> QED BY <2>1
<1>2. D # {}
  OBVIOUS
<1>3. PICK d \in D : \A e \in D : d <= e
  <2> HIDE DEF D
  <2> QED BY <1>1, <1>2, HasLeast
<1>4. PICK n \in S : d = MaxStream - n
  OBVIOUS
<1>5. ASSUME NEW m \in S PROVE m <= n
  <2>1. MaxStream - m \in D
    OBVIOUS
  <2>2. MaxStream - n <= MaxStream - m
    <3> HIDE DEF D
    <3> QED BY <2>1, <1>3, <1>4
  <2>3. m \in Stream /\ n \in Stream
    OBVIOUS
  <2> HIDE DEF D
  <2> QED BY <2>2, <2>3, InboxAssumption DEF Stream
<1> HIDE DEF D
<1> QED BY <1>5 DEF Max0

(* The newest of some events is one of them, with its mark. *)
LEMMA NewestIs ==
  ASSUME NEW S \in SUBSET Stream
  PROVE  /\ Newest(S) \in Items /\ ~Newest(S).manual
         /\ S = {} => Newest(S) = NoItem
         /\ S # {} => /\ Newest(S).id \in S
                      /\ Newest(S).dismissed = (file[Newest(S).id] = "dismissed")
<1>1. CASE S = {}
  BY <1>1 DEF Newest, NoItem, Items
<1>2. CASE S # {}
  <2>1. Max0(S) \in S
    BY <1>2, MaxIs
  <2>2. Max0(S) \in Stream
    BY <2>1
  <2>3. Newest(S) = StreamItem(Max0(S), file[Max0(S)] = "dismissed")
    BY <1>2 DEF Newest
  <2> QED BY <1>2, <2>1, <2>2, <2>3, InboxAssumption DEF StreamItem, Items, Stream
<1> QED BY <1>1, <1>2

(* What the reader's prompt shows: an undecided event that the record does not
   point at, or the request. *)
LEMMA DecisionIs ==
  ASSUME IInv, NEW scan \in SUBSET Present, NEW record \in {manual, NoRequest},
         NEW it, it = NextDecision(scan, record)
  PROVE  /\ it \in Items
         /\ it # NoItem /\ ~it.manual => /\ it.id \in Stream
                                         /\ file[it.id] = "json"
                                         /\ it.id # record.stream
                                         /\ ~it.dismissed
         /\ it.manual => it.id = manual.req /\ manual # NoRequest
<1>0. TypeOK /\ RecordInv
  BY DEF IInv
<1> USE <1>0
<1>1. Reviewable(scan, FALSE) \ {record.stream} \in SUBSET Stream
  BY DEF Reviewable, Present
<1>2. manual.req \in Nat /\ (record.decision = "pending" => manual # NoRequest)
  BY InboxAssumption DEF TypeOK, NoRequest
<1>3. CASE record.decision = "accepted"
  BY <1>3 DEF NextDecision, NoItem, Items
<1>4. CASE record.decision = "pending"
  BY <1>2, <1>4 DEF NextDecision, ManualItem, Items
<1>5. CASE record.decision \notin {"accepted", "pending"}
  <2>1. it = Newest(Reviewable(scan, FALSE) \ {record.stream})
    BY <1>5 DEF NextDecision
  <2> QED BY <1>1, <2>1, NewestIs DEF Reviewable
<1> QED BY <1>3, <1>4, <1>5

(* What the settings screen shows: an event or the request. *)
LEMMA ReviewIs ==
  ASSUME IInv, NEW scan \in SUBSET Present, NEW listed \in BOOLEAN, NEW it,
         it = NextReview(scan, listed)
  PROVE  /\ it \in Items
         /\ it # NoItem /\ ~it.manual => it.id \in Stream
         /\ it.manual => it.id = manual.req /\ manual # NoRequest
<1>0. TypeOK
  BY DEF IInv
<1> USE <1>0
<1>1. Reviewable(scan, TRUE) \in SUBSET Stream
  BY DEF Reviewable, Present
<1>2. manual.req \in Nat /\ (manual.decision # "none" => manual # NoRequest)
  BY InboxAssumption DEF TypeOK, NoRequest
<1>3. CASE listed /\ manual.decision \notin {"none", "accepted"}
  BY <1>2, <1>3 DEF NextReview, ManualItem, Items
<1>4. CASE ~(listed /\ manual.decision \notin {"none", "accepted"})
  <2>1. it = Newest(Reviewable(scan, TRUE))
    BY <1>4 DEF NextReview
  <2> QED BY <1>1, <2>1, NewestIs
<1> QED BY <1>3, <1>4

(* What an opening applies: an event that was taken once, or the request. *)
LEMMA ApplicableIs ==
  ASSUME IInv, NEW scan \in SUBSET Stream, NEW record \in {manual, NoRequest}, NEW it,
         it = NextApplicable(scan, record)
  PROVE  /\ it \in Items
         /\ it # NoItem /\ ~it.manual => it.id \in Stream /\ it.id \in taken
<1>0. TypeOK /\ RecordInv /\ TakenInv
  BY DEF IInv
<1> USE <1>0
<1> DEFINE found == {n \in scan : file[n] = "accepted"}
<1>1. found \in SUBSET Stream /\ found \subseteq taken
  BY DEF TakenInv
<1>2. manual.req \in Nat /\ manual.stream \in {0} \cup Stream
  BY InboxAssumption DEF TypeOK
<1>3. CASE record = NoRequest
  <2>1. CASE found = {}
    BY <1>3, <2>1 DEF NextApplicable, Max0, NoItem, Items
  <2>2. CASE found # {}
    <3>1. Max0(found) \in found /\ Max0(found) # 0 /\ Max0(found) \in Nat
      <4>1. Max0(found) \in found
        BY <1>1, <2>2, MaxIs
      <4> QED BY <1>1, <4>1, InboxAssumption DEF Stream
    <3>2. it = StreamItem(Max0(found), FALSE)
      BY <1>3, <3>1 DEF NextApplicable
    <3> HIDE DEF found
    <3> QED BY <1>1, <3>1, <3>2 DEF StreamItem, Items
  <2> QED BY <2>1, <2>2
<1>4. CASE record # NoRequest /\ record = manual
  <2>1. CASE manual.decision = "accepted"
    BY <1>2, <1>4, <2>1 DEF NextApplicable, Items
  <2>2. CASE manual.decision # "accepted" /\ manual.stream # 0 /\ file[manual.stream] # "none"
    <3>1. it = StreamItem(manual.stream, file[manual.stream] = "dismissed")
      BY <1>4, <2>2 DEF NextApplicable
    <3>2. manual.stream \in Nat
      BY <1>2, InboxAssumption DEF Stream
    <3> QED BY <1>2, <2>2, <3>1, <3>2 DEF StreamItem, Items, TakenInv
  <2>3. CASE manual.decision # "accepted" /\ ~(manual.stream # 0 /\ file[manual.stream] # "none")
    BY <1>4, <2>3 DEF NextApplicable, NoItem, Items
  <2> QED BY <2>1, <2>2, <2>3
<1> QED BY <1>3, <1>4

(* A rewrite of the record keeps the request. *)
LEMMA RewriteIs ==
  ASSUME TypeOK, NEW d \in Decisions, NEW s \in {0} \cup Stream, SetRecoveryDecision(d, s)
  PROVE  /\ manual' \in [req : 0 .. MaxRequests, decision : Decisions, stream : {0} \cup Stream]
         /\ manual'.req = manual.req /\ manual'.decision = d /\ manual'.stream = s
  BY DEF TypeOK, SetRecoveryDecision

-----------------------------------------------------------------------------
(* Nothing is there at first. *)
LEMMA InitIInv == Init => IInv
<1> SUFFICES ASSUME Init PROVE IInv
  OBVIOUS
<1> USE InboxAssumption DEF Init
<1>1. TypeOK
  <2>1. manual \in [req : 0 .. MaxRequests, decision : Decisions, stream : {0} \cup Stream]
    BY DEF NoRequest, Decisions
  <2>2. (manual.decision = "superseded") = (manual.stream # 0)
    BY DEF NoRequest
  <2>3. NoItem \in Items
    BY DEF NoItem, Items
  <2> QED BY <2>1, <2>2, <2>3 DEF TypeOK, Marks
<1>2. NoSuggestionLost
  BY DEF NoSuggestionLost
<1>3. RecordInv /\ ItemsInv /\ TakenInv
  BY DEF RecordInv, ItemsInv, TakenInv, NoRequest, NoItem
<1>4. StepInv /\ ConsentInv /\ GrantedInv
  BY DEF StepInv, ConsentInv, GrantedInv, NoRequest
<1>5. OrdinaryInv
  BY DEF OrdinaryInv, NoRequest
<1> QED BY <1>1, <1>2, <1>3, <1>4, <1>5 DEF IInv

(* Every step keeps the types. *)
LEMMA StepTypeOK == IInv /\ [Next]_vars => TypeOK'
<1> SUFFICES ASSUME IInv, [Next]_vars PROVE TypeOK'
  OBVIOUS
<1>0. TypeOK /\ RecordInv /\ ItemsInv
  BY DEF IInv
<1> USE InboxAssumption, <1>0 DEF files, ghosts, Idle, TypeOK, Stream, Present, Marks,
        Decisions
<1>a. NoItem \in Items
  BY DEF NoItem, Items
<1>b. /\ \A it \in Items : Identity(it) \in BOOLEAN \X Nat
      /\ {offered, applying, item} \subseteq Items
  BY DEF Identity, Items
<1> USE <1>a, <1>b
<1>1. ASSUME NEW n \in Stream, DeferPulled(n) PROVE TypeOK'
  BY <1>1 DEF DeferPulled, Happens
<1>2. CASE FetchProgress
  <2>1. manual' \in [req : 0 .. MaxRequests, decision : Decisions, stream : {0} \cup Stream]
    BY <1>2 DEF FetchProgress, Decisions
  <2>2. (manual'.decision = "superseded") = (manual'.stream # 0)
    BY <1>2 DEF FetchProgress
  <2> QED BY <1>2, <2>1, <2>2 DEF FetchProgress
<1>3. CASE OpenBook
  BY <1>3 DEF OpenBook
<1>4. CASE CloseBook
  BY <1>4 DEF CloseBook
<1>5. ASSUME NEW scan \in SUBSET Present, NEW record \in {manual, NoRequest},
             LoadBook(scan, record)
      PROVE  TypeOK'
  BY <1>5, ApplicableIs DEF LoadBook, Reads, Apply
<1>6. ASSUME NEW scan \in SUBSET Present, NEW record \in {manual, NoRequest},
             Ask(scan, record)
      PROVE  TypeOK'
  BY <1>6, DecisionIs DEF Ask, Reads
<1>7. ASSUME NEW scan \in SUBSET Present, NEW listed \in BOOLEAN, Review(scan, listed)
      PROVE  TypeOK'
  BY <1>7, ReviewIs DEF Review, Happens
<1>8. CASE AcceptByRecord
  <2> USE DEF AcceptByRecord, Fails, Accepted, NotAccepted, Apply
  <2>1. ~offered.manual => offered.id \in Stream
    BY <1>8 DEF ItemsInv
  <2>2. /\ manual' \in [req : 0 .. MaxRequests, decision : Decisions, stream : {0} \cup Stream]
        /\ (manual'.decision = "superseded") = (manual'.stream # 0)
    <3>1. CASE manual' = manual
      BY <3>1
    <3>2. CASE SetRecoveryDecision("accepted", 0)
      BY <3>2, RewriteIs
    <3>3. CASE ~offered.manual /\ SetRecoveryDecision("superseded", offered.id)
      BY <2>1, <3>3, RewriteIs
    <3> QED BY <1>8, <3>1, <3>2, <3>3
  <2>4. consent' \cup granted' \subseteq BOOLEAN \X Nat
    BY <1>8 DEF Later
  <2>5. taken' \subseteq Stream
    <3>1. taken' = taken \/ (~offered.manual /\ taken' = taken \cup {offered.id})
      BY <1>8
    <3> QED BY <2>1, <3>1
  <2>6. {item', offered', applying'} \subseteq Items
    BY <1>8
  <2> QED BY <1>8, <2>2, <2>4, <2>5, <2>6
<1>9. ASSUME NEW scan \in SUBSET Present, AcceptByRename(scan) PROVE TypeOK'
  <2> USE DEF AcceptByRename, Reads, Fails, NotAccepted
  <2>1. offered.id \in Stream
    BY <1>9 DEF ItemsInv, RecordInv
  <2>2. file' \in [Stream -> Marks]
    BY <1>9 DEF Marks
  <2>3. consent' \cup granted' \subseteq BOOLEAN \X Nat
    BY <1>9
  <2>4. todo' \subseteq Stream
    BY <1>9 DEF Older
  <2>5. taken' \subseteq Stream /\ rare' \subseteq Rarities
    BY <1>9, <2>1
  <2>6. {item', offered', applying'} \subseteq Items
    BY <1>9
  <2> QED BY <1>9, <2>2, <2>3, <2>4, <2>5, <2>6
<1>10. ASSUME NEW n \in Stream, RemoveOlder(n) PROVE TypeOK'
  BY <1>10 DEF RemoveOlder, Removed, Fails
<1>11. CASE FinishAccept
  <2> USE DEF FinishAccept, Accepted, NotAccepted, Apply
  <2>1. consent' \cup granted' \subseteq BOOLEAN \X Nat
    BY <1>11 DEF Later
  <2>2. {item', offered', applying'} \subseteq Items
    BY <1>11
  <2> QED BY <1>11, <2>1, <2>2
<1>12. CASE DismissOffered
  <2> USE DEF DismissOffered, Fails
  <2>1. /\ manual' \in [req : 0 .. MaxRequests, decision : Decisions, stream : {0} \cup Stream]
        /\ (manual'.decision = "superseded") = (manual'.stream # 0)
    <3>1. CASE manual' = manual
      BY <3>1
    <3>2. CASE SetRecoveryDecision("dismissed", 0)
      BY <3>2, RewriteIs
    <3> QED BY <1>12, <3>1, <3>2
  <2>2. file' \in [Stream -> Marks]
    BY <1>12
  <2>3. consent' \cup granted' \subseteq BOOLEAN \X Nat
    BY <1>12
  <2> QED BY <1>12, <2>1, <2>2, <2>3
<1>13. CASE ResolveManual
  BY <1>13 DEF ResolveManual, SetRecoveryDecision, Identity
<1>14. ASSUME NEW scan \in SUBSET Present, ResolveStream(scan) PROVE TypeOK'
  BY <1>14 DEF ResolveStream, Listing, Happens, Removed, Older
<1>15. CASE FinishResolve
  <2>1. consent' \cup granted' \subseteq BOOLEAN \X Nat
    BY <1>15 DEF FinishResolve
  <2> QED BY <1>15, <2>1 DEF FinishResolve
<1>16. CASE PowerLoss
  BY <1>16 DEF PowerLoss
<1>17. CASE UNCHANGED vars
  BY <1>17 DEF vars
<1> QED
  BY <1>1, <1>2, <1>3, <1>4, <1>5, <1>6, <1>7, <1>8, <1>9, <1>10, <1>11, <1>12, <1>13,
     <1>14, <1>15, <1>16, <1>17 DEF Next
-----------------------------------------------------------------------------
(* What the answers to a prompt do to the record and to the consent. *)

(* Accepting against a record: nothing, or consent for the one item it now names. *)
LEMMA AcceptByRecordDoes ==
  ASSUME IInv, AcceptByRecord
  PROVE  /\ UNCHANGED <<file, step, place, cursor, rare>>
         /\ offered' = NoItem
         /\ manual # NoRequest /\ manual'.req = manual.req /\ manual' # NoRequest
         /\ \/ UNCHANGED <<manual, consent, granted>>
            \/ /\ manual'.decision = "accepted" /\ manual'.stream = 0
               /\ consent' = {<<TRUE, manual.req>>} /\ granted' = {<<TRUE, manual.req>>}
            \/ /\ offered # NoItem /\ ~offered.manual /\ offered.id \in Stream
               /\ file[offered.id] # "none"
               /\ manual'.decision = "superseded" /\ manual'.stream = offered.id
               /\ consent' = {<<FALSE, offered.id>>} /\ granted' = {<<FALSE, offered.id>>}
<1>0. TypeOK /\ RecordInv /\ ItemsInv
  BY DEF IInv
<1> USE <1>0 DEF AcceptByRecord
<1>1. /\ manual # NoRequest /\ offered # NoItem /\ offered' = NoItem
      /\ UNCHANGED <<file, step, place, cursor, rare>>
  BY DEF Accepted, NotAccepted
<1>2. manual.req # 0 /\ (manual'.req = manual.req => manual' # NoRequest)
  BY <1>1 DEF RecordInv, NoRequest
<1>3. offered \in Items /\ (~offered.manual => offered.id \in Stream)
  BY <1>1 DEF ItemsInv, TypeOK
<1>4. CASE UNCHANGED <<manual, consent, granted>>
  BY <1>1, <1>4
<1>5. CASE ~UNCHANGED <<manual, consent, granted>>
  <2>1. /\ IF offered.manual THEN offered.id = manual.req ELSE file[offered.id] # "none"
        /\ IF offered.manual THEN SetRecoveryDecision("accepted", 0)
                             ELSE SetRecoveryDecision("superseded", offered.id)
        /\ Accepted(offered)
    BY <1>5 DEF NotAccepted
  <2>2. /\ consent' = {<<offered.manual, offered.id>>}
        /\ granted' = {<<offered.manual, offered.id>>}
    BY <1>1, <2>1 DEF Accepted, Later, Identity
  <2>3. CASE offered.manual
    <3>1. manual'.req = manual.req /\ manual'.decision = "accepted" /\ manual'.stream = 0
      BY <2>1, <2>3, RewriteIs DEF Decisions
    <3>2. offered.manual = TRUE
      BY <1>3, <2>3 DEF Items
    <3>3. offered.id = manual.req
      BY <2>1, <2>3
    <3> HIDE DEF AcceptByRecord
    <3> QED BY <1>1, <1>2, <2>2, <3>1, <3>2, <3>3
  <2>4. CASE ~offered.manual
    <3>1. /\ manual'.req = manual.req /\ manual'.decision = "superseded"
          /\ manual'.stream = offered.id
      BY <1>3, <2>1, <2>4, RewriteIs DEF Decisions
    <3>2. offered.manual = FALSE
      BY <1>3, <2>4 DEF Items
    <3>3. file[offered.id] # "none"
      BY <2>1, <2>4
    <3> HIDE DEF AcceptByRecord
    <3> QED BY <1>1, <1>2, <1>3, <2>2, <2>4, <3>1, <3>2, <3>3
  <2> QED BY <2>3, <2>4
<1> QED BY <1>4, <1>5

(* Accepting by renaming: nothing, or one more accepted event. *)
LEMMA AcceptByRenameDoes ==
  ASSUME IInv, NEW scan \in SUBSET Present, AcceptByRename(scan)
  PROVE  /\ "unread" \notin rare' => manual = NoRequest
         /\ UNCHANGED <<manual, cursor, place>>
         /\ \/ /\ UNCHANGED <<file, step, consent, granted>>
               /\ offered' = NoItem
            \/ /\ offered \in Items /\ offered.id \in Stream
               /\ file[offered.id] \in {"json", "dismissed"}
               /\ file' = [file EXCEPT ![offered.id] = "accepted"]
               /\ step' = "cleaning"
               /\ consent' = consent \cup {<<FALSE, offered.id>>}
               /\ granted' = IF granted = {} THEN {} ELSE granted \cup {<<FALSE, offered.id>>}
         /\ rare \subseteq rare'
<1>0. TypeOK /\ ItemsInv
  BY DEF IInv
<1> USE <1>0 DEF AcceptByRename
<1>1. /\ offered # NoItem /\ step = "none" /\ UNCHANGED <<manual, cursor, place>>
      /\ "unread" \notin rare' => manual = NoRequest
  BY DEF Reads
<1>2. offered \in Items /\ offered.manual = FALSE /\ offered.id \in Stream
  BY <1>1 DEF ItemsInv, TypeOK, Items
<1>3. rare \subseteq rare'
  BY DEF Reads
<1>4. CASE step' = "cleaning"
  BY <1>1, <1>2, <1>3, <1>4 DEF Identity
<1>5. CASE step' # "cleaning"
  BY <1>1, <1>3, <1>5 DEF NotAccepted
<1> QED BY <1>4, <1>5

(* Declining: nothing, a declined request, or a declined event. *)
LEMMA DismissDoes ==
  ASSUME IInv, DismissOffered
  PROVE  /\ UNCHANGED <<step, place, cursor, rare>>
         /\ offered' = NoItem
         /\ \/ UNCHANGED <<file, manual, consent, granted>>
            \/ /\ UNCHANGED file /\ manual # NoRequest
               /\ manual'.req = manual.req /\ manual' # NoRequest
               /\ manual'.decision = "dismissed" /\ manual'.stream = 0
               /\ granted' = {} /\ consent' \subseteq consent
            \/ /\ UNCHANGED manual /\ offered \in Items
               /\ offered # NoItem /\ ~offered.manual /\ offered.id \in Stream
               /\ file[offered.id] \in {"json", "dismissed"}
               /\ file' = [file EXCEPT ![offered.id] = "dismissed"]
               /\ granted' = granted \ {<<FALSE, offered.id>>}
               /\ consent' = consent \ {<<FALSE, offered.id>>}
<1>0. TypeOK /\ RecordInv /\ ItemsInv
  BY DEF IInv
<1> USE <1>0 DEF DismissOffered
<1>1. offered' = NoItem /\ offered # NoItem /\ UNCHANGED <<step, place, cursor, rare>>
  OBVIOUS
<1>2. offered \in Items /\ offered.manual \in BOOLEAN
  BY DEF TypeOK, Items
<1>3. CASE UNCHANGED <<file, manual, consent, granted>>
  BY <1>1, <1>3
<1>4. CASE ~UNCHANGED <<file, manual, consent, granted>> /\ offered.manual
  <2>1. /\ SetRecoveryDecision("dismissed", 0) /\ UNCHANGED file
        /\ granted' = {} /\ consent' \subseteq consent
    BY <1>4
  <2>2. manual'.req = manual.req /\ manual'.decision = "dismissed" /\ manual'.stream = 0
    BY <2>1, RewriteIs DEF Decisions
  <2>3. manual # NoRequest /\ manual' # NoRequest
    BY <1>4, <2>2 DEF ItemsInv, RecordInv, NoRequest
  <2> HIDE DEF DismissOffered
  <2> QED BY <1>1, <2>1, <2>2, <2>3
<1>5. CASE ~UNCHANGED <<file, manual, consent, granted>> /\ ~offered.manual
  <2>1. offered.manual = FALSE /\ offered.id \in Stream
    BY <1>1, <1>2, <1>5 DEF ItemsInv
  <2> QED BY <1>1, <1>2, <1>5, <2>1 DEF Identity
<1> QED BY <1>3, <1>4, <1>5

(* Once the older events are removed, the item and later consent remain. *)
LEMMA FinishAcceptDoes ==
  ASSUME IInv, FinishAccept
  PROVE  /\ UNCHANGED <<file, manual, cursor, place, rare>>
         /\ step = "cleaning" /\ step' = "none" /\ offered' = NoItem /\ todo = {}
         /\ item.id \in Stream /\ file[item.id] = "accepted"
         /\ "unread" \notin rare => manual = NoRequest
         /\ ok /\ manual = NoRequest =>
                 /\ consent' = {<<FALSE, item.id>>} \cup {i \in consent : i[2] > item.id}
                 /\ granted' = {<<FALSE, item.id>>} \cup
                       {i \in consent : i[2] > item.id /\ file[i[2]] = "accepted"}
         /\ ~ok => UNCHANGED <<consent, granted>>
<1>0. TypeOK /\ RecordInv /\ ItemsInv /\ StepInv
  BY DEF IInv
<1> USE <1>0 DEF FinishAccept
<1>1. /\ step = "cleaning" /\ step' = "none" /\ todo = {}
      /\ UNCHANGED <<file, manual, cursor, place, rare>>
  BY DEF files
<1>2. /\ item \in Items /\ item # NoItem /\ item.manual = FALSE /\ item.id \in Stream
      /\ file[item.id] = "accepted" /\ ("unread" \notin rare => manual = NoRequest)
  BY <1>1 DEF ItemsInv, TypeOK, Items, StepInv
<1>3. offered' = NoItem
  BY DEF Accepted, NotAccepted
<1>4. CASE ok /\ manual = NoRequest
  <2>1. Accepted(item)
    BY <1>4
  <2>2. consent' = {<<FALSE, item.id>>} \cup {i \in consent : i[2] > item.id}
    BY <1>2, <1>4, <2>1 DEF Accepted, Later, Identity
  <2>3. granted' = {<<FALSE, item.id>>} \cup
                       {i \in consent : i[2] > item.id /\ file[i[2]] = "accepted"}
    BY <1>2, <1>4, <2>1 DEF Accepted, Later, Identity
  <2> QED BY <1>1, <1>2, <1>3, <1>4, <2>2, <2>3
<1>5. CASE ~ok
  BY <1>1, <1>2, <1>3, <1>5 DEF NotAccepted
<1>6. CASE ok /\ manual # NoRequest
  BY <1>1, <1>2, <1>3, <1>6
<1> QED BY <1>4, <1>5, <1>6

(* Only what is not newer than a position that was taken is removed. *)
LEMMA StepNoSuggestionLost == IInv /\ [Next]_vars => NoSuggestionLost'
<1> SUFFICES ASSUME IInv, [Next]_vars PROVE NoSuggestionLost'
  OBVIOUS
<1>0. TypeOK /\ NoSuggestionLost /\ ItemsInv /\ TakenInv
  BY DEF IInv
<1> USE InboxAssumption, <1>0 DEF files, ghosts, Idle, TypeOK, NoSuggestionLost,
        TakenInv, ItemsInv, Stream, Marks
<1>1. ASSUME NEW n \in Stream, DeferPulled(n) PROVE NoSuggestionLost'
  BY <1>1 DEF DeferPulled, Happens
<1>2. CASE FetchProgress
  BY <1>2 DEF FetchProgress
<1>3. CASE OpenBook
  BY <1>3 DEF OpenBook
<1>4. CASE CloseBook
  BY <1>4 DEF CloseBook
<1>5. ASSUME NEW scan \in SUBSET Present, NEW record \in {manual, NoRequest},
             LoadBook(scan, record)
      PROVE  NoSuggestionLost'
  BY <1>5 DEF LoadBook, Reads, Apply
<1>6. ASSUME NEW scan \in SUBSET Present, NEW record \in {manual, NoRequest},
             Ask(scan, record)
      PROVE  NoSuggestionLost'
  BY <1>6 DEF Ask, Reads
<1>7. ASSUME NEW scan \in SUBSET Present, NEW listed \in BOOLEAN, Review(scan, listed)
      PROVE  NoSuggestionLost'
  BY <1>7 DEF Review, Happens
<1>8. CASE AcceptByRecord
  BY <1>8 DEF AcceptByRecord, Fails, Accepted, NotAccepted, Later, Apply, Identity,
     SetRecoveryDecision
<1>9. ASSUME NEW scan \in SUBSET Present, AcceptByRename(scan) PROVE NoSuggestionLost'
  BY <1>9 DEF AcceptByRename, Reads, Fails, NotAccepted, Identity, Older
<1>10. ASSUME NEW n \in Stream, RemoveOlder(n) PROVE NoSuggestionLost'
  BY <1>10 DEF RemoveOlder, Removed, Fails
<1>11. CASE FinishAccept
  BY <1>11 DEF FinishAccept, Accepted, NotAccepted, Later, Apply, Identity
<1>12. CASE DismissOffered
  BY <1>12 DEF DismissOffered, Fails, SetRecoveryDecision, Identity
<1>13. CASE ResolveManual
  BY <1>13 DEF ResolveManual, SetRecoveryDecision, Identity
<1>14. ASSUME NEW scan \in SUBSET Present, ResolveStream(scan) PROVE NoSuggestionLost'
  BY <1>14 DEF ResolveStream, Listing, Happens, Removed, Older
<1>15. CASE FinishResolve
  BY <1>15 DEF FinishResolve
<1>16. CASE PowerLoss
  BY <1>16 DEF PowerLoss
<1>17. CASE UNCHANGED vars
  BY <1>17 DEF vars
<1> QED
  BY <1>1, <1>2, <1>3, <1>4, <1>5, <1>6, <1>7, <1>8, <1>9, <1>10, <1>11, <1>12, <1>13,
     <1>14, <1>15, <1>16, <1>17 DEF Next

(* Only a request fills the record, and nothing empties it again. *)
LEMMA StepRecordInv == IInv /\ [Next]_vars => RecordInv'
<1> SUFFICES ASSUME IInv, [Next]_vars PROVE RecordInv'
  OBVIOUS
<1>0. TypeOK /\ RecordInv /\ ItemsInv
  BY DEF IInv
<1> USE InboxAssumption, <1>0 DEF files, ghosts, Idle, TypeOK, RecordInv, NoRequest,
        ItemsInv, Decisions
<1>1. ASSUME NEW n \in Stream, DeferPulled(n) PROVE RecordInv'
  BY <1>1 DEF DeferPulled, Happens
<1>2. CASE FetchProgress
  BY <1>2 DEF FetchProgress
<1>3. CASE OpenBook
  BY <1>3 DEF OpenBook
<1>4. CASE CloseBook
  BY <1>4 DEF CloseBook
<1>5. ASSUME NEW scan \in SUBSET Present, NEW record \in {manual, NoRequest},
             LoadBook(scan, record)
      PROVE  RecordInv'
  BY <1>5 DEF LoadBook, Reads, Apply
<1>6. ASSUME NEW scan \in SUBSET Present, NEW record \in {manual, NoRequest},
             Ask(scan, record)
      PROVE  RecordInv'
  BY <1>6 DEF Ask, Reads
<1>7. ASSUME NEW scan \in SUBSET Present, NEW listed \in BOOLEAN, Review(scan, listed)
      PROVE  RecordInv'
  BY <1>7 DEF Review, Happens
<1>8. CASE AcceptByRecord
  BY <1>8 DEF AcceptByRecord, Fails, Accepted, NotAccepted, Later, Apply, Identity,
     SetRecoveryDecision
<1>9. ASSUME NEW scan \in SUBSET Present, AcceptByRename(scan) PROVE RecordInv'
  BY <1>9 DEF AcceptByRename, Reads, Fails, NotAccepted, Identity, Older
<1>10. ASSUME NEW n \in Stream, RemoveOlder(n) PROVE RecordInv'
  BY <1>10 DEF RemoveOlder, Removed, Fails
<1>11. CASE FinishAccept
  BY <1>11 DEF FinishAccept, Accepted, NotAccepted, Later, Apply, Identity
<1>12. CASE DismissOffered
  BY <1>12 DEF DismissOffered, Fails, SetRecoveryDecision, Identity
<1>13. CASE ResolveManual
  BY <1>13 DEF ResolveManual, SetRecoveryDecision, Identity
<1>14. ASSUME NEW scan \in SUBSET Present, ResolveStream(scan) PROVE RecordInv'
  BY <1>14 DEF ResolveStream, Listing, Happens, Removed, Older
<1>15. CASE FinishResolve
  BY <1>15 DEF FinishResolve
<1>16. CASE PowerLoss
  BY <1>16 DEF PowerLoss
<1>17. CASE UNCHANGED vars
  BY <1>17 DEF vars
<1> QED
  BY <1>1, <1>2, <1>3, <1>4, <1>5, <1>6, <1>7, <1>8, <1>9, <1>10, <1>11, <1>12, <1>13,
     <1>14, <1>15, <1>16, <1>17 DEF Next

(* What is shown, applied or operated on stays an event or the request. *)
LEMMA StepItemsInv == IInv /\ [Next]_vars => ItemsInv'
<1> SUFFICES ASSUME IInv, [Next]_vars PROVE ItemsInv'
  OBVIOUS
<1>0. TypeOK /\ RecordInv /\ ItemsInv
  BY DEF IInv
<1> USE InboxAssumption, <1>0 DEF files, ghosts, Idle, TypeOK, ItemsInv, RecordInv,
        NoItem, Items, NoRequest
<1>1. ASSUME NEW n \in Stream, DeferPulled(n) PROVE ItemsInv'
  BY <1>1 DEF DeferPulled, Happens
<1>2. CASE FetchProgress
  BY <1>2 DEF FetchProgress
<1>3. CASE OpenBook
  BY <1>3 DEF OpenBook
<1>4. CASE CloseBook
  BY <1>4 DEF CloseBook
<1>5. ASSUME NEW scan \in SUBSET Present, NEW record \in {manual, NoRequest},
             LoadBook(scan, record)
      PROVE  ItemsInv'
  <2>1. applying' = applying \/ applying' = NextApplicable(scan, record)
    BY <1>5 DEF LoadBook, Apply
  <2>2. applying' # NoItem /\ ~applying'.manual => applying'.id \in Stream
    BY <2>1, ApplicableIs DEF Present
  <2> QED BY <1>5, <2>2 DEF LoadBook
<1>6. ASSUME NEW scan \in SUBSET Present, NEW record \in {manual, NoRequest},
             Ask(scan, record)
      PROVE  ItemsInv'
  <2>1. offered' = NextDecision(scan, record)
    BY <1>6 DEF Ask
  <2>2. /\ offered' # NoItem /\ ~offered'.manual => offered'.id \in Stream
        /\ offered'.manual => offered'.id = manual.req /\ manual # NoRequest
    BY <2>1, DecisionIs
  <2> QED BY <1>6, <2>2 DEF Ask
<1>7. ASSUME NEW scan \in SUBSET Present, NEW listed \in BOOLEAN, Review(scan, listed)
      PROVE  ItemsInv'
  <2>1. offered' = NextReview(scan, listed)
    BY <1>7 DEF Review
  <2>2. /\ offered' # NoItem /\ ~offered'.manual => offered'.id \in Stream
        /\ offered'.manual => offered'.id = manual.req /\ manual # NoRequest
    BY <2>1, ReviewIs
  <2> QED BY <1>7, <2>2 DEF Review
<1>8. CASE AcceptByRecord
  BY <1>8 DEF AcceptByRecord, Fails, Accepted, NotAccepted, Later, Apply, Identity,
     SetRecoveryDecision
<1>9. ASSUME NEW scan \in SUBSET Present, AcceptByRename(scan) PROVE ItemsInv'
  BY <1>9 DEF AcceptByRename, Reads, Fails, NotAccepted, Identity, Older
<1>10. ASSUME NEW n \in Stream, RemoveOlder(n) PROVE ItemsInv'
  BY <1>10 DEF RemoveOlder, Removed, Fails
<1>11. CASE FinishAccept
  BY <1>11 DEF FinishAccept, Accepted, NotAccepted, Later, Apply, Identity
<1>12. CASE DismissOffered
  BY <1>12 DEF DismissOffered, Fails, SetRecoveryDecision, Identity
<1>13. CASE ResolveManual
  BY <1>13 DEF ResolveManual, SetRecoveryDecision, Identity
<1>14. ASSUME NEW scan \in SUBSET Present, ResolveStream(scan) PROVE ItemsInv'
  BY <1>14 DEF ResolveStream, Listing, Happens, Removed, Older
<1>15. CASE FinishResolve
  BY <1>15 DEF FinishResolve
<1>16. CASE PowerLoss
  BY <1>16 DEF PowerLoss
<1>17. CASE UNCHANGED vars
  BY <1>17 DEF vars
<1> QED
  BY <1>1, <1>2, <1>3, <1>4, <1>5, <1>6, <1>7, <1>8, <1>9, <1>10, <1>11, <1>12, <1>13,
     <1>14, <1>15, <1>16, <1>17 DEF Next

(* A file becomes accepted, and an event is applied, when it was taken. *)
LEMMA StepTakenInv == IInv /\ [Next]_vars => TakenInv'
<1> SUFFICES ASSUME IInv, [Next]_vars PROVE TakenInv'
  OBVIOUS
<1>0. TypeOK /\ ItemsInv /\ TakenInv
  BY DEF IInv
<1> USE InboxAssumption, <1>0 DEF files, ghosts, Idle, TypeOK, TakenInv, ItemsInv,
        NoItem, Items, Stream, Marks, NoRequest
<1>1. ASSUME NEW n \in Stream, DeferPulled(n) PROVE TakenInv'
  BY <1>1 DEF DeferPulled, Happens
<1>2. CASE FetchProgress
  BY <1>2 DEF FetchProgress
<1>3. CASE OpenBook
  BY <1>3 DEF OpenBook
<1>4. CASE CloseBook
  BY <1>4 DEF CloseBook
<1>5. ASSUME NEW scan \in SUBSET Present, NEW record \in {manual, NoRequest},
             LoadBook(scan, record)
      PROVE  TakenInv'
  <2>1. applying' = applying \/ applying' = NextApplicable(scan, record)
    BY <1>5 DEF LoadBook, Apply
  <2>2. applying' # NoItem /\ ~applying'.manual => applying'.id \in taken
    BY <2>1, ApplicableIs DEF Present
  <2> QED BY <1>5, <2>2 DEF LoadBook
<1>6. ASSUME NEW scan \in SUBSET Present, NEW record \in {manual, NoRequest},
             Ask(scan, record)
      PROVE  TakenInv'
  BY <1>6 DEF Ask, Reads
<1>7. ASSUME NEW scan \in SUBSET Present, NEW listed \in BOOLEAN, Review(scan, listed)
      PROVE  TakenInv'
  BY <1>7 DEF Review, Happens
<1>8. CASE AcceptByRecord
  BY <1>8 DEF AcceptByRecord, Fails, Accepted, NotAccepted, Later, Apply, Identity,
     SetRecoveryDecision
<1>9. ASSUME NEW scan \in SUBSET Present, AcceptByRename(scan) PROVE TakenInv'
  <2>1. CASE step' = "cleaning"
    <3>1. /\ file' = [file EXCEPT ![offered.id] = "accepted"]
          /\ taken' = taken \cup {offered.id} /\ item' = offered
          /\ todo' = Older(offered.id, scan)
          /\ offered.id \in Stream /\ UNCHANGED <<manual, applying>>
      BY <1>9, <2>1 DEF AcceptByRename
    <3>2. \A n \in todo' : n <= offered.id
      BY <3>1 DEF Older, Present
    <3> QED BY <2>1, <3>1, <3>2
  <2>2. CASE step' # "cleaning"
    BY <1>9, <2>2 DEF AcceptByRename, NotAccepted
  <2> QED BY <2>1, <2>2
<1>10. ASSUME NEW n \in Stream, RemoveOlder(n) PROVE TakenInv'
  BY <1>10 DEF RemoveOlder, Removed, Fails
<1>11. CASE FinishAccept
  BY <1>11 DEF FinishAccept, Accepted, NotAccepted, Later, Apply, Identity
<1>12. CASE DismissOffered
  BY <1>12 DEF DismissOffered, Fails, SetRecoveryDecision, Identity
<1>13. CASE ResolveManual
  BY <1>13 DEF ResolveManual, SetRecoveryDecision, Identity
<1>14. ASSUME NEW scan \in SUBSET Present, ResolveStream(scan) PROVE TakenInv'
  <2>1. /\ step' = "sweeping" /\ item' = applying /\ applying.id \in taken
        /\ UNCHANGED <<taken, manual, applying>>
    BY <1>14 DEF ResolveStream
  <2>2. \A n \in Stream : file'[n] = "accepted" => file[n] = "accepted"
    BY <1>14 DEF ResolveStream, Removed
  <2>3. \A n \in todo' : n <= applying.id
    <3>1. todo' \subseteq Older(applying.id, scan) \cup {applying.id}
      BY <1>14 DEF ResolveStream
    <3>2. \A n \in Older(applying.id, scan) : n \in Stream /\ n < applying.id
      BY DEF Older, Present
    <3>3. applying.id \in Nat
      BY <1>14 DEF ResolveStream
    <3> QED BY <3>1, <3>2, <3>3
  <2> QED BY <2>1, <2>2, <2>3
<1>15. CASE FinishResolve
  BY <1>15 DEF FinishResolve
<1>16. CASE PowerLoss
  BY <1>16 DEF PowerLoss
<1>17. CASE UNCHANGED vars
  BY <1>17 DEF vars
<1> HIDE InboxAssumption, <1>0
<1> HIDE DEF TypeOK, TakenInv, ItemsInv, NoItem, Items, Stream, Marks, NoRequest
<1> QED
  BY <1>1, <1>2, <1>3, <1>4, <1>5, <1>6, <1>7, <1>8, <1>9, <1>10, <1>11, <1>12, <1>13,
     <1>14, <1>15, <1>16, <1>17 DEF Next

(* An operation of several storage calls keeps to its item. *)
LEMMA StepStepInv == IInv /\ [Next]_vars => StepInv'
<1> SUFFICES ASSUME IInv, [Next]_vars PROVE StepInv'
  OBVIOUS
<1>0. TypeOK /\ ItemsInv /\ TakenInv /\ StepInv
  BY DEF IInv
<1> USE InboxAssumption, <1>0 DEF files, ghosts, Idle, TypeOK, StepInv, TakenInv,
        ItemsInv, Stream, Marks, NoRequest, Present
<1>1. ASSUME NEW n \in Stream, DeferPulled(n) PROVE StepInv'
  BY <1>1 DEF DeferPulled, Happens
<1>2. CASE FetchProgress
  BY <1>2 DEF FetchProgress
<1>3. CASE OpenBook
  BY <1>3 DEF OpenBook
<1>4. CASE CloseBook
  BY <1>4 DEF CloseBook
<1>5. ASSUME NEW scan \in SUBSET Present, NEW record \in {manual, NoRequest},
             LoadBook(scan, record)
      PROVE  StepInv'
  BY <1>5 DEF LoadBook, Reads, Apply
<1>6. ASSUME NEW scan \in SUBSET Present, NEW record \in {manual, NoRequest},
             Ask(scan, record)
      PROVE  StepInv'
  BY <1>6 DEF Ask, Reads
<1>7. ASSUME NEW scan \in SUBSET Present, NEW listed \in BOOLEAN, Review(scan, listed)
      PROVE  StepInv'
  BY <1>7 DEF Review, Happens
<1>8. CASE AcceptByRecord
  BY <1>8 DEF AcceptByRecord, Fails, Accepted, NotAccepted, Later, Apply, Identity,
     SetRecoveryDecision
<1>9. ASSUME NEW scan \in SUBSET Present, AcceptByRename(scan) PROVE StepInv'
  <2>1. CASE step' = "cleaning"
    <3>1. /\ file' = [file EXCEPT ![offered.id] = "accepted"]
          /\ item' = offered /\ offered.id \in Stream
          /\ todo' = Older(offered.id, scan)
          /\ "unread" \notin rare' => manual = NoRequest
          /\ UNCHANGED manual
          /\ scan = Present \/ "scan" \in rare'
      BY <1>9, <2>1 DEF AcceptByRename, Reads
    <3>2. offered.id \notin todo'
      BY <3>1 DEF Older
    <3>3. ASSUME "scan" \notin rare', NEW n \in Stream \ todo', n <= offered.id, n # offered.id
          PROVE  file'[n] = "none"
      BY <3>1, <3>3 DEF Older
    <3> QED BY <2>1, <3>1, <3>2, <3>3
  <2>2. CASE step' # "cleaning"
    BY <1>9, <2>2 DEF AcceptByRename, NotAccepted
  <2> QED BY <2>1, <2>2
<1>10. ASSUME NEW n \in Stream, RemoveOlder(n) PROVE StepInv'
  BY <1>10 DEF RemoveOlder, Removed, Fails
<1>11. CASE FinishAccept
  BY <1>11 DEF FinishAccept, Accepted, NotAccepted, Later, Apply, Identity
<1>12. CASE DismissOffered
  BY <1>12 DEF DismissOffered, Fails, SetRecoveryDecision, Identity
<1>13. CASE ResolveManual
  BY <1>13 DEF ResolveManual, SetRecoveryDecision, Identity
<1>14. ASSUME NEW scan \in SUBSET Present, ResolveStream(scan) PROVE StepInv'
  <2>1. /\ step' = "sweeping" /\ item' = applying /\ applying.id \in Stream
        /\ offered' = NoItem
        /\ granted' = {i \in granted : i[1] \/ i[2] > applying.id}
        /\ file' = [file EXCEPT ![applying.id] = Removed(applying.id)]
        /\ Older(applying.id, scan) \subseteq todo'
        /\ scan = Present \/ "scan" \in rare'
    BY <1>14 DEF ResolveStream, Listing, Happens
  <2>2. file'[applying.id] \in {"none", "dismissed"}
    BY <2>1 DEF Removed
  <2>3. ASSUME "scan" \notin rare', NEW n \in Stream \ todo', n <= applying.id, n # applying.id
        PROVE  file'[n] = "none"
    BY <2>1, <2>3 DEF Older
  <2> QED BY <2>1, <2>2, <2>3
<1>15. CASE FinishResolve
  BY <1>15 DEF FinishResolve
<1>16. CASE PowerLoss
  BY <1>16 DEF PowerLoss
<1>17. CASE UNCHANGED vars
  BY <1>17 DEF vars
<1> QED
  BY <1>1, <1>2, <1>3, <1>4, <1>5, <1>6, <1>7, <1>8, <1>9, <1>10, <1>11, <1>12, <1>13,
     <1>14, <1>15, <1>16, <1>17 DEF Next

(* Nothing becomes applicable without consent, and consent is only given up with
   the file or the record that carries it. *)
LEMMA StepConsentInv == IInv /\ [Next]_vars => ConsentInv'
<1> SUFFICES ASSUME IInv, [Next]_vars PROVE ConsentInv'
  OBVIOUS
<1>0. TypeOK /\ RecordInv /\ ItemsInv /\ StepInv /\ ConsentInv
  BY DEF IInv
<1> USE InboxAssumption, <1>0 DEF files, ghosts, Idle, TypeOK, ConsentInv, StepInv,
        ItemsInv, RecordInv, Stream, Marks, NoRequest
<1>1. ASSUME NEW n \in Stream, DeferPulled(n) PROVE ConsentInv'
  BY <1>1 DEF DeferPulled, Happens
<1>2. CASE FetchProgress
  BY <1>2 DEF FetchProgress
<1>3. CASE OpenBook
  BY <1>3 DEF OpenBook
<1>4. CASE CloseBook
  BY <1>4 DEF CloseBook
<1>5. ASSUME NEW scan \in SUBSET Present, NEW record \in {manual, NoRequest},
             LoadBook(scan, record)
      PROVE  ConsentInv'
  BY <1>5 DEF LoadBook, Reads, Apply
<1>6. ASSUME NEW scan \in SUBSET Present, NEW record \in {manual, NoRequest},
             Ask(scan, record)
      PROVE  ConsentInv'
  BY <1>6 DEF Ask, Reads
<1>7. ASSUME NEW scan \in SUBSET Present, NEW listed \in BOOLEAN, Review(scan, listed)
      PROVE  ConsentInv'
  BY <1>7 DEF Review, Happens
<1>8. CASE AcceptByRecord
  BY <1>8, AcceptByRecordDoes
<1>9. ASSUME NEW scan \in SUBSET Present, AcceptByRename(scan) PROVE ConsentInv'
  <2>1. /\ "scan" \notin rare' => "scan" \notin rare
        /\ "unread" \notin rare' => "unread" \notin rare
    BY <1>9, AcceptByRenameDoes
  <2>2. CASE UNCHANGED <<file, consent>>
    BY <1>9, <2>1, <2>2, AcceptByRenameDoes
  <2>3. CASE ~UNCHANGED <<file, consent>>
    <3>1. /\ file' = [file EXCEPT ![offered.id] = "accepted"]
          /\ consent' = consent \cup {<<FALSE, offered.id>>}
      BY <1>9, <2>3, AcceptByRenameDoes
    <3>2. UNCHANGED manual
      BY <1>9, AcceptByRenameDoes
    <3> QED BY <2>1, <3>1, <3>2
  <2> QED BY <2>2, <2>3
<1>10. ASSUME NEW n \in Stream, RemoveOlder(n) PROVE ConsentInv'
  BY <1>10 DEF RemoveOlder, Removed, Fails
<1>11. CASE FinishAccept
  <2>1. CASE ok
    <3>1. "unread" \notin rare => manual.decision # "accepted"
      <4>1. "unread" \notin rare => manual = NoRequest
        BY <1>11, FinishAcceptDoes
      <4> QED BY <4>1
    <3>2. ASSUME "scan" \notin rare, NEW n \in Stream, file[n] = "accepted"
          PROVE  n >= item.id
      <4>1. step = "cleaning" /\ todo = {} /\ item.id \in Stream
        BY <1>11, FinishAcceptDoes
      <4> QED BY <2>1, <3>2, <4>1
    <3>3. ASSUME "scan" \notin rare, manual = NoRequest, NEW n \in Stream, file[n] = "accepted"
          PROVE  <<FALSE, n>> \in consent'
      <4>1. item.id \in Stream
        BY <1>11, FinishAcceptDoes
      <4>2. <<FALSE, n>> \in consent
        BY <3>3
      <4>3. consent' = {<<FALSE, item.id>>} \cup {i \in consent : i[2] > item.id}
        BY <1>11, <2>1, <3>3, FinishAcceptDoes
      <4>4. n = item.id \/ n > item.id
        BY <3>2, <3>3, <4>1
      <4> QED BY <4>2, <4>3, <4>4
    <3>4. UNCHANGED <<file, manual, rare>>
      BY <1>11, FinishAcceptDoes
    <3> QED BY <3>1, <3>3, <3>4
  <2>2. CASE ~ok
    <3>1. UNCHANGED <<file, manual, rare, consent>>
      BY <1>11, <2>2, FinishAcceptDoes
    <3> QED BY <3>1
  <2> QED BY <2>1, <2>2
<1>12. CASE DismissOffered
  <2>1. CASE UNCHANGED <<file, manual, consent>>
    BY <1>12, <2>1, DismissDoes
  <2>2. CASE manual'.decision = "dismissed" /\ manual' # NoRequest
    BY <2>2
  <2>3. CASE /\ UNCHANGED manual /\ offered.id \in Stream
             /\ file' = [file EXCEPT ![offered.id] = "dismissed"]
             /\ consent' = consent \ {<<FALSE, offered.id>>}
    <3>1. rare' = rare
      BY <1>12, DismissDoes
    <3>2. "unread" \notin rare /\ manual.decision = "accepted" => <<TRUE, manual.req>> \in consent'
      BY <2>3
    <3>3. ASSUME "scan" \notin rare, manual = NoRequest, NEW n \in Stream, file'[n] = "accepted"
          PROVE  <<FALSE, n>> \in consent'
      <4>1. n # offered.id /\ file[n] = "accepted"
        BY <2>3, <3>3
      <4> QED BY <2>3, <3>3, <4>1
    <3> QED BY <2>3, <3>1, <3>2, <3>3
  <2> QED BY <1>12, <2>1, <2>2, <2>3, DismissDoes
<1>13. CASE ResolveManual
  BY <1>13 DEF ResolveManual, SetRecoveryDecision, Identity
<1>14. ASSUME NEW scan \in SUBSET Present, ResolveStream(scan) PROVE ConsentInv'
  BY <1>14 DEF ResolveStream, Listing, Happens, Removed, Older
<1>15. CASE FinishResolve
  <2>1. UNCHANGED <<file, manual, rare>> /\ step = "sweeping" /\ todo = {}
    BY <1>15 DEF FinishResolve
  <2>2. CASE ok
    <3>1. consent' = {i \in consent : i[1] \/ i[2] > item.id} /\ item.id \in Stream
      BY <1>15, <2>1, <2>2 DEF FinishResolve
    <3>2. "unread" \notin rare /\ manual.decision = "accepted" => <<TRUE, manual.req>> \in consent'
      BY <3>1
    <3>3. ASSUME "scan" \notin rare, manual = NoRequest, NEW n \in Stream, file[n] = "accepted"
          PROVE  <<FALSE, n>> \in consent'
      <4>1. n > item.id
        BY <2>1, <2>2, <3>1, <3>3
      <4>2. <<FALSE, n>> \in consent
        BY <3>3
      <4> QED BY <3>1, <4>1, <4>2
    <3> QED BY <2>1, <3>2, <3>3
  <2>3. CASE ~ok
    <3>1. consent' = consent
      BY <1>15, <2>3 DEF FinishResolve
    <3> QED BY <2>1, <3>1
  <2> QED BY <2>2, <2>3
<1>16. CASE PowerLoss
  BY <1>16 DEF PowerLoss
<1>17. CASE UNCHANGED vars
  BY <1>17 DEF vars
<1> QED
  BY <1>1, <1>2, <1>3, <1>4, <1>5, <1>6, <1>7, <1>8, <1>9, <1>10, <1>11, <1>12, <1>13,
     <1>14, <1>15, <1>16, <1>17 DEF Next

(* What decides the next opening is only replaced by what was accepted later: a
   removal never reaches the newest accepted event before it is resolved. *)
LEMMA StepGrantedInv == IInv /\ [Next]_vars => GrantedInv'
<1> SUFFICES ASSUME IInv, [Next]_vars PROVE GrantedInv'
  OBVIOUS
<1>0. TypeOK /\ RecordInv /\ ItemsInv /\ TakenInv /\ StepInv /\ ConsentInv /\ GrantedInv
  BY DEF IInv
<1> USE InboxAssumption, <1>0 DEF files, ghosts, Idle, TypeOK, GrantedInv, ConsentInv,
        StepInv, TakenInv, ItemsInv, RecordInv, Stream, Marks, NoRequest
<1>1. ASSUME NEW n \in Stream, DeferPulled(n) PROVE GrantedInv'
  BY <1>1 DEF DeferPulled, Happens
<1>2. CASE FetchProgress
  BY <1>2 DEF FetchProgress
<1>3. CASE OpenBook
  BY <1>3 DEF OpenBook
<1>4. CASE CloseBook
  BY <1>4 DEF CloseBook
<1>5. ASSUME NEW scan \in SUBSET Present, NEW record \in {manual, NoRequest},
             LoadBook(scan, record)
      PROVE  GrantedInv'
  BY <1>5 DEF LoadBook, Reads, Apply
<1>6. ASSUME NEW scan \in SUBSET Present, NEW record \in {manual, NoRequest},
             Ask(scan, record)
      PROVE  GrantedInv'
  BY <1>6 DEF Ask, Reads
<1>7. ASSUME NEW scan \in SUBSET Present, NEW listed \in BOOLEAN, Review(scan, listed)
      PROVE  GrantedInv'
  BY <1>7 DEF Review, Happens
<1>8. CASE AcceptByRecord
  <2>1. UNCHANGED <<file, rare>> /\ manual' # NoRequest
    BY <1>8, AcceptByRecordDoes
  <2>2. CASE UNCHANGED <<manual, granted>>
    BY <2>1, <2>2
  <2>3. CASE manual'.decision = "accepted" /\ granted' = {<<TRUE, manual'.req>>}
    BY <2>1, <2>3
  <2>4. CASE /\ manual'.stream # 0 /\ file[manual'.stream] # "none"
             /\ granted' = {<<FALSE, manual'.stream>>}
    BY <2>1, <2>4
  <2>5. offered.id \in Stream => offered.id # 0
    OBVIOUS
  <2> QED BY <1>8, <2>2, <2>3, <2>4, <2>5, AcceptByRecordDoes
<1>9. ASSUME NEW scan \in SUBSET Present, AcceptByRename(scan) PROVE GrantedInv'
  <2>1. /\ UNCHANGED manual /\ rare \subseteq rare'
        /\ "unread" \notin rare' => manual = NoRequest
    BY <1>9, AcceptByRenameDoes
  <2>2. CASE UNCHANGED <<file, granted>>
    BY <2>1, <2>2
  <2>3. CASE /\ offered.id \in Stream
             /\ file' = [file EXCEPT ![offered.id] = "accepted"]
             /\ granted' = IF granted = {} THEN {} ELSE granted \cup {<<FALSE, offered.id>>}
    <3>1. SUFFICES ASSUME "scan" \notin rare', "unread" \notin rare', granted' # {}
                   PROVE  GrantedInv'
      BY DEF GrantedInv
    <3>2. /\ "scan" \notin rare /\ "unread" \notin rare /\ granted # {} /\ manual = NoRequest
          /\ granted' = granted \cup {<<FALSE, offered.id>>}
      BY <2>1, <2>3, <3>1
    <3>3. PICK w \in Stream :
             /\ file[w] = "accepted"
             /\ \A m \in Stream : file[m] = "accepted" => m <= w
             /\ <<FALSE, w>> \in granted
             /\ \A i \in granted : ~i[1] /\ i[2] <= w
      BY <3>2
    <3>4. \A m \in Stream : file'[m] = "accepted" <=> file[m] = "accepted" \/ m = offered.id
      BY <2>3
    <3>5. \A i \in granted' : i \in granted \/ i = <<FALSE, offered.id>>
      BY <3>2
    <3>6. CASE w >= offered.id
      <4>1. \A m \in Stream : file'[m] = "accepted" => m <= w
        BY <3>3, <3>4, <3>6
      <4>2. ASSUME NEW i \in granted' PROVE ~i[1] /\ i[2] <= w
        <5>1. CASE i \in granted
          BY <3>3, <5>1
        <5>2. CASE i = <<FALSE, offered.id>>
          BY <3>6, <5>2
        <5> QED BY <3>5, <5>1, <5>2
      <4>3. file'[w] = "accepted" /\ <<FALSE, w>> \in granted'
        BY <3>2, <3>3, <3>4
      <4> QED BY <2>1, <3>2, <4>1, <4>2, <4>3
    <3>7. CASE w < offered.id
      <4>1. \A m \in Stream : file'[m] = "accepted" => m <= offered.id
        BY <2>3, <3>3, <3>4, <3>7
      <4>2. ASSUME NEW i \in granted' PROVE ~i[1] /\ i[2] <= offered.id
        <5>1. CASE i \in granted
          <6>1. ~i[1] /\ i[2] <= w /\ i[2] \in Nat
            BY <3>3, <5>1
          <6> QED BY <2>3, <3>7, <6>1
        <5>2. CASE i = <<FALSE, offered.id>>
          BY <2>3, <5>2
        <5> QED BY <3>5, <5>1, <5>2
      <4>3. file'[offered.id] = "accepted" /\ <<FALSE, offered.id>> \in granted'
        BY <2>3, <3>2, <3>4
      <4> QED BY <2>1, <2>3, <3>2, <4>1, <4>2, <4>3
    <3>8. w >= offered.id \/ w < offered.id
      BY <2>3, <3>3
    <3> QED BY <3>6, <3>7, <3>8
  <2> QED BY <1>9, <2>2, <2>3, AcceptByRenameDoes
<1>10. ASSUME NEW n \in Stream, RemoveOlder(n) PROVE GrantedInv'
  <2>1. /\ UNCHANGED <<manual, granted, rare>> /\ step # "none"
        /\ n \in todo /\ n <= item.id /\ item.id \in Stream
        /\ file' = file \/ file' = [file EXCEPT ![n] = Removed(n)]
    BY <1>10 DEF RemoveOlder
  <2>2. \A m \in Stream : file'[m] = "accepted" => file[m] = "accepted"
    BY <2>1 DEF Removed
  <2>3. SUFFICES ASSUME "scan" \notin rare, "unread" \notin rare, granted # {} PROVE GrantedInv'
    BY <2>1 DEF GrantedInv
  <2>4. CASE manual = NoRequest
    <3>1. PICK w \in Stream :
             /\ file[w] = "accepted"
             /\ \A m \in Stream : file[m] = "accepted" => m <= w
             /\ <<FALSE, w>> \in granted
             /\ \A i \in granted : ~i[1] /\ i[2] <= w
      BY <2>3, <2>4
    <3>2. w # n
      <4>1. CASE step = "cleaning"
        <5>1. file[item.id] = "accepted" /\ item.id # n
          BY <2>1, <4>1
        <5>2. item.id <= w
          BY <2>1, <3>1, <5>1
        <5> QED BY <2>1, <5>1, <5>2
      <4>2. CASE step = "sweeping"
        <5>1. w > item.id
          BY <3>1, <4>2
        <5> QED BY <2>1, <5>1
      <4> QED BY <2>1, <4>1, <4>2
    <3>3. file'[w] = "accepted"
      BY <2>1, <3>1, <3>2
    <3> QED BY <2>1, <2>2, <2>4, <3>1, <3>3
  <2>5. CASE manual # NoRequest
    <3>1. step = "sweeping"
      BY <2>1, <2>3, <2>5
    <3>2. ASSUME manual.stream # 0, granted = {<<FALSE, manual.stream>>}
          PROVE  file'[manual.stream] = file[manual.stream]
      <4>1. manual.stream > item.id /\ manual.stream \in Stream
        BY <3>1, <3>2
      <4> QED BY <2>1, <4>1
    <3> QED BY <2>1, <2>3, <2>5, <3>2
  <2> QED BY <2>4, <2>5
<1>11. CASE FinishAccept
  <2>1. /\ UNCHANGED <<file, manual, rare>> /\ todo = {}
        /\ "unread" \notin rare => manual = NoRequest
    BY <1>11, FinishAcceptDoes
  <2>2. step = "cleaning" /\ item.id \in Stream /\ file[item.id] = "accepted"
    BY <1>11, FinishAcceptDoes
  <2>3. CASE ~ok
    <3>1. granted' = granted
      BY <1>11, <2>3, FinishAcceptDoes
    <3> QED BY <2>1, <3>1
  <2>4. CASE ok
    <3>2. SUFFICES ASSUME "scan" \notin rare, "unread" \notin rare PROVE GrantedInv'
      BY <2>1 DEF GrantedInv
    <3>1. granted' = {<<FALSE, item.id>>} \cup
                       {i \in consent : i[2] > item.id /\ file[i[2]] = "accepted"}
      BY <1>11, <2>1, <2>4, <3>2, FinishAcceptDoes
    <3> DEFINE found == {n \in Stream : file[n] = "accepted"}
               w == Max0(found)
    <3>3. w \in found /\ \A m \in found : m <= w
      <4>1. found \in SUBSET Stream /\ found # {}
        BY <2>2
      <4> QED BY <4>1, MaxIs
    <3> HIDE DEF w
    <3>4. item.id <= w
      BY <2>2, <3>3
    <3>5. <<FALSE, w>> \in granted'
      <4>1. CASE w = item.id
        BY <3>1, <4>1
      <4>2. CASE w # item.id
        <5>1. <<FALSE, w>> \in consent
          BY <2>1, <3>2, <3>3
        <5>2. w > item.id
          <6>1. w \in Stream
            BY <3>3
          <6> QED BY <2>2, <3>4, <4>2, <6>1
        <5> QED BY <3>1, <3>3, <5>1, <5>2
      <4> QED BY <4>1, <4>2
    <3>6. ASSUME NEW i \in granted' PROVE ~i[1] /\ i[2] <= w
      <4>1. CASE i = <<FALSE, item.id>>
        BY <3>4, <4>1
      <4>2. CASE i # <<FALSE, item.id>>
        <5>1. i \in consent /\ file[i[2]] = "accepted"
          BY <3>1, <4>2
        <5>2. ~i[1]
          BY <2>1, <3>2, <5>1
        <5>3. i[2] \in found
          BY <5>1, <5>2
        <5> QED BY <3>3, <5>2, <5>3
      <4> QED BY <4>1, <4>2
    <3> QED BY <2>1, <3>3, <3>5, <3>6
  <2> QED BY <2>3, <2>4
<1>12. CASE DismissOffered
  <2>1. rare' = rare
    BY <1>12, DismissDoes
  <2>2. CASE UNCHANGED <<file, manual, granted>>
    BY <2>1, <2>2
  <2>3. CASE granted' = {}
    BY <2>3
  <2>4. CASE /\ UNCHANGED manual /\ offered.id \in Stream
             /\ file[offered.id] \in {"json", "dismissed"}
             /\ file' = [file EXCEPT ![offered.id] = "dismissed"]
             /\ granted' = granted \ {<<FALSE, offered.id>>}
    <3>1. \A m \in Stream : file'[m] = "accepted" <=> file[m] = "accepted"
      BY <2>4
    <3>2. SUFFICES ASSUME "scan" \notin rare, "unread" \notin rare, granted # {}, granted' # {}
                   PROVE  GrantedInv'
      BY <2>1, <2>4 DEF GrantedInv
    <3>3. CASE manual = NoRequest
      <4>1. PICK w \in Stream :
               /\ file[w] = "accepted"
               /\ \A m \in Stream : file[m] = "accepted" => m <= w
               /\ <<FALSE, w>> \in granted
               /\ \A i \in granted : ~i[1] /\ i[2] <= w
        BY <3>2, <3>3
      <4>2. <<FALSE, w>> \in granted'
        BY <2>4, <4>1
      <4> QED BY <2>4, <3>1, <3>3, <4>1, <4>2
    <3>4. CASE manual # NoRequest
      <4>1. ASSUME manual.stream # 0, file[manual.stream] # "none",
                   granted = {<<FALSE, manual.stream>>}
            PROVE  file'[manual.stream] # "none" /\ granted' = granted
        <5>1. offered.id # manual.stream
          <6>1. CASE offered.id = manual.stream
            <7>1. granted' = {}
              BY <2>4, <4>1, <6>1
            <7> QED BY <3>2, <7>1
          <6> QED BY <6>1
        <5>2. <<FALSE, offered.id>> # <<FALSE, manual.stream>>
          BY <5>1
        <5>3. granted' = granted
          BY <2>4, <4>1, <5>2
        <5> QED BY <2>4, <4>1, <5>1, <5>3
      <4>2. ASSUME granted = {<<TRUE, manual.req>>} PROVE granted' = granted
        <5>1. <<FALSE, offered.id>> # <<TRUE, manual.req>>
          OBVIOUS
        <5> QED BY <2>4, <4>2, <5>1
      <4> QED BY <2>4, <3>2, <3>4, <4>1, <4>2
    <3> QED BY <3>3, <3>4
  <2> QED BY <1>12, <2>2, <2>3, <2>4, DismissDoes
<1>13. CASE ResolveManual
  <2>1. /\ manual.decision \in {"accepted", "resolved"} /\ UNCHANGED <<file, rare>>
        /\ applying.id = manual.req /\ applying.manual
        /\ granted' = granted \ {Identity(applying)}
    BY <1>13 DEF ResolveManual
  <2>2. Identity(applying) = <<TRUE, manual.req>>
    BY <2>1 DEF Identity, Items
  <2>3. manual # NoRequest /\ manual.stream = 0
    BY <2>1
  <2>4. "scan" \notin rare' /\ "unread" \notin rare' => granted' = {}
    BY <2>1, <2>2, <2>3
  <2> QED BY <2>4
<1>14. ASSUME NEW scan \in SUBSET Present, ResolveStream(scan) PROVE GrantedInv'
  <2>1. /\ UNCHANGED manual /\ applying.id \in Stream
        /\ rare \subseteq rare'
        /\ granted' = {i \in granted : i[1] \/ i[2] > applying.id}
        /\ file' = [file EXCEPT ![applying.id] = Removed(applying.id)]
    BY <1>14 DEF ResolveStream, Listing, Happens
  <2>2. \A m \in Stream : file'[m] = "accepted" => file[m] = "accepted"
    BY <2>1 DEF Removed
  <2>3. SUFFICES ASSUME "scan" \notin rare, "unread" \notin rare, granted' # {} PROVE GrantedInv'
    BY <2>1 DEF GrantedInv
  <2>4. CASE manual = NoRequest
    <3>1. PICK w \in Stream :
             /\ file[w] = "accepted"
             /\ \A m \in Stream : file[m] = "accepted" => m <= w
             /\ <<FALSE, w>> \in granted
             /\ \A i \in granted : ~i[1] /\ i[2] <= w
      BY <2>1, <2>3, <2>4
    <3>2. w > applying.id
      <4>1. PICK i \in granted : i[2] > applying.id
        BY <2>1, <2>3, <3>1
      <4>2. i[2] <= w /\ i[2] \in Nat
        BY <3>1
      <4> QED BY <2>1, <4>1, <4>2
    <3>3. file'[w] = "accepted" /\ <<FALSE, w>> \in granted'
      BY <2>1, <3>1, <3>2
    <3> QED BY <2>1, <2>2, <2>4, <3>1, <3>3
  <2>5. CASE manual # NoRequest
    <3>1. CASE granted = {<<TRUE, manual.req>>} /\ manual.decision = "accepted"
      <4>1. granted' = granted
        BY <2>1, <3>1
      <4> QED BY <2>1, <2>5, <3>1, <4>1
    <3>2. CASE /\ granted = {<<FALSE, manual.stream>>} /\ manual.stream # 0
               /\ file[manual.stream] # "none"
      <4>1. manual.stream > applying.id /\ granted' = granted
        <5>1. PICK i \in granted : i[1] \/ i[2] > applying.id
          BY <2>1, <2>3
        <5>2. i = <<FALSE, manual.stream>>
          BY <3>2, <5>1
        <5>3. manual.stream > applying.id
          BY <5>1, <5>2
        <5>4. \A j \in granted : j[2] > applying.id
          BY <3>2, <5>3
        <5>5. granted' = granted
          BY <2>1, <5>4
        <5> QED BY <5>3, <5>5
      <4>2. file'[manual.stream] = file[manual.stream]
        BY <2>1, <3>2, <4>1
      <4> QED BY <2>1, <2>5, <3>2, <4>1, <4>2
    <3> QED BY <2>1, <2>3, <2>5, <3>1, <3>2
  <2> QED BY <2>4, <2>5
<1>15. CASE FinishResolve
  BY <1>15 DEF FinishResolve
<1>16. CASE PowerLoss
  BY <1>16 DEF PowerLoss
<1>17. CASE UNCHANGED vars
  BY <1>17 DEF vars
<1> QED
  BY <1>1, <1>2, <1>3, <1>4, <1>5, <1>6, <1>7, <1>8, <1>9, <1>10, <1>11, <1>12, <1>13,
     <1>14, <1>15, <1>16, <1>17 DEF Next

(* As long as nothing rare happens, what a prompt shows is undecided until the
   reader answers. *)
LEMMA StepOrdinaryInv == IInv /\ [Next]_vars => OrdinaryInv'
<1> SUFFICES ASSUME IInv, [Next]_vars PROVE OrdinaryInv'
  OBVIOUS
<1>0. TypeOK /\ RecordInv /\ ItemsInv /\ StepInv /\ OrdinaryInv
  BY DEF IInv
<1> USE InboxAssumption, <1>0 DEF files, ghosts, Idle, TypeOK, OrdinaryInv, StepInv,
        ItemsInv, RecordInv, Stream, Marks, NoRequest
<1>1. ASSUME NEW n \in Stream, DeferPulled(n) PROVE OrdinaryInv'
  BY <1>1 DEF DeferPulled, Happens
<1>2. CASE FetchProgress
  BY <1>2 DEF FetchProgress
<1>3. CASE OpenBook
  BY <1>3 DEF OpenBook
<1>4. CASE CloseBook
  BY <1>4 DEF CloseBook
<1>5. ASSUME NEW scan \in SUBSET Present, NEW record \in {manual, NoRequest},
             LoadBook(scan, record)
      PROVE  OrdinaryInv'
  BY <1>5 DEF LoadBook, Reads, Apply
<1>6. ASSUME NEW scan \in SUBSET Present, NEW record \in {manual, NoRequest},
             Ask(scan, record)
      PROVE  OrdinaryInv'
  <2>1. /\ offered' = NextDecision(scan, record) /\ place' = "reading"
        /\ UNCHANGED <<file, manual, cursor, consent>>
        /\ rare' = {} => rare = {} /\ record = manual
    BY <1>6 DEF Ask, Reads
  <2>2. offered' # NoItem /\ ~offered'.manual => /\ file[offered'.id] = "json"
                                                 /\ offered'.id # record.stream
                                                 /\ ~offered'.dismissed
    BY <2>1, DecisionIs
  <2> QED BY <2>1, <2>2
<1>7. ASSUME NEW scan \in SUBSET Present, NEW listed \in BOOLEAN, Review(scan, listed)
      PROVE  OrdinaryInv'
  BY <1>7 DEF Review, Happens
<1>8. CASE AcceptByRecord
  <2>1. UNCHANGED <<file, cursor, rare>> /\ offered' = NoItem /\ step = "none"
    BY <1>8, AcceptByRecordDoes DEF AcceptByRecord
  <2>2. CASE UNCHANGED <<manual, consent>>
    BY <2>1, <2>2
  <2>3. CASE manual'.stream = 0
    BY <2>1, <2>3
  <2>4. CASE /\ offered # NoItem /\ ~offered.manual /\ offered.id \in Stream
             /\ file[offered.id] # "none"
             /\ manual'.stream = offered.id /\ consent' = {<<FALSE, offered.id>>}
    <3>1. rare = {} => offered.id <= cursor /\ file[offered.id] = "json"
      BY <2>1, <2>4
    <3> QED BY <2>1, <2>4, <3>1
  <2> QED BY <1>8, <2>2, <2>3, <2>4, AcceptByRecordDoes
<1>9. ASSUME NEW scan \in SUBSET Present, AcceptByRename(scan) PROVE OrdinaryInv'
  BY <1>9 DEF AcceptByRename, Reads, Fails, NotAccepted, Identity, Older
<1>10. ASSUME NEW n \in Stream, RemoveOlder(n) PROVE OrdinaryInv'
  BY <1>10 DEF RemoveOlder, Removed, Fails
<1>11. CASE FinishAccept
  BY <1>11 DEF FinishAccept, Accepted, NotAccepted, Later, Apply, Identity
<1>12. CASE DismissOffered
  <2>1. UNCHANGED <<cursor, rare>> /\ offered' = NoItem /\ step = "none"
    BY <1>12, DismissDoes DEF DismissOffered
  <2>2. CASE UNCHANGED <<file, manual, consent>>
    BY <2>1, <2>2
  <2>3. CASE UNCHANGED file /\ manual'.stream = 0
    BY <2>1, <2>3
  <2>4. CASE /\ UNCHANGED manual
             /\ offered # NoItem /\ ~offered.manual /\ offered.id \in Stream
             /\ file[offered.id] \in {"json", "dismissed"}
             /\ file' = [file EXCEPT ![offered.id] = "dismissed"]
             /\ consent' = consent \ {<<FALSE, offered.id>>}
    <3>1. rare = {} => offered.id # manual.stream
      BY <2>1, <2>4
    <3>2. \A n \in Stream : file'[n] = "none" <=> file[n] = "none"
      BY <2>4
    <3> QED BY <2>1, <2>4, <3>1, <3>2
  <2> QED BY <1>12, <2>2, <2>3, <2>4, DismissDoes
<1>13. CASE ResolveManual
  BY <1>13 DEF ResolveManual, SetRecoveryDecision, Identity
<1>14. ASSUME NEW scan \in SUBSET Present, ResolveStream(scan) PROVE OrdinaryInv'
  BY <1>14 DEF ResolveStream, Listing, Happens, Removed, Older
<1>15. CASE FinishResolve
  BY <1>15 DEF FinishResolve
<1>16. CASE PowerLoss
  BY <1>16 DEF PowerLoss
<1>17. CASE UNCHANGED vars
  BY <1>17 DEF vars
<1> QED
  BY <1>1, <1>2, <1>3, <1>4, <1>5, <1>6, <1>7, <1>8, <1>9, <1>10, <1>11, <1>12, <1>13,
     <1>14, <1>15, <1>16, <1>17 DEF Next

-----------------------------------------------------------------------------
(* Every step keeps the inductive invariant. *)
LEMMA StepIInv == IInv /\ [Next]_vars => IInv'
  BY StepTypeOK, StepNoSuggestionLost, StepRecordInv, StepItemsInv, StepTakenInv,
     StepStepInv, StepConsentInv, StepGrantedInv, StepOrdinaryInv DEF IInv

(* The inductive invariant holds of every reachable state. *)
THEOREM Inductive == Spec => []IInv
  BY InitIInv, StepIInv, PTL DEF Spec

(* Type correctness, for any number of events and requests, whatever fails,
   is pulled again, is not listed or is done in the settings. *)
THEOREM TypeCorrect == Spec => []TypeOK
<1>1. IInv => TypeOK
  BY DEF IInv
<1> QED BY <1>1, Inductive, PTL

(* A position that was pulled is on the card until the reader accepted it or a
   later one, for any numbers and with all that may happen. *)
THEOREM SuggestionsKept == Spec => []NoSuggestionLost
<1>1. IInv => NoSuggestionLost
  BY DEF IInv
<1> QED BY <1>1, Inductive, PTL

(* An acceptance that was reported is what the next opening of the book finds,
   or a later one, as long as no scan came short and the manual record could be
   read whenever it was. *)
THEOREM ConsentLasts == Spec => []ConsentIsDurable
<1>1. IInv => ConsentIsDurable
  <2> SUFFICES ASSUME IInv, "scan" \notin rare, "unread" \notin rare, granted # {}
               PROVE  Identity(NextApplicable(Stream, manual)) \in granted
    BY DEF ConsentIsDurable
  <2> USE DEF IInv, GrantedInv
  <2>1. CASE manual = NoRequest
    <3> DEFINE found == {n \in Stream : file[n] = "accepted"}
    <3>1. PICK w \in Stream :
             /\ file[w] = "accepted"
             /\ \A m \in Stream : file[m] = "accepted" => m <= w
             /\ <<FALSE, w>> \in granted
      BY <2>1
    <3>2. Max0(found) \in found /\ \A m \in found : m <= Max0(found)
      BY <3>1, MaxIs
    <3>3. Max0(found) = w /\ w # 0
      BY <3>1, <3>2, InboxAssumption DEF Stream
    <3>4. NextApplicable(Stream, manual) = StreamItem(w, FALSE)
      BY <2>1, <3>3 DEF NextApplicable
    <3> QED BY <3>1, <3>4 DEF StreamItem, Identity
  <2>2. CASE manual # NoRequest /\ manual.decision = "accepted"
    <3>1. Identity(NextApplicable(Stream, manual)) = <<TRUE, manual.req>>
      BY <2>2 DEF NextApplicable, Identity
    <3>2. manual.stream = 0
      BY <2>2 DEF TypeOK
    <3> QED BY <2>2, <3>1, <3>2
  <2>3. CASE manual # NoRequest /\ manual.decision # "accepted"
    <3>1. /\ manual.stream # 0 /\ file[manual.stream] # "none"
          /\ granted = {<<FALSE, manual.stream>>}
      BY <2>3
    <3>2. NextApplicable(Stream, manual)
            = StreamItem(manual.stream, file[manual.stream] = "dismissed")
      BY <2>3, <3>1 DEF NextApplicable
    <3> QED BY <3>1, <3>2 DEF StreamItem, Identity
  <2> QED BY <2>1, <2>2, <2>3
<1> QED BY <1>1, Inductive, PTL

-----------------------------------------------------------------------------
(* What a complete scan finds to apply, the reader accepted. *)
LEMMA FoundIsConsented ==
  ASSUME IInv, rare = {}, NextApplicable(Present, manual) # NoItem
  PROVE  Identity(NextApplicable(Present, manual)) \in consent
<1> USE DEF IInv
<1>1. CASE manual = NoRequest
  <2> DEFINE found == {n \in Present : file[n] = "accepted"}
  <2>1. found # {}
    BY <1>1 DEF NextApplicable, Max0
  <2>2. Max0(found) \in found /\ Max0(found) \in Stream
    BY <2>1, MaxIs DEF Present
  <2>3. NextApplicable(Present, manual) = StreamItem(Max0(found), FALSE)
    BY <1>1, <2>2, InboxAssumption DEF NextApplicable, Stream
  <2>4. <<FALSE, Max0(found)>> \in consent
    BY <1>1, <2>2 DEF ConsentInv
  <2> QED BY <2>3, <2>4 DEF StreamItem, Identity
<1>2. CASE manual # NoRequest /\ manual.decision = "accepted"
  BY <1>2 DEF NextApplicable, Identity, ConsentInv
<1>3. CASE manual # NoRequest /\ manual.decision # "accepted"
  <2>1. /\ manual.stream # 0 /\ file[manual.stream] # "none"
        /\ NextApplicable(Present, manual)
             = StreamItem(manual.stream, file[manual.stream] = "dismissed")
    BY <1>3 DEF NextApplicable
  <2>2. <<FALSE, manual.stream>> \in consent
    BY <2>1 DEF OrdinaryInv
  <2> QED BY <2>1, <2>2 DEF StreamItem, Identity
<1> QED BY <1>1, <1>2, <1>3

(* No step moves the position to an item the reader did not accept, as long as
   every event is pulled once, the scans list every file, the manual record is
   readable and the settings screen stays closed. *)
THEOREM JumpsAreConsented == Spec => OrdinaryJumpOnlyWithConsent
<1> DEFINE Jump == rare' = {} /\ applying' # applying /\ applying' # NoItem
                   => Identity(applying') \in consent'
<1>1. IInv /\ [Next]_vars => [Jump]_vars
  <2> SUFFICES ASSUME IInv, Next, rare' = {}, applying' # applying, applying' # NoItem
               PROVE  Identity(applying') \in consent'
    BY DEF vars
  <2> USE DEF ghosts
  <2>1. ASSUME NEW scan \in SUBSET Present, NEW record \in {manual, NoRequest},
               LoadBook(scan, record)
        PROVE  Identity(applying') \in consent'
    <3>1. /\ scan = Present /\ record = manual /\ rare = {} /\ consent' = consent
          /\ applying' = NextApplicable(scan, record)
      BY <2>1 DEF LoadBook, Reads, Apply
    <3> QED BY <3>1, FoundIsConsented
  <2>2. CASE AcceptByRecord
    <3>1. Accepted(offered) /\ applying' = offered
      BY <2>2 DEF AcceptByRecord, Accepted, NotAccepted, Apply
    <3> QED BY <3>1 DEF Accepted, Identity
  <2>3. CASE FinishAccept
    <3>1. Accepted(item) /\ applying' = item
      BY <2>3 DEF FinishAccept, Accepted, NotAccepted, Apply
    <3> QED BY <3>1 DEF Accepted, Identity
  <2>4. ASSUME NEW n \in Stream, DeferPulled(n) \/ RemoveOlder(n) PROVE FALSE
    BY <2>4 DEF DeferPulled, RemoveOlder
  <2>5. ASSUME NEW scan \in SUBSET Present,
               (\E record \in {manual, NoRequest} : Ask(scan, record))
                  \/ AcceptByRename(scan) \/ ResolveStream(scan)
        PROVE  FALSE
    BY <2>5 DEF Ask, AcceptByRename, ResolveStream, NotAccepted
  <2>6. ASSUME NEW scan \in SUBSET Present, NEW listed \in BOOLEAN, Review(scan, listed)
        PROVE  FALSE
    BY <2>6 DEF Review
  <2>7. ASSUME FetchProgress \/ OpenBook \/ CloseBook PROVE FALSE
    BY <2>7 DEF FetchProgress, OpenBook, CloseBook
  <2>8. ASSUME DismissOffered \/ ResolveManual \/ FinishResolve \/ PowerLoss PROVE FALSE
    BY <2>8 DEF DismissOffered, ResolveManual, FinishResolve, PowerLoss
  <2> QED BY <2>1, <2>2, <2>3, <2>4, <2>5, <2>6, <2>7, <2>8 DEF Next
<1> QED BY <1>1, Inductive, PTL DEF Spec, OrdinaryJumpOnlyWithConsent
=============================================================================
