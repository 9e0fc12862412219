---------------------------- MODULE OutboxProofs ----------------------------
(***************************************************************************)
(* What an identity says over the wire never changes, and nothing written  *)
(* is lost, for any number of identities, batches and resets, as long as   *)
(* no storage call fails unnoticed.                                        *)
(*                                                                         *)
(* Neither property is inductive.  The invariant adds that an event is     *)
(* never both pending and sent, that a posted event is not pending, that   *)
(* every copy of an event - files, wire, server - says what was written    *)
(* last, that identities not reserved yet are unused, and how the batch in *)
(* memory relates to the card at each step of an exchange.                 *)
(*                                                                         *)
(* The reading session above the outbox takes no step the outbox does not  *)
(* have, so that all of this holds under it; and the last movement of a    *)
(* book is never replaced by an older one or by another book's.            *)
(***************************************************************************)
EXTENDS ReadingEvents, FiniteSetTheorems, TLAPS

(* Every storage call that changes the card and fails is noticed. *)
FaultsNoticed == Faults \subseteq {"read"}

NoBackups == \A i \in Ids : bak[i] = None

OneFile == \A i \in Ids : pend[i] = None \/ sent[i] = None

PostedIsNotPending == \A i \in Ids : wire[i] # {} => pend[i] = None

CopiesAgree ==
    \A i \in Ids :
        /\ pend[i] \in {None, newest[i]}
        /\ sent[i] \in {None, newest[i]}
        /\ wire[i] \subseteq {newest[i]}
        /\ server[i] = None \/ server[i] = newest[i]
        /\ server[i] # None => wire[i] # {}
        /\ wire[i] # {} => newest[i] # None

UnreservedIsUnused ==
    \A i \in Ids : i >= nextId =>
        pend[i] = None /\ sent[i] = None /\ wire[i] = {} /\ newest[i] = None

Writing == {"replacing", "enqueueing"}

WriterReady ==
    /\ current < nextId
    /\ pc \in Writing \cup {"reserving"} => want \in Bodies
    /\ pc \in Writing => current # 0
    /\ pc = "enqueueing" => newest[current] = None

BatchMatchesCard ==
    pc = "marking" =>
        \A k \in DOMAIN batch :
            \/ sent[batch[k].id] = batch[k].body
            \/ ~batch[k].attempted /\ pend[batch[k].id] = batch[k].body

AcksAreAnswered ==
    /\ pc = "retiring" => \A k \in acks : server[batch[k].id] # None
    /\ pc # "retiring" => acks = {}

IInv ==
    /\ TypeOK
    /\ NoBackups
    /\ OneFile
    /\ PostedIsNotPending
    /\ CopiesAgree
    /\ UnreservedIsUnused
    /\ WriterReady
    /\ BatchMatchesCard
    /\ AcksAreAnswered
    /\ NothingWrittenIsLost

-----------------------------------------------------------------------------
(* What a batch passes over are events of the card. *)
LEMMA PassedOver ==
    ASSUME skipped \subseteq Ids, NEW b \in Batches, NEW unread \in SUBSET OnCard,
           StartExchange(b, unread)
    PROVE  skipped' \subseteq Ids
<1>1. \A e \in unread : e.id \in Ids
  BY DEF OnCard, Entries
<1> QED BY <1>1 DEF StartExchange

(* A batch read from the card is a sequence of events of the card. *)
LEMMA BatchType ==
    ASSUME NEW b \in Batches
    PROVE  /\ b \in Seq(Entries)
           /\ \A k \in DOMAIN b : b[k] \in OnCard
<1>1. PICK n \in 1 .. MaxBatch : b \in [1 .. n -> OnCard]
  BY DEF Batches
<1>2. OnCard \subseteq Entries
  BY DEF OnCard
<1>3. n \in Nat
  BY OutboxAssumption
<1> QED
  BY <1>1, <1>2, <1>3, SMT

LEMMA EntryType ==
    ASSUME NEW e \in Entries
    PROVE  e.id \in Ids /\ e.body \in Bodies /\ e.attempted \in BOOLEAN
  BY DEF Entries

LEMMA InitIInv == Init => IInv
<1> SUFFICES ASSUME Init PROVE IInv
  OBVIOUS
<1> USE OutboxAssumption DEF Init
<1>1. TypeOK
  <2>1. <<>> \in Seq(Entries)
    OBVIOUS
  <2> QED
    BY <2>1 DEF TypeOK, Ids
<1>2. NoBackups /\ OneFile /\ PostedIsNotPending /\ CopiesAgree
  BY DEF NoBackups, OneFile, PostedIsNotPending, CopiesAgree
<1>3. UnreservedIsUnused /\ WriterReady /\ BatchMatchesCard /\ AcksAreAnswered
  BY DEF UnreservedIsUnused, WriterReady, BatchMatchesCard, AcksAreAnswered, Writing
<1>4. NothingWrittenIsLost
  BY DEF NothingWrittenIsLost
<1> QED
  BY <1>1, <1>2, <1>3, <1>4 DEF IInv

(* The two shapes of a write, without unnoticed faults. *)
LEMMA EventIsStored ==
    ASSUME IInv, FaultsNoticed, NEW i \in Ids, NEW b \in Bodies,
           Stored(i, b)
    PROVE  /\ pend' = [pend EXCEPT ![i] = b]
           /\ newest' = [newest EXCEPT ![i] = b]
           /\ bak' = [bak EXCEPT ![i] = None]
  BY DEF Stored, FaultsNoticed

LEMMA NothingIsStored ==
    ASSUME FaultsNoticed, NEW i, NotStored(i)
    PROVE  UNCHANGED <<pend, bak, newest>>
  BY DEF NotStored, FaultsNoticed

(* Storing b for an identity that was never posted keeps the invariant,
   whatever the program does next. *)
LEMMA StoreKeepsCard ==
    ASSUME IInv, FaultsNoticed, NEW i \in Ids, NEW b \in Bodies,
           i < nextId, wire[i] = {}, sent[i] = None, server[i] = None,
           Stored(i, b), UNCHANGED <<sent, nextId, exchange, world, skipped, resets>>
    PROVE  /\ NoBackups' /\ OneFile' /\ PostedIsNotPending' /\ CopiesAgree'
           /\ UnreservedIsUnused' /\ NothingWrittenIsLost'
           /\ pend' \in [Ids -> Bodies \cup {None}]
           /\ bak' \in [Ids -> Bodies \cup {None}]
           /\ newest' \in [Ids -> Bodies \cup {None}]
<1>1. /\ pend' = [pend EXCEPT ![i] = b]
      /\ newest' = [newest EXCEPT ![i] = b]
      /\ bak' = [bak EXCEPT ![i] = None]
  BY EventIsStored
<1>2. UNCHANGED <<sent, nextId, wire, server>>
  BY DEF world
<1>3. TypeOK
  BY DEF IInv
<1>4. /\ pend' \in [Ids -> Bodies \cup {None}]
      /\ bak' \in [Ids -> Bodies \cup {None}]
      /\ newest' \in [Ids -> Bodies \cup {None}]
  BY <1>1, <1>3 DEF TypeOK
<1>5. NoBackups'
  BY <1>1, <1>3 DEF IInv, NoBackups, TypeOK
<1>6. OneFile'
  BY <1>1, <1>2, <1>3 DEF IInv, OneFile, TypeOK
<1>7. PostedIsNotPending'
  BY <1>1, <1>2, <1>3 DEF IInv, PostedIsNotPending, TypeOK
<1>8. CopiesAgree'
  BY <1>1, <1>2, <1>3 DEF IInv, CopiesAgree, TypeOK
<1>9. UnreservedIsUnused'
  BY <1>1, <1>2, <1>3 DEF IInv, UnreservedIsUnused, TypeOK, Ids
<1>10. NothingWrittenIsLost'
  BY <1>1, <1>2, <1>3, OutboxAssumption DEF IInv, NothingWrittenIsLost, TypeOK
<1> QED
  BY <1>4, <1>5, <1>6, <1>7, <1>8, <1>9, <1>10

-----------------------------------------------------------------------------
(* One lemma per action that writes the card or the wire, one for the rest. *)
LEMMA ReplaceKeeps ==
    ASSUME IInv, FaultsNoticed, ReplaceUnattempted
    PROVE  IInv'
<1>1. /\ TypeOK /\ current \in Ids /\ want \in Bodies /\ current < nextId
      /\ pc = "replacing" /\ acks = {}
  BY DEF IInv, TypeOK, WriterReady, AcksAreAnswered, Writing, ReplaceUnattempted
<1>2. CASE MayReplace(current) /\ Stored(current, want) /\ pc' = "idle"
  <2>1. wire[current] = {} /\ sent[current] = None /\ server[current] = None
    BY <1>1, <1>2, OutboxAssumption DEF MayReplace, IInv, PostedIsNotPending, CopiesAgree
  <2>2. UNCHANGED <<sent, nextId, writer, exchange, world, skipped, resets>>
    BY DEF ReplaceUnattempted
  <2>3. /\ NoBackups' /\ OneFile' /\ PostedIsNotPending' /\ CopiesAgree'
        /\ UnreservedIsUnused' /\ NothingWrittenIsLost'
        /\ pend' \in [Ids -> Bodies \cup {None}]
        /\ bak' \in [Ids -> Bodies \cup {None}]
        /\ newest' \in [Ids -> Bodies \cup {None}]
    BY <1>1, <1>2, <2>1, <2>2, StoreKeepsCard
  <2>4. TypeOK'
    BY <1>1, <1>2, <2>2, <2>3 DEF TypeOK, writer, exchange, world
  <2>5. WriterReady' /\ BatchMatchesCard' /\ AcksAreAnswered'
    BY <1>1, <1>2, <2>2 DEF WriterReady, BatchMatchesCard, AcksAreAnswered, writer, exchange, Writing
  <2> QED
    BY <2>3, <2>4, <2>5 DEF IInv
<1>3. CASE pc' = "reserving" /\ UNCHANGED <<pend, bak, newest>>
  <2>1. UNCHANGED <<sent, nextId, want, current, batch, acks, wire, server, skipped, resets>>
    BY DEF ReplaceUnattempted, writer, exchange, world
  <2>2. TypeOK'
    BY <1>1, <1>3, <2>1 DEF TypeOK
  <2>3. NoBackups' /\ OneFile' /\ PostedIsNotPending'
    BY <1>3, <2>1 DEF IInv, NoBackups, OneFile, PostedIsNotPending
  <2>4. CopiesAgree' /\ UnreservedIsUnused' /\ NothingWrittenIsLost'
    BY <1>3, <2>1 DEF IInv, CopiesAgree, UnreservedIsUnused, NothingWrittenIsLost
  <2>5. WriterReady' /\ BatchMatchesCard' /\ AcksAreAnswered'
    BY <1>1, <1>3, <2>1 DEF WriterReady, BatchMatchesCard, AcksAreAnswered, Writing
  <2> QED
    BY <2>2, <2>3, <2>4, <2>5 DEF IInv
<1> QED
  BY <1>2, <1>3, NothingIsStored DEF ReplaceUnattempted

LEMMA EnqueueKeeps ==
    ASSUME IInv, FaultsNoticed, Enqueue
    PROVE  IInv'
<1>1. /\ TypeOK /\ current \in Ids /\ want \in Bodies /\ current < nextId
      /\ pc = "enqueueing" /\ acks = {}
  BY DEF IInv, TypeOK, WriterReady, AcksAreAnswered, Writing, Enqueue
<1>2. newest[current] = None
  BY DEF IInv, WriterReady, Enqueue
<1>3. UNCHANGED <<sent, nextId, writer, exchange, world, skipped, resets>> /\ pc' = "idle"
  BY DEF Enqueue
<1>4. CASE Stored(current, want)
  <2>1. wire[current] = {} /\ sent[current] = None /\ server[current] = None
    BY <1>1, <1>2 DEF IInv, CopiesAgree
  <2>3. /\ NoBackups' /\ OneFile' /\ PostedIsNotPending' /\ CopiesAgree'
        /\ UnreservedIsUnused' /\ NothingWrittenIsLost'
        /\ pend' \in [Ids -> Bodies \cup {None}]
        /\ bak' \in [Ids -> Bodies \cup {None}]
        /\ newest' \in [Ids -> Bodies \cup {None}]
    BY <1>1, <1>3, <1>4, <2>1, StoreKeepsCard
  <2>4. TypeOK'
    BY <1>1, <1>3, <2>3 DEF TypeOK, writer, exchange, world
  <2>5. WriterReady' /\ BatchMatchesCard' /\ AcksAreAnswered'
    BY <1>1, <1>3 DEF WriterReady, BatchMatchesCard, AcksAreAnswered, writer, exchange, Writing
  <2> QED
    BY <2>3, <2>4, <2>5 DEF IInv
<1>5. CASE UNCHANGED <<pend, bak, newest>>
  <2>1. UNCHANGED <<want, current, batch, acks, wire, server>>
    BY <1>3 DEF writer, exchange, world
  <2>2. TypeOK'
    BY <1>1, <1>3, <1>5, <2>1 DEF TypeOK
  <2>3. NoBackups' /\ OneFile' /\ PostedIsNotPending'
    BY <1>3, <1>5, <2>1 DEF IInv, NoBackups, OneFile, PostedIsNotPending
  <2>4. CopiesAgree' /\ UnreservedIsUnused' /\ NothingWrittenIsLost'
    BY <1>3, <1>5, <2>1 DEF IInv, CopiesAgree, UnreservedIsUnused, NothingWrittenIsLost
  <2>5. WriterReady' /\ BatchMatchesCard' /\ AcksAreAnswered'
    BY <1>1, <1>3, <2>1 DEF WriterReady, BatchMatchesCard, AcksAreAnswered, Writing
  <2> QED
    BY <2>2, <2>3, <2>4, <2>5 DEF IInv
<1> QED
  BY <1>4, <1>5 DEF Enqueue

(* An identity that was just reserved is unused. *)
LEMMA ReservationKeeps ==
    ASSUME IInv,
           ReserveReplacement \/ \E b \in Bodies : PersistProgress(b)
    PROVE  IInv'
<1> USE OutboxAssumption
<1>1. /\ UNCHANGED <<pend, sent, bak, batch, acks, wire, server, newest, skipped, resets>>
      /\ pc \in {"idle", "reserving"}
      /\ pc' \in {"idle", "replacing", "enqueueing"}
  BY DEF ReserveReplacement, PersistProgress, exchange, world
<1>2. \/ UNCHANGED <<nextId, current>>
      \/ nextId <= MaxId /\ current' = nextId /\ nextId' = nextId + 1
  BY DEF ReserveReplacement, PersistProgress
<1>3. want' \in Bodies /\ (pc' \in Writing => current' # 0)
  BY DEF ReserveReplacement, PersistProgress, Writing, IInv, TypeOK, WriterReady
<1>4. pc' = "enqueueing" => current' = nextId /\ nextId \in Ids
  BY DEF ReserveReplacement, PersistProgress, IInv, TypeOK, Ids
<1>5. TypeOK'
  BY <1>1, <1>2, <1>3 DEF IInv, TypeOK, Ids
<1>6. NoBackups' /\ OneFile' /\ PostedIsNotPending'
  BY <1>1 DEF IInv, NoBackups, OneFile, PostedIsNotPending
<1>7. CopiesAgree' /\ NothingWrittenIsLost'
  BY <1>1 DEF IInv, CopiesAgree, NothingWrittenIsLost
<1>8. UnreservedIsUnused'
  BY <1>1, <1>2 DEF IInv, UnreservedIsUnused, TypeOK, Ids
<1>9. WriterReady'
  <2>1. current' < nextId'
    BY <1>2 DEF IInv, TypeOK, WriterReady, Ids
  <2>2. pc' = "enqueueing" => newest'[current'] = None
    BY <1>1, <1>4 DEF IInv, UnreservedIsUnused, TypeOK, Ids
  <2> QED
    BY <1>3, <2>1, <2>2 DEF WriterReady
<1>10. BatchMatchesCard' /\ AcksAreAnswered'
  BY <1>1 DEF IInv, BatchMatchesCard, AcksAreAnswered
<1> QED
  BY <1>5, <1>6, <1>7, <1>8, <1>9, <1>10 DEF IInv

LEMMA StartExchangeKeeps ==
    ASSUME IInv, NEW b \in Batches, NEW unread \in SUBSET OnCard, StartExchange(b, unread)
    PROVE  IInv'
<1>1. /\ UNCHANGED <<pend, sent, bak, nextId, want, current, acks, wire, server, newest, resets>>
      /\ batch' = b /\ pc' = "marking" /\ pc = "idle"
  BY DEF StartExchange, writer, world
<1>2. b \in Seq(Entries) /\ \A k \in DOMAIN b : b[k] \in OnCard
  BY BatchType
<1>3. acks = {}
  BY <1>1 DEF IInv, AcksAreAnswered
<1>4. TypeOK'
  <2>1. skipped' \subseteq Ids
    BY PassedOver DEF IInv, TypeOK
  <2> QED BY <1>1, <1>2, <1>3, <2>1 DEF IInv, TypeOK
<1>5. NoBackups' /\ OneFile' /\ PostedIsNotPending'
  BY <1>1 DEF IInv, NoBackups, OneFile, PostedIsNotPending
<1>6. CopiesAgree' /\ UnreservedIsUnused' /\ NothingWrittenIsLost'
  BY <1>1 DEF IInv, CopiesAgree, UnreservedIsUnused, NothingWrittenIsLost
<1>7. WriterReady' /\ AcksAreAnswered'
  BY <1>1, <1>3 DEF IInv, WriterReady, AcksAreAnswered, Writing
<1>8. BatchMatchesCard'
  <2>1. ASSUME NEW k \in DOMAIN b
        PROVE  \/ sent[b[k].id] = b[k].body
               \/ ~b[k].attempted /\ pend[b[k].id] = b[k].body
    BY <1>2, <2>1 DEF OnCard
  <2> QED
    BY <1>1, <2>1 DEF BatchMatchesCard
<1> QED
  BY <1>4, <1>5, <1>6, <1>7, <1>8 DEF IInv

LEMMA MarkAttemptedKeeps ==
    ASSUME IInv, NEW k \in 1 .. MaxBatch, MarkAttempted(k)
    PROVE  IInv'
<1> DEFINE i == batch[k].id
<1>1. /\ UNCHANGED <<bak, nextId, pc, want, current, batch, acks, wire, server, newest, skipped, resets>>
      /\ pc = "marking" /\ k \in DOMAIN batch
      /\ pend[i] # None /\ sent[i] = None
      /\ sent' = [sent EXCEPT ![i] = pend[i]]
      /\ pend' = [pend EXCEPT ![i] = None]
  BY DEF MarkAttempted, Marked, writer, exchange, world
<1>2. i \in Ids /\ \A j \in DOMAIN batch : batch[j].id \in Ids /\ batch[j].body \in Bodies
  BY <1>1, EntryType DEF IInv, TypeOK
<1> HIDE DEF i
<1>3. TypeOK'
  BY <1>1, <1>2 DEF IInv, TypeOK
<1>4. NoBackups' /\ OneFile' /\ PostedIsNotPending'
  BY <1>1, <1>2 DEF IInv, TypeOK, NoBackups, OneFile, PostedIsNotPending
<1>5. CopiesAgree'
  BY <1>1, <1>2 DEF IInv, TypeOK, CopiesAgree
<1>6. UnreservedIsUnused'
  BY <1>1, <1>2 DEF IInv, TypeOK, UnreservedIsUnused
<1>7. NothingWrittenIsLost'
  BY <1>1, <1>2 DEF IInv, TypeOK, NothingWrittenIsLost
<1>8. WriterReady' /\ AcksAreAnswered'
  BY <1>1 DEF IInv, WriterReady, AcksAreAnswered, Writing
<1>9. BatchMatchesCard'
  BY <1>1, <1>2, OutboxAssumption DEF IInv, TypeOK, BatchMatchesCard
<1> QED
  BY <1>3, <1>4, <1>5, <1>6, <1>7, <1>8, <1>9 DEF IInv

(* What goes over the wire was written last and is not pending any more. *)
LEMMA PostKeeps ==
    ASSUME IInv, Post
    PROVE  IInv'
<1>1. /\ UNCHANGED <<pend, sent, bak, nextId, want, current, batch, acks, server, newest, skipped, resets>>
      /\ pc = "marking" /\ pc' = "posted"
      /\ \A k \in DOMAIN batch : Marked(batch[k])
  BY DEF Post, writer, exchange
<1>2. wire' = [i \in Ids |-> wire[i] \cup
                   {batch[k].body : k \in {j \in DOMAIN batch : batch[j].id = i}}]
  BY DEF Post
<1>3. \A k \in DOMAIN batch : batch[k].id \in Ids /\ batch[k].body \in Bodies
  BY EntryType DEF IInv, TypeOK
<1>4. ASSUME NEW k \in DOMAIN batch
      PROVE  /\ sent[batch[k].id] = batch[k].body
             /\ pend[batch[k].id] = None
             /\ newest[batch[k].id] = batch[k].body
  <2>1. sent[batch[k].id] = batch[k].body
    <3>1. batch[k].id \in Ids /\ batch[k].body # None
      BY <1>3, OutboxAssumption
    <3> QED
      BY <1>1, <3>1 DEF IInv, BatchMatchesCard, Marked, OneFile
  <2> QED
    BY <1>3, <2>1, OutboxAssumption DEF IInv, OneFile, CopiesAgree
<1>5. TypeOK'
  BY <1>1, <1>2, <1>3 DEF IInv, TypeOK
<1>6. NoBackups' /\ OneFile' /\ NothingWrittenIsLost'
  BY <1>1 DEF IInv, NoBackups, OneFile, NothingWrittenIsLost
<1>7. ASSUME NEW i \in Ids
      PROVE  /\ wire'[i] # {} => pend'[i] = None /\ newest'[i] # None
             /\ wire'[i] \subseteq {newest'[i]}
             /\ i >= nextId' => wire'[i] = {}
             /\ wire[i] \subseteq wire'[i]
  <2>1. CASE \E k \in DOMAIN batch : batch[k].id = i
    <3>1. pend[i] = None /\ newest[i] # None /\ sent[i] # None
      BY <1>3, <1>4, <2>1, OutboxAssumption
    <3>2. wire'[i] \subseteq {newest[i]}
      BY <1>2, <1>4 DEF IInv, CopiesAgree
    <3> QED
      BY <1>1, <1>2, <3>1, <3>2 DEF IInv, UnreservedIsUnused
  <2>2. CASE ~ \E k \in DOMAIN batch : batch[k].id = i
    <3>1. wire'[i] = wire[i]
      BY <1>2, <2>2
    <3> QED
      BY <1>1, <3>1 DEF IInv, PostedIsNotPending, CopiesAgree, UnreservedIsUnused
  <2> QED
    BY <2>1, <2>2
<1>8. PostedIsNotPending'
  BY <1>7 DEF PostedIsNotPending
<1>9. CopiesAgree'
  BY <1>1, <1>7 DEF IInv, CopiesAgree
<1>10. UnreservedIsUnused'
  BY <1>1, <1>7 DEF IInv, UnreservedIsUnused
<1>11. WriterReady' /\ BatchMatchesCard' /\ AcksAreAnswered'
  BY <1>1 DEF IInv, WriterReady, BatchMatchesCard, AcksAreAnswered, Writing
<1> QED
  BY <1>5, <1>6, <1>8, <1>9, <1>10, <1>11 DEF IInv

LEMMA ServerTakesKeeps ==
    ASSUME IInv, NEW i \in Ids, NEW b \in Bodies, ServerTakes(i, b)
    PROVE  IInv'
<1>1. /\ UNCHANGED <<pend, sent, bak, nextId, pc, want, current, batch, acks, wire, newest, skipped, resets>>
      /\ b \in wire[i] /\ server[i] = None /\ server' = [server EXCEPT ![i] = b]
  BY DEF ServerTakes, writer, exchange
<1>2. TypeOK'
  BY <1>1 DEF IInv, TypeOK
<1>3. NoBackups' /\ OneFile' /\ PostedIsNotPending' /\ UnreservedIsUnused'
  BY <1>1 DEF IInv, NoBackups, OneFile, PostedIsNotPending, UnreservedIsUnused
<1>4. CopiesAgree'
  BY <1>1 DEF IInv, TypeOK, CopiesAgree
<1>5. NothingWrittenIsLost'
  BY <1>1 DEF IInv, TypeOK, CopiesAgree, NothingWrittenIsLost
<1>6. WriterReady' /\ BatchMatchesCard'
  BY <1>1 DEF IInv, WriterReady, BatchMatchesCard, Writing
<1>7. AcksAreAnswered'
  <2>1. \A k \in DOMAIN batch : batch[k].id \in Ids
    BY EntryType DEF IInv, TypeOK
  <2> QED
    BY <1>1, <2>1, OutboxAssumption DEF IInv, TypeOK, AcksAreAnswered
<1> QED
  BY <1>2, <1>3, <1>4, <1>5, <1>6, <1>7 DEF IInv

LEMMA AnswerKeeps ==
    ASSUME IInv, NEW settled \in SUBSET Ids, Answer(settled)
    PROVE  IInv'
<1>1. /\ UNCHANGED <<pend, sent, bak, nextId, want, current, batch, wire, server, newest, skipped, resets>>
      /\ pc = "posted" /\ pc' = "retiring"
      /\ settled \subseteq {i \in Ids : server[i] # None}
      /\ acks' = {k \in DOMAIN batch : batch[k].id \in settled}
  BY DEF Answer, AcksOf, writer, world
<1>2. TypeOK'
  BY <1>1 DEF IInv, TypeOK
<1>3. NoBackups' /\ OneFile' /\ PostedIsNotPending'
  BY <1>1 DEF IInv, NoBackups, OneFile, PostedIsNotPending
<1>4. CopiesAgree' /\ UnreservedIsUnused' /\ NothingWrittenIsLost'
  BY <1>1 DEF IInv, CopiesAgree, UnreservedIsUnused, NothingWrittenIsLost
<1>5. WriterReady' /\ BatchMatchesCard' /\ AcksAreAnswered'
  BY <1>1 DEF IInv, WriterReady, BatchMatchesCard, AcksAreAnswered, Writing
<1> QED
  BY <1>2, <1>3, <1>4, <1>5 DEF IInv

(* What is retired was answered, so its body is at the server. *)
LEMMA RetireKeeps ==
    ASSUME IInv, NEW k \in 1 .. MaxBatch, RetireAcknowledged(k)
    PROVE  IInv'
<1> DEFINE i == batch[k].id
<1>1. /\ UNCHANGED <<bak, nextId, pc, want, current, batch, wire, server, newest, skipped, resets>>
      /\ pc = "retiring" /\ k \in acks /\ acks' = acks \ {k}
      /\ \/ sent' = [sent EXCEPT ![i] = None] /\ UNCHANGED pend
         \/ pend' = [pend EXCEPT ![i] = None] /\ UNCHANGED sent
  BY DEF RetireAcknowledged, writer, world
<1>2. k \in DOMAIN batch /\ i \in Ids /\ server[i] # None
  BY <1>1, EntryType DEF IInv, TypeOK, AcksAreAnswered
<1> HIDE DEF i
<1>3. TypeOK'
  BY <1>1, <1>2 DEF IInv, TypeOK
<1>4. NoBackups' /\ OneFile' /\ PostedIsNotPending'
  BY <1>1, <1>2 DEF IInv, TypeOK, NoBackups, OneFile, PostedIsNotPending
<1>5. CopiesAgree'
  BY <1>1, <1>2 DEF IInv, TypeOK, CopiesAgree
<1>6. UnreservedIsUnused'
  BY <1>1, <1>2 DEF IInv, TypeOK, UnreservedIsUnused
<1>7. NothingWrittenIsLost'
  BY <1>1, <1>2 DEF IInv, TypeOK, CopiesAgree, NothingWrittenIsLost
<1>8. WriterReady' /\ BatchMatchesCard' /\ AcksAreAnswered'
  BY <1>1 DEF IInv, WriterReady, BatchMatchesCard, AcksAreAnswered, Writing
<1> QED
  BY <1>3, <1>4, <1>5, <1>6, <1>7, <1>8 DEF IInv

(* The steps that leave the card, the wire and the server alone. *)
LEMMA QuietKeeps ==
    ASSUME IInv, EndBook \/ GiveUp \/ FinishExchange \/ PowerLoss \/ UNCHANGED vars
    PROVE  IInv'
<1>1. UNCHANGED <<pend, sent, bak, nextId, wire, server, newest, skipped>>
  BY DEF EndBook, GiveUp, FinishExchange, PowerLoss, vars, world
<1>2. \/ /\ pc' \in {"idle", "off"} /\ acks' = {}
         /\ batch' \in {batch, <<>>} /\ current' \in {current, 0}
         /\ want' \in {want, None}
      \/ UNCHANGED <<pc, batch, acks, current, want>>
  BY DEF IInv, AcksAreAnswered, EndBook, GiveUp, FinishExchange, PowerLoss, vars,
         writer, exchange
<1>3. resets' \in 0 .. MaxResets
  BY OutboxAssumption DEF IInv, TypeOK, EndBook, GiveUp, FinishExchange, PowerLoss, vars
<1>4. TypeOK'
  <2>1. <<>> \in Seq(Entries)
    OBVIOUS
  <2>2. batch' \in Seq(Entries) /\ acks' \subseteq DOMAIN batch'
    BY <1>2, <2>1 DEF IInv, TypeOK
  <2> QED
    BY <1>1, <1>2, <1>3, <2>2 DEF IInv, TypeOK
<1>5. NoBackups' /\ OneFile' /\ PostedIsNotPending'
  BY <1>1 DEF IInv, NoBackups, OneFile, PostedIsNotPending
<1>6. CopiesAgree' /\ UnreservedIsUnused' /\ NothingWrittenIsLost'
  BY <1>1 DEF IInv, CopiesAgree, UnreservedIsUnused, NothingWrittenIsLost
<1>7. WriterReady'
  BY <1>1, <1>2 DEF IInv, TypeOK, WriterReady, Writing
<1>8. BatchMatchesCard' /\ AcksAreAnswered'
  BY <1>1, <1>2 DEF IInv, BatchMatchesCard, AcksAreAnswered
<1> QED
  BY <1>4, <1>5, <1>6, <1>7, <1>8 DEF IInv

(* Without backups a boot finds the card as it was left. *)
LEMMA BootKeeps ==
    ASSUME IInv, Boot
    PROVE  IInv'
<1>1. /\ UNCHANGED <<sent, nextId, want, current, batch, acks, wire, server, newest, skipped, resets>>
      /\ pc = "off" /\ pc' = "idle"
      /\ pend' = [i \in Ids |-> IF pend[i] = None THEN bak[i] ELSE pend[i]]
      /\ bak' = [i \in Ids |-> None]
  BY DEF Boot, writer, exchange, world
<1>2. \A i \in Ids : pend'[i] = pend[i] /\ bak'[i] = None
  BY <1>1 DEF IInv, NoBackups
<1>3. TypeOK'
  BY <1>1, <1>2 DEF IInv, TypeOK
<1>4. NoBackups' /\ OneFile' /\ PostedIsNotPending'
  BY <1>1, <1>2 DEF IInv, NoBackups, OneFile, PostedIsNotPending
<1>5. CopiesAgree' /\ UnreservedIsUnused' /\ NothingWrittenIsLost'
  BY <1>1, <1>2 DEF IInv, CopiesAgree, UnreservedIsUnused, NothingWrittenIsLost
<1>6. WriterReady' /\ BatchMatchesCard' /\ AcksAreAnswered'
  BY <1>1 DEF IInv, WriterReady, BatchMatchesCard, AcksAreAnswered, Writing
<1> QED
  BY <1>3, <1>4, <1>5, <1>6 DEF IInv

(* IInv is inductive as long as no storage call fails unnoticed. *)
THEOREM Inductive == ASSUME FaultsNoticed PROVE Spec => []IInv
<1>1. Init => IInv
  BY InitIInv
<1>2. IInv /\ [Next]_vars => IInv'
  <2> SUFFICES ASSUME IInv, [Next]_vars PROVE IInv'
    OBVIOUS
  <2>1. CASE UNCHANGED vars
    BY <2>1, QuietKeeps
  <2>2. CASE (\E b \in Bodies : PersistProgress(b)) \/ ReserveReplacement
    BY <2>2, ReservationKeeps
  <2>3. CASE ReplaceUnattempted
    BY <2>3, ReplaceKeeps
  <2>4. CASE Enqueue
    BY <2>4, EnqueueKeeps
  <2>5. CASE \E b \in Batches, unread \in SUBSET OnCard : StartExchange(b, unread)
    BY <2>5, StartExchangeKeeps
  <2>6. CASE \E k \in 1 .. MaxBatch : MarkAttempted(k)
    BY <2>6, MarkAttemptedKeeps
  <2>7. CASE Post
    BY <2>7, PostKeeps
  <2>8. CASE \E i \in Ids, b \in Bodies : ServerTakes(i, b)
    BY <2>8, ServerTakesKeeps
  <2>9. CASE \E settled \in SUBSET Ids : Answer(settled)
    BY <2>9, AnswerKeeps
  <2>10. CASE \E k \in 1 .. MaxBatch : RetireAcknowledged(k)
    BY <2>10, RetireKeeps
  <2>11. CASE EndBook \/ FinishExchange \/ GiveUp \/ PowerLoss
    BY <2>11, QuietKeeps
  <2>12. CASE Boot
    BY <2>12, BootKeeps
  <2> QED
    BY <2>1, <2>2, <2>3, <2>4, <2>5, <2>6, <2>7, <2>8, <2>9, <2>10, <2>11, <2>12
       DEF Next
<1> QED
  BY <1>1, <1>2, PTL DEF Spec

(* No identity is ever posted with two bodies: rewriting ends for good at the
   first attempt, before the request that makes it. *)
THEOREM IdentityMeansBody ==
    ASSUME FaultsNoticed PROVE Spec => []OneBodyPerIdentity
<1>1. Spec => []IInv
  BY Inductive
<1>2. IInv => OneBodyPerIdentity
  BY DEF IInv, CopiesAgree, OneBodyPerIdentity
<1> QED
  BY <1>1, <1>2, PTL

(* The body written last stays on the card until the server has it, through
   rewriting, resets, lost and late answers. *)
THEOREM NothingIsLost ==
    ASSUME FaultsNoticed PROVE Spec => []NothingWrittenIsLost
<1>1. Spec => []IInv
  BY Inductive
<1>2. IInv => NothingWrittenIsLost
  BY DEF IInv
<1> QED
  BY <1>1, <1>2, PTL

(* No step brings back an event that has left the outbox. *)
THEOREM RetiredForGood ==
    ASSUME FaultsNoticed PROVE Spec => RetiredStaysRetired
<1> DEFINE Gone(i) == newest[i] # None /\ pend[i] = None /\ sent[i] = None
<1>1. ASSUME IInv, [Next]_vars, NEW i \in Ids, Gone(i)
      PROVE  pend'[i] = None /\ sent'[i] = None
  <2>1. CASE UNCHANGED <<pend, sent>>
    BY <1>1, <2>1
  <2>2. CASE ReplaceUnattempted
    <3>1. current \in Ids
      BY <1>1, <2>2 DEF IInv, TypeOK, WriterReady, Writing, ReplaceUnattempted
    <3>2. CASE MayReplace(current)
      <4>1. current # i
        BY <1>1, <3>2 DEF MayReplace
      <4> QED
        BY <1>1, <2>2, <3>1, <4>1, NothingIsStored
           DEF ReplaceUnattempted, IInv, TypeOK, Stored
    <3>3. CASE ~MayReplace(current)
      BY <1>1, <2>2, <3>3 DEF ReplaceUnattempted
    <3> QED
      BY <3>2, <3>3
  <2>3. CASE Enqueue
    <3>1. current \in Ids /\ current # i
      BY <1>1, <2>3 DEF IInv, TypeOK, WriterReady, Writing, Enqueue
    <3> QED
      BY <1>1, <2>3, <3>1 DEF Enqueue, IInv, TypeOK, Stored
  <2>4. CASE \E k \in 1 .. MaxBatch : MarkAttempted(k)
    <3>1. PICK k \in 1 .. MaxBatch : MarkAttempted(k)
      BY <2>4
    <3>2. batch[k].id # i
      BY <1>1, <3>1 DEF MarkAttempted
    <3> QED
      BY <1>1, <3>1, <3>2 DEF MarkAttempted, IInv, TypeOK
  <2>5. CASE \E k \in 1 .. MaxBatch : RetireAcknowledged(k)
    BY <1>1, <2>5 DEF RetireAcknowledged, IInv, TypeOK
  <2>6. CASE Boot
    BY <1>1, <2>6 DEF Boot, IInv, NoBackups
  <2> QED
    BY <1>1, <2>1, <2>2, <2>3, <2>4, <2>5, <2>6
       DEF Next, vars, PersistProgress, ReserveReplacement, EndBook, StartExchange,
           Post, ServerTakes, Answer, FinishExchange, GiveUp, PowerLoss
<1>2. Spec => []IInv
  BY Inductive
<1>3. IInv /\ [Next]_vars =>
        [\A i \in Ids : newest[i] # None /\ pend[i] = None /\ sent[i] = None
                         => pend'[i] = None /\ sent'[i] = None]_vars
  BY <1>1
<1> QED
  BY <1>2, <1>3, PTL DEF Spec, RetiredStaysRetired

-----------------------------------------------------------------------------
(* The rest needs no assumption on the storage calls: whichever of them fails
   unnoticed, an event leaves the card only after the server answered for it. *)
WriterPlaced ==
    /\ pc \in Writing \cup {"reserving"} => want \in Bodies
    /\ pc \in Writing => current # 0

VInv == TypeOK /\ WriterPlaced /\ AcksAreAnswered /\ NoEventVanishes

(* A write leaves a copy of the event somewhere, whatever it leaves behind. *)
LEMMA AnyWriteKeeps ==
    ASSUME VInv, NEW i \in Ids, NEW b \in Bodies,
           Stored(i, b) \/ NotStored(i), UNCHANGED <<sent, server>>
    PROVE  /\ NoEventVanishes'
           /\ pend' \in [Ids -> Bodies \cup {None}]
           /\ bak' \in [Ids -> Bodies \cup {None}]
           /\ newest' \in [Ids -> Bodies \cup {None}]
<1>1. TypeOK
  BY DEF VInv
<1>2. /\ pend' \in [Ids -> Bodies \cup {None}]
      /\ bak' \in [Ids -> Bodies \cup {None}]
      /\ newest' \in [Ids -> Bodies \cup {None}]
  <2>1. CASE Stored(i, b)
    BY <1>1, <2>1 DEF TypeOK, Stored
  <2>2. CASE NotStored(i)
    <3>1. CASE UNCHANGED <<pend, bak>>
      BY <1>1, <2>2, <3>1 DEF TypeOK, NotStored
    <3>2. CASE /\ bak' = [bak EXCEPT ![i] = pend[i]]
               /\ pend' = [pend EXCEPT ![i] = None]
      BY <1>1, <2>2, <3>2 DEF TypeOK, NotStored
    <3> QED BY <2>2, <3>1, <3>2 DEF NotStored
  <2> QED BY <2>1, <2>2
<1>3. ASSUME NEW j \in Ids, newest'[j] # None
      PROVE  server[j] # None \/ pend'[j] # None \/ sent[j] # None \/ bak'[j] # None
  <2>1. CASE j # i
    BY <1>1, <1>3, <2>1 DEF VInv, TypeOK, NoEventVanishes, Stored, NotStored
  <2>2. CASE j = i /\ Stored(i, b)
    BY <1>1, <2>2, OutboxAssumption DEF TypeOK, Stored
  <2>3. CASE j = i /\ NotStored(i)
    BY <1>1, <1>3, <2>3, OutboxAssumption DEF VInv, TypeOK, NoEventVanishes, NotStored
  <2> QED BY <2>1, <2>2, <2>3
<1> QED BY <1>2, <1>3 DEF NoEventVanishes

LEMMA WritesKeepVInv ==
    ASSUME VInv, ReplaceUnattempted \/ Enqueue
    PROVE  VInv'
<1>1. /\ UNCHANGED <<sent, nextId, want, current, batch, acks, wire, server, skipped, resets>>
      /\ pc \in Writing /\ pc' \in {"idle", "reserving"}
  BY DEF ReplaceUnattempted, Enqueue, writer, exchange, world, Writing
<1>2. current \in Ids /\ want \in Bodies
  BY <1>1 DEF VInv, WriterPlaced, TypeOK
<1>3. Stored(current, want) \/ NotStored(current) \/ UNCHANGED <<pend, bak, newest>>
  BY DEF ReplaceUnattempted, Enqueue
<1>4. /\ NoEventVanishes'
      /\ pend' \in [Ids -> Bodies \cup {None}]
      /\ bak' \in [Ids -> Bodies \cup {None}]
      /\ newest' \in [Ids -> Bodies \cup {None}]
  <2>1. CASE UNCHANGED <<pend, bak, newest>>
    BY <1>1, <2>1 DEF VInv, TypeOK, NoEventVanishes
  <2> QED BY <1>1, <1>2, <1>3, <2>1, AnyWriteKeeps
<1>5. TypeOK'
  BY <1>1, <1>4 DEF VInv, TypeOK
<1>6. WriterPlaced' /\ AcksAreAnswered'
  BY <1>1, <1>2 DEF VInv, WriterPlaced, AcksAreAnswered, Writing
<1> QED BY <1>4, <1>5, <1>6 DEF VInv

LEMMA ReservationKeepsVInv ==
    ASSUME VInv, ReserveReplacement \/ \E b \in Bodies : PersistProgress(b)
    PROVE  VInv'
<1> USE OutboxAssumption
<1>1. /\ UNCHANGED <<pend, sent, bak, batch, acks, wire, server, newest, skipped, resets>>
      /\ pc \in {"idle", "reserving"}
      /\ pc' \in {"idle", "replacing", "enqueueing"}
  BY DEF ReserveReplacement, PersistProgress, exchange, world
<1>2. \/ UNCHANGED <<nextId, current>>
      \/ nextId <= MaxId /\ current' = nextId /\ nextId' = nextId + 1
  BY DEF ReserveReplacement, PersistProgress
<1>3. want' \in Bodies /\ (pc' \in Writing => current' # 0)
  BY DEF ReserveReplacement, PersistProgress, Writing, VInv, TypeOK, WriterPlaced
<1>4. TypeOK'
  BY <1>1, <1>2, <1>3 DEF VInv, TypeOK, Ids
<1>5. WriterPlaced' /\ AcksAreAnswered' /\ NoEventVanishes'
  BY <1>1, <1>3 DEF VInv, WriterPlaced, AcksAreAnswered, NoEventVanishes
<1> QED BY <1>4, <1>5 DEF VInv

LEMMA ExchangeKeepsVInv ==
    ASSUME VInv,
           \/ \E b \in Batches, unread \in SUBSET OnCard : StartExchange(b, unread)
           \/ Post
           \/ \E i \in Ids, b \in Bodies : ServerTakes(i, b)
           \/ \E settled \in SUBSET Ids : Answer(settled)
    PROVE  VInv'
<1>1. UNCHANGED <<pend, sent, bak, nextId, want, current, newest, resets>>
  BY DEF StartExchange, Post, ServerTakes, Answer, writer
<1>2. NoEventVanishes'
  BY <1>1 DEF VInv, TypeOK, NoEventVanishes, StartExchange, Post, ServerTakes, Answer, world
<1>3. ASSUME NEW b \in Batches, NEW unread \in SUBSET OnCard, StartExchange(b, unread)
      PROVE  VInv'
  <2>1. b \in Seq(Entries)
    BY BatchType
  <2>2. TypeOK'
    <3>1. skipped' \subseteq Ids
      BY <1>3, PassedOver DEF VInv, TypeOK
    <3> QED BY <1>1, <1>3, <2>1, <3>1 DEF VInv, TypeOK, AcksAreAnswered, StartExchange, world
  <2>3. WriterPlaced' /\ AcksAreAnswered'
    BY <1>1, <1>3 DEF VInv, WriterPlaced, AcksAreAnswered, StartExchange, Writing
  <2> QED BY <1>2, <2>2, <2>3 DEF VInv
<1>4. ASSUME Post PROVE VInv'
  <2>1. \A k \in DOMAIN batch : batch[k].id \in Ids /\ batch[k].body \in Bodies
    BY EntryType DEF VInv, TypeOK
  <2>2. TypeOK'
    BY <1>1, <1>4, <2>1 DEF VInv, TypeOK, Post, exchange
  <2>3. WriterPlaced' /\ AcksAreAnswered'
    BY <1>1, <1>4 DEF VInv, WriterPlaced, AcksAreAnswered, Post, Writing, exchange
  <2> QED BY <1>2, <2>2, <2>3 DEF VInv
<1>5. ASSUME NEW i \in Ids, NEW b \in Bodies, ServerTakes(i, b) PROVE VInv'
  <2>1. TypeOK'
    BY <1>1, <1>5 DEF VInv, TypeOK, ServerTakes, exchange
  <2>2. \A k \in DOMAIN batch : batch[k].id \in Ids
    BY EntryType DEF VInv, TypeOK
  <2>3. WriterPlaced' /\ AcksAreAnswered'
    BY <1>1, <1>5, <2>2, OutboxAssumption
       DEF VInv, TypeOK, WriterPlaced, AcksAreAnswered, ServerTakes, Writing, exchange
  <2> QED BY <1>2, <2>1, <2>3 DEF VInv
<1>6. ASSUME NEW settled \in SUBSET Ids, Answer(settled) PROVE VInv'
  <2>1. TypeOK'
    BY <1>1, <1>6 DEF VInv, TypeOK, Answer, AcksOf, world
  <2>2. WriterPlaced' /\ AcksAreAnswered'
    BY <1>1, <1>6 DEF VInv, WriterPlaced, AcksAreAnswered, Answer, AcksOf, Writing, world
  <2> QED BY <1>2, <2>1, <2>2 DEF VInv
<1> QED BY <1>3, <1>4, <1>5, <1>6

(* A rename moves the event, and a removal is of an event the server has. *)
LEMMA FilesKeepVInv ==
    ASSUME VInv, NEW k \in 1 .. MaxBatch, MarkAttempted(k) \/ RetireAcknowledged(k)
    PROVE  VInv'
<1> DEFINE i == batch[k].id
<1>1. /\ UNCHANGED <<bak, nextId, pc, want, current, batch, wire, server, newest, skipped, resets>>
      /\ acks' \in SUBSET acks /\ k \in DOMAIN batch
  BY DEF VInv, TypeOK, MarkAttempted, RetireAcknowledged, writer, exchange, world
<1>2. \/ /\ pend[i] # None
         /\ sent' = [sent EXCEPT ![i] = pend[i]]
         /\ pend' = [pend EXCEPT ![i] = None]
      \/ /\ server[i] # None
         /\ \/ sent' = [sent EXCEPT ![i] = None] /\ UNCHANGED pend
            \/ pend' = [pend EXCEPT ![i] = None] /\ UNCHANGED sent
  BY DEF VInv, AcksAreAnswered, MarkAttempted, RetireAcknowledged
<1>3. i \in Ids
  BY <1>1, EntryType DEF VInv, TypeOK
<1> HIDE DEF i
<1>4. TypeOK'
  BY <1>1, <1>2, <1>3 DEF VInv, TypeOK
<1>5. WriterPlaced' /\ AcksAreAnswered'
  BY <1>1 DEF VInv, WriterPlaced, AcksAreAnswered
<1>6. NoEventVanishes'
  <2>1. ASSUME NEW j \in Ids, newest[j] # None
        PROVE  server[j] # None \/ pend'[j] # None \/ sent'[j] # None \/ bak[j] # None
    <3>1. CASE j = i
      BY <1>2, <1>3, <3>1 DEF VInv, TypeOK
    <3>2. CASE j # i
      BY <1>2, <1>3, <2>1, <3>2 DEF VInv, TypeOK, NoEventVanishes
    <3> QED BY <3>1, <3>2
  <2> QED BY <1>1, <2>1 DEF NoEventVanishes
<1> QED BY <1>4, <1>5, <1>6 DEF VInv

LEMMA QuietKeepsVInv ==
    ASSUME VInv,
           EndBook \/ GiveUp \/ FinishExchange \/ PowerLoss \/ UNCHANGED vars
    PROVE  VInv'
<1>1. UNCHANGED <<pend, sent, bak, nextId, wire, server, newest, skipped>>
  BY DEF EndBook, GiveUp, FinishExchange, PowerLoss, vars, world
<1>2. \/ /\ pc' \in {"idle", "off"} /\ acks' = {}
         /\ batch' \in {batch, <<>>} /\ current' \in {current, 0}
         /\ want' \in {want, None}
      \/ UNCHANGED <<pc, batch, acks, current, want>>
  BY DEF VInv, AcksAreAnswered, EndBook, GiveUp, FinishExchange, PowerLoss, vars,
         writer, exchange
<1>3. resets' \in 0 .. MaxResets
  BY OutboxAssumption DEF VInv, TypeOK, EndBook, GiveUp, FinishExchange, PowerLoss, vars
<1>4. TypeOK'
  <2>1. <<>> \in Seq(Entries)
    OBVIOUS
  <2>2. batch' \in Seq(Entries) /\ acks' \subseteq DOMAIN batch'
    BY <1>2, <2>1 DEF VInv, TypeOK
  <2> QED
    BY <1>1, <1>2, <1>3, <2>2 DEF VInv, TypeOK
<1>5. WriterPlaced' /\ AcksAreAnswered' /\ NoEventVanishes'
  BY <1>1, <1>2 DEF VInv, WriterPlaced, AcksAreAnswered, NoEventVanishes, Writing
<1> QED BY <1>4, <1>5 DEF VInv

(* A boot renames the backup of an event that has lost its file. *)
LEMMA BootKeepsVInv ==
    ASSUME VInv, Boot
    PROVE  VInv'
<1>1. /\ UNCHANGED <<sent, nextId, want, current, batch, acks, wire, server, newest, skipped, resets>>
      /\ pc = "off" /\ pc' = "idle"
      /\ pend' = [i \in Ids |-> IF pend[i] = None THEN bak[i] ELSE pend[i]]
      /\ bak' = [i \in Ids |-> None]
  BY DEF Boot, writer, exchange, world
<1>2. TypeOK'
  BY <1>1 DEF VInv, TypeOK
<1>3. WriterPlaced' /\ AcksAreAnswered'
  BY <1>1 DEF VInv, WriterPlaced, AcksAreAnswered, Writing
<1>4. ASSUME NEW j \in Ids, newest[j] # None
      PROVE  server[j] # None \/ pend'[j] # None \/ sent[j] # None
  BY <1>1, <1>4 DEF VInv, NoEventVanishes
<1> QED BY <1>1, <1>2, <1>3, <1>4 DEF VInv, NoEventVanishes

LEMMA InitVInv == Init => VInv
<1> SUFFICES ASSUME Init PROVE VInv
  OBVIOUS
<1>1. <<>> \in Seq(Entries)
  OBVIOUS
<1>2. TypeOK
  BY <1>1, OutboxAssumption DEF Init, TypeOK, Ids
<1> QED
  BY <1>2 DEF Init, VInv, WriterPlaced, AcksAreAnswered, NoEventVanishes, Writing

LEMMA StepVInv == VInv /\ [Next]_vars => VInv'
<1> SUFFICES ASSUME VInv, [Next]_vars PROVE VInv'
  OBVIOUS
<1>1. CASE (\E b \in Bodies : PersistProgress(b)) \/ ReserveReplacement
  BY <1>1, ReservationKeepsVInv
<1>2. CASE ReplaceUnattempted \/ Enqueue
  BY <1>2, WritesKeepVInv
<1>3. CASE \/ \E b \in Batches, unread \in SUBSET OnCard : StartExchange(b, unread)
           \/ Post
           \/ \E i \in Ids, b \in Bodies : ServerTakes(i, b)
           \/ \E settled \in SUBSET Ids : Answer(settled)
  BY <1>3, ExchangeKeepsVInv
<1>4. CASE \E k \in 1 .. MaxBatch : MarkAttempted(k) \/ RetireAcknowledged(k)
  BY <1>4, FilesKeepVInv
<1>5. CASE EndBook \/ FinishExchange \/ GiveUp \/ PowerLoss \/ UNCHANGED vars
  BY <1>5, QuietKeepsVInv
<1>6. CASE Boot
  BY <1>6, BootKeepsVInv
<1> QED
  BY <1>1, <1>2, <1>3, <1>4, <1>5, <1>6 DEF Next

THEOREM FaultyInductive == Spec => []VInv
<1> QED
  BY InitVInv, StepVInv, PTL DEF Spec

(* Every variable keeps its type; acks refer to events of the batch. *)
THEOREM TypeCorrect == Spec => []TypeOK
<1>1. VInv => TypeOK
  BY DEF VInv
<1> QED
  BY <1>1, FaultyInductive, PTL

(* Removals and roll-backs that fail unnoticed, scans that miss files, lost
   answers and resets: an event leaves the card only when the server has it. *)
THEOREM NothingVanishes == Spec => []NoEventVanishes
<1>1. VInv => NoEventVanishes
  BY DEF VInv
<1> QED
  BY <1>1, FaultyInductive, PTL

-----------------------------------------------------------------------------
(* The order of attempts.  It needs scans that list every event: with noticed
   changes an event is one file, so that is a matter of the numbers. *)
ScanListsAll == MaxId < ScanLimit

(* A batch that is being marked has every older pending event before the newer
   ones, but those passed over, and a new event is the newest of all. *)
BatchIsOldest ==
    pc = "marking" =>
        \A k \in DOMAIN batch : \A i \in Ids :
            i < batch[k].id /\ pend[i] # None /\ i \notin skipped =>
                \E j \in DOMAIN batch : j < k /\ batch[j].id = i

NewestIsEnqueued == pc = "enqueueing" => nextId = current + 1

OInv == IInv /\ AttemptsInOrder /\ BatchIsOldest /\ NewestIsEnqueued

LEMMA ScanFits ==
    ASSUME IInv, ScanListsAll, NEW scan \in SUBSET OnCard
    PROVE  Cardinality(scan) < ScanLimit
<1> DEFINE f == [e \in scan |-> e.id]
<1>1. \A e \in scan : e.id \in Ids
  BY EntryType DEF OnCard
<1>2. \A e, g \in scan : e.id = g.id => e = g
  <2> SUFFICES ASSUME NEW e \in scan, NEW g \in scan, e.id = g.id PROVE e = g
    OBVIOUS
  <2>1. e \in OnCard /\ g \in OnCard /\ e.id \in Ids
    BY <1>1
  <2>2. e.body \in Bodies /\ g.body \in Bodies
    BY <2>1, EntryType DEF OnCard
  <2>3. e.attempted = g.attempted /\ e.body = g.body
    BY <2>1, <2>2, OutboxAssumption, EntryType DEF OnCard, IInv, OneFile
  <2>4. \A x \in Entries : x = [id |-> x.id, attempted |-> x.attempted, body |-> x.body]
    <3>1. \A x \in [id : Ids, attempted : {FALSE}, body : Bodies] :
             x = [id |-> x.id, attempted |-> x.attempted, body |-> x.body]
      OBVIOUS
    <3>2. \A x \in [id : Ids, attempted : {TRUE}, body : Bodies] :
             x = [id |-> x.id, attempted |-> x.attempted, body |-> x.body]
      OBVIOUS
    <3> QED BY <3>1, <3>2 DEF Entries
  <2>5. e = [id |-> e.id, attempted |-> e.attempted, body |-> e.body]
    BY <2>1, <2>4 DEF OnCard
  <2>6. g = [id |-> g.id, attempted |-> g.attempted, body |-> g.body]
    BY <2>1, <2>4 DEF OnCard
  <2> QED BY <2>3, <2>5, <2>6
<1>3. f \in Injection(scan, Ids)
  BY <1>1, <1>2 DEF Injection, IsInjective
<1>4. IsFiniteSet(Ids) /\ Cardinality(Ids) = MaxId
  BY FS_Interval, OutboxAssumption DEF Ids
<1>5. Cardinality(scan) <= MaxId /\ IsFiniteSet(scan)
  BY <1>3, <1>4, FS_Injection
<1>6. Cardinality(scan) \in Nat
  BY <1>5, FS_CardinalityType
<1> QED BY <1>5, <1>6, OutboxAssumption DEF ScanListsAll

(* nextBatch puts what is older before what is newer. *)
LEMMA StartKeepsOrder ==
    ASSUME OInv, ScanListsAll, NEW b \in Batches, NEW unread \in SUBSET OnCard,
           StartExchange(b, unread)
    PROVE  BatchIsOldest'
<1>1. /\ UNCHANGED pend /\ batch' = b /\ NextBatch(b, unread) /\ b # <<>>
      /\ skipped' = skipped \cup {e.id : e \in {u \in unread : u.id < b[Len(b)].id}}
  BY DEF StartExchange
<1>2. Ordered(OnCard \ unread, b)
  <2>1. PICK scan \in SUBSET OnCard :
            /\ \/ scan = OnCard /\ Cardinality(OnCard) <= ScanLimit
               \/ Cardinality(scan) = ScanLimit
            /\ Ordered(scan \ unread, b)
    BY <1>1 DEF NextBatch
  <2>2. Cardinality(scan) # ScanLimit
    BY ScanFits, OutboxAssumption DEF OInv
  <2> QED BY <2>1, <2>2
<1>3. b \in Seq(Entries) /\ \A k \in DOMAIN b : b[k] \in OnCard
  BY BatchType
<1>4. ASSUME NEW k \in DOMAIN b, NEW i \in Ids, i < b[k].id, pend[i] # None,
             i \notin skipped'
      PROVE  \E j \in DOMAIN b : j < k /\ b[j].id = i
  <2> DEFINE e == [id |-> i, attempted |-> FALSE, body |-> pend[i]]
  <2>1. e \in OnCard
    BY <1>4 DEF OnCard, Entries, OInv, IInv, TypeOK
  <2>2. b[k].id \in Ids
    BY <1>3, EntryType
  <2>3. ~(e.id >= b[k].id)
    BY <1>4, <2>2 DEF Ids
  <2>7. e \notin unread
    <3>1. Len(b) \in DOMAIN b /\ b[Len(b)] \in OnCard /\ b[Len(b)].id \in Ids
      BY <1>1, <1>3, EntryType
    <3>2. b[k].id <= b[Len(b)].id
      <4>1. CASE k = Len(b)
        BY <2>2, <4>1 DEF Ids
      <4>2. CASE k # Len(b)
        <5>1. b[Len(b)] \in OnCard \ unread
          BY <1>2, <3>1 DEF Ordered
        <5>2. \A j \in 1 .. k : b[j] # b[Len(b)]
          BY <1>2, <1>3, <3>1, <4>2 DEF Ordered
        <5>3. b[Len(b)].id >= b[k].id
          BY <1>2, <5>1, <5>2 DEF Ordered
        <5> QED BY <2>2, <3>1, <5>3 DEF Ids
      <4> QED BY <4>1, <4>2
    <3>3. e.id < b[Len(b)].id
      BY <1>4, <2>2, <3>1, <3>2 DEF Ids
    <3> QED BY <1>1, <1>4, <3>3
  <2>4. e \in {b[j] : j \in 1 .. k}
    BY <1>2, <2>1, <2>3, <2>7 DEF Ordered
  <2>5. PICK j \in 1 .. k : b[j] = e
    BY <2>4
  <2>6. k \in Nat /\ j \in DOMAIN b /\ j # k
    BY <1>3, <1>4, <2>2, <2>5 DEF Ids
  <2> QED BY <2>5, <2>6
<1> QED BY <1>1, <1>4 DEF BatchIsOldest

(* An event is marked once nothing older is pending. *)
LEMMA MarkKeepsOrder ==
    ASSUME OInv, NEW k \in 1 .. MaxBatch, MarkAttempted(k)
    PROVE  AttemptsInOrder' /\ BatchIsOldest'
<1> DEFINE m == batch[k].id
<1>1. /\ UNCHANGED <<batch, pc, skipped>> /\ pc = "marking" /\ k \in DOMAIN batch
      /\ \A j \in 1 .. k - 1 : Marked(batch[j])
      /\ sent' = [sent EXCEPT ![m] = pend[m]]
      /\ pend' = [pend EXCEPT ![m] = None]
  BY DEF MarkAttempted, exchange
<1>2. IInv /\ TypeOK /\ batch \in Seq(Entries) /\ m \in Ids
  BY <1>1, EntryType DEF OInv, IInv, TypeOK
<1>3. ASSUME NEW j \in DOMAIN batch, j < k PROVE pend[batch[j].id] = None
  <2>1. j \in 1 .. k - 1 /\ batch[j].id \in Ids /\ batch[j].body \in Bodies
    BY <1>1, <1>2, <1>3, EntryType
  <2>2. sent[batch[j].id] # None
    BY <1>1, <1>2, <2>1, OutboxAssumption DEF IInv, BatchMatchesCard, Marked
  <2> QED BY <1>2, <2>1, <2>2 DEF IInv, OneFile
<1>4. \A i \in Ids : i < m /\ i \notin skipped => pend[i] = None
  BY <1>1, <1>3 DEF OInv, BatchIsOldest
<1> HIDE DEF m
<1>5. \A i, j \in Ids : i < j /\ pend'[i] # None /\ i \notin skipped => sent'[j] = None
  <2> SUFFICES ASSUME NEW i \in Ids, NEW j \in Ids, i < j, pend'[i] # None, i \notin skipped
               PROVE  sent'[j] = None
    OBVIOUS
  <2>1. i # m /\ pend[i] # None
    BY <1>1, <1>2 DEF TypeOK
  <2>2. j # m
    BY <1>4, <2>1
  <2> QED BY <1>1, <1>2, <2>1, <2>2 DEF OInv, AttemptsInOrder, TypeOK
<1>6. \A i \in Ids : pend'[i] # None => pend[i] # None
  BY <1>1, <1>2 DEF TypeOK
<1> QED BY <1>1, <1>5, <1>6 DEF OInv, AttemptsInOrder, BatchIsOldest

(* What the writer stores is pending already, or newer than everything. *)
LEMMA WriterKeepsOrder ==
    ASSUME OInv, FaultsNoticed, ReplaceUnattempted \/ Enqueue
    PROVE  AttemptsInOrder'
<1>1. IInv /\ TypeOK /\ UNCHANGED <<sent, nextId, skipped>>
  BY DEF OInv, IInv, ReplaceUnattempted, Enqueue
<1>2. CASE UNCHANGED pend
  BY <1>1, <1>2 DEF OInv, AttemptsInOrder
<1>3. CASE ~UNCHANGED pend
  <2>1. /\ current \in Ids
        /\ pend' = [pend EXCEPT ![current] = want]
        /\ pend[current] # None \/ nextId = current + 1
    BY <1>1, <1>3, NothingIsStored
       DEF ReplaceUnattempted, Enqueue, Stored, MayReplace, IInv, TypeOK, WriterReady,
           Writing, OInv, NewestIsEnqueued
  <2> SUFFICES ASSUME NEW i \in Ids, NEW j \in Ids, i < j, pend'[i] # None, i \notin skipped
               PROVE  sent[j] = None
    BY <1>1 DEF AttemptsInOrder
  <2>2. CASE pend[i] # None
    BY <2>2 DEF OInv, AttemptsInOrder
  <2>3. CASE pend[i] = None
    <3>1. i = current /\ j >= nextId
      BY <1>1, <2>1, <2>3 DEF TypeOK, Ids
    <3> QED BY <1>1, <3>1 DEF IInv, UnreservedIsUnused
  <2> QED BY <2>2, <2>3
<1> QED BY <1>2, <1>3

THEOREM OrderInductive ==
    ASSUME FaultsNoticed, ScanListsAll PROVE Spec => []OInv
<1>1. Init => AttemptsInOrder /\ BatchIsOldest /\ NewestIsEnqueued
  BY DEF Init, AttemptsInOrder, BatchIsOldest, NewestIsEnqueued
<1>2. OInv /\ [Next]_vars => AttemptsInOrder' /\ BatchIsOldest' /\ NewestIsEnqueued'
  <2> SUFFICES ASSUME OInv, [Next]_vars
               PROVE  AttemptsInOrder' /\ BatchIsOldest' /\ NewestIsEnqueued'
    OBVIOUS
  <2>1. CASE \E b \in Batches, unread \in SUBSET OnCard : StartExchange(b, unread)
    <3>1. BatchIsOldest'
      BY <2>1, StartKeepsOrder
    <3> QED BY <2>1, <3>1 DEF StartExchange, OInv, AttemptsInOrder, NewestIsEnqueued
  <2>2. CASE \E k \in 1 .. MaxBatch : MarkAttempted(k)
    <3>1. AttemptsInOrder' /\ BatchIsOldest'
      BY <2>2, MarkKeepsOrder
    <3> QED BY <2>2, <3>1 DEF MarkAttempted, NewestIsEnqueued
  <2>3. CASE ReplaceUnattempted \/ Enqueue
    <3>1. AttemptsInOrder'
      BY <2>3, WriterKeepsOrder
    <3> QED
      BY <2>3, <3>1 DEF ReplaceUnattempted, Enqueue, BatchIsOldest, NewestIsEnqueued
  <2>4. CASE (\E b \in Bodies : PersistProgress(b)) \/ ReserveReplacement
    BY <2>4 DEF PersistProgress, ReserveReplacement, OInv, AttemptsInOrder,
       BatchIsOldest, NewestIsEnqueued
  <2>5. CASE \E k \in 1 .. MaxBatch : RetireAcknowledged(k)
    <3>1. PICK k \in 1 .. MaxBatch : RetireAcknowledged(k)
      BY <2>5
    <3>2. batch[k].id \in Ids
      BY <3>1, EntryType DEF OInv, IInv, TypeOK, RetireAcknowledged
    <3>3. \A i \in Ids : /\ pend'[i] # None => pend[i] # None
                         /\ sent'[i] # None => sent[i] # None
      BY <3>1, <3>2 DEF OInv, IInv, TypeOK, RetireAcknowledged
    <3> QED
      BY <3>1, <3>3 DEF RetireAcknowledged, OInv, AttemptsInOrder, BatchIsOldest,
         NewestIsEnqueued
  <2>6. CASE Boot
    <3>1. \A i \in Ids : pend'[i] = pend[i]
      BY <2>6 DEF Boot, OInv, IInv, NoBackups
    <3> QED
      BY <2>6, <3>1 DEF Boot, OInv, AttemptsInOrder, BatchIsOldest, NewestIsEnqueued
  <2>7. CASE \/ Post
             \/ \E i \in Ids, b \in Bodies : ServerTakes(i, b)
             \/ \E settled \in SUBSET Ids : Answer(settled)
             \/ EndBook \/ FinishExchange \/ GiveUp \/ PowerLoss \/ UNCHANGED vars
    BY <2>7 DEF Post, ServerTakes, Answer, EndBook, FinishExchange, GiveUp, PowerLoss,
       vars, exchange, writer, OInv, AttemptsInOrder, BatchIsOldest, NewestIsEnqueued
  <2> QED
    BY <2>1, <2>2, <2>3, <2>4, <2>5, <2>6, <2>7 DEF Next
<1>3. Spec => []IInv
  BY Inductive
<1> QED
  BY <1>1, <1>2, <1>3, PTL DEF Spec, OInv

(* No event is attempted before an older one that was read, through rewriting,
   lost answers and resets between two renames, as long as the scans list every
   event and no storage call that changes the card fails unnoticed. *)
THEOREM AttemptsOrdered ==
    ASSUME FaultsNoticed, ScanListsAll PROVE Spec => []AttemptsInOrder
<1>1. Spec => []OInv
  BY OrderInductive
<1>2. OInv => AttemptsInOrder
  BY DEF OInv
<1> QED
  BY <1>1, <1>2, PTL
-----------------------------------------------------------------------------
(* The reading session above the outbox, which asks for less than the invariants
   above and for no assumption on the storage calls. *)
WriteUnderWay == pc \in Writing \cup {"reserving"}

KeepsPosition == held \/ WriteUnderWay

SessionTypes ==
    /\ book \in Books \cup {None}
    /\ seen \in Positions \cup {None}
    /\ held \in BOOLEAN
    /\ screen \in Books \cup {None}
    /\ tracked \in BOOLEAN
    /\ resume \in {"none", "page", "begin", "exit", "sync"}
    /\ moved \in [Books -> Positions \cup {None}]

(* A position that is held, or being written, is the last movement of the
   session's own book. *)
PositionAtHand ==
    KeepsPosition =>
        /\ book \in Books /\ seen \in Positions /\ moved[book] = seen
        /\ WriteUnderWay => want = <<book, seen>>

TrackedIsShown ==
    /\ tracked => screen \in Books /\ book = screen
    /\ resume = "begin" => screen \in Books

(* What waits for a write waits for one under way, or nothing is held any more. *)
ResumeWaits ==
    resume # "none" => WriteUnderWay \/ (pc = "idle" /\ ~held)

(* The session's identity is the newest of all, and those to come are unused. *)
NewestIdentity ==
    /\ current # 0 => nextId = current + 1
    /\ \A i \in Ids : i >= nextId => pend[i] = None /\ bak[i] = None /\ newest[i] = None
    /\ pc = "enqueueing" => pend[current] = None /\ newest[current] = None

OwnIdentity ==
    current # 0 => newest[current] = None \/ newest[current][1] = book

LastOf(b) ==
    \E i \in Events(b) : newest[i] = <<b, moved[b]>> /\ \A j \in Events(b) : j <= i

KeptOrLast ==
    \A b \in Books : moved[b] # None =>
        (book = b /\ seen = moved[b] /\ KeepsPosition) \/ LastOf(b)

SInv ==
    /\ SessionTypes
    /\ PositionAtHand
    /\ TrackedIsShown
    /\ ResumeWaits
    /\ NewestIdentity
    /\ OwnIdentity
    /\ KeptOrLast

RInv == VInv /\ SInv

(* An identity is reserved, and the session's is the newest, whatever step the
   outbox takes. *)
LEMMA StepNewestIdentity ==
    VInv /\ NewestIdentity /\ [Next]_vars => NewestIdentity'
<1> SUFFICES ASSUME VInv, NewestIdentity, [Next]_vars PROVE NewestIdentity'
  OBVIOUS
<1>0. /\ TypeOK /\ (pc \in Writing => current # 0)
      /\ current # 0 => nextId = current + 1
      /\ \A i \in Ids : i >= nextId => pend[i] = None /\ bak[i] = None /\ newest[i] = None
      /\ pc = "enqueueing" => pend[current] = None /\ newest[current] = None
  BY DEF VInv, WriterPlaced, NewestIdentity
<1> USE OutboxAssumption, <1>0 DEF NewestIdentity, TypeOK, Ids, writer, exchange, world
<1>1. ASSUME NEW b \in Bodies, PersistProgress(b) PROVE NewestIdentity'
  BY <1>1 DEF PersistProgress
<1>2. CASE ReplaceUnattempted
  BY <1>2 DEF ReplaceUnattempted, Stored, NotStored, Writing
<1>3. CASE ReserveReplacement
  <2>1. UNCHANGED <<pend, bak, newest>>
    BY <1>3 DEF ReserveReplacement
  <2>2. CASE pc' = "idle" /\ UNCHANGED <<nextId, current>>
    BY <2>1, <2>2
  <2>3. CASE nextId \in Ids /\ current' = nextId /\ nextId' = nextId + 1
    <3>1. pend[nextId] = None /\ newest[nextId] = None
      BY <2>3
    <3> QED BY <2>1, <2>3, <3>1
  <2> QED BY <1>3, <2>2, <2>3 DEF ReserveReplacement
<1>4. CASE Enqueue
  BY <1>4 DEF Enqueue, Stored, Writing
<1>5. ASSUME NEW k \in 1 .. MaxBatch, MarkAttempted(k) PROVE NewestIdentity'
  BY <1>5 DEF MarkAttempted
<1>6. ASSUME NEW k \in 1 .. MaxBatch, RetireAcknowledged(k) PROVE NewestIdentity'
  BY <1>6 DEF RetireAcknowledged
<1>7. CASE Boot
  BY <1>7 DEF Boot
<1>8. CASE EndBook \/ FinishExchange \/ GiveUp \/ PowerLoss \/ Post \/ UNCHANGED vars
  BY <1>8 DEF EndBook, FinishExchange, GiveUp, PowerLoss, Post, vars
<1>9. CASE \/ \E b \in Batches, unread \in SUBSET OnCard : StartExchange(b, unread)
           \/ \E i \in Ids, b \in Bodies : ServerTakes(i, b)
           \/ \E settled \in SUBSET Ids : Answer(settled)
  BY <1>9 DEF StartExchange, ServerTakes, Answer
<1> QED
  BY <1>1, <1>2, <1>3, <1>4, <1>5, <1>6, <1>7, <1>8, <1>9 DEF Next

(* Every step of the session is a step of the outbox, or leaves it alone. *)
LEMMA StepOfOutbox == SInv /\ [ReadingNext]_allVars => [Next]_vars
<1> SUFFICES ASSUME SInv, [ReadingNext]_allVars PROVE [Next]_vars
  OBVIOUS
<1>0. SessionTypes /\ PositionAtHand /\ TrackedIsShown
  BY DEF SInv
<1>1. \A b \in Books, p \in Positions : <<b, p>> \in Bodies
  BY ReadingAssumption
<1>2. ASSUME NEW p \in Positions, NEW jump \in BOOLEAN, RecordPosition(p, jump)
      PROVE  [Next]_vars
  <2>1. book \in Books
    BY <1>0, <1>2 DEF TrackedIsShown, RecordPosition
  <2> QED
    BY <1>1, <1>2, <2>1 DEF RecordPosition, Persist, Next
<1>3. ASSUME held PROVE <<book, seen>> \in Bodies
  BY <1>0, <1>1, <1>3 DEF PositionAtHand, KeepsPosition
<1>4. CASE RetryPendingProgress
  BY <1>3, <1>4 DEF RetryPendingProgress, Persist, Next
<1>5. Forget => [Next]_vars
  BY DEF Forget, Next
<1>6. ASSUME NEW b \in Books, OpenBook(b) PROVE [Next]_vars
  BY <1>3, <1>5, <1>6 DEF OpenBook, Persist, Begun, Next
<1>7. ASSUME NEW then \in {"exit", "sync"}, CloseBook(then) PROVE [Next]_vars
  BY <1>3, <1>5, <1>7 DEF CloseBook, Persist, Ended, Next
<1>8. CASE WriteStep
  BY <1>8 DEF WriteStep, Next
<1>9. CASE Continue
  BY <1>5, <1>9 DEF Continue, Begun, Ended
<1>10. CASE Exchange
  BY <1>10 DEF Exchange, Next
<1>11. CASE LosePower
  BY <1>11 DEF LosePower, Next
<1>12. CASE UNCHANGED allVars
  BY <1>12 DEF allVars
<1> QED
  BY <1>2, <1>4, <1>6, <1>7, <1>8, <1>9, <1>10, <1>11, <1>12 DEF ReadingNext

-----------------------------------------------------------------------------
(* The last event of a book stays its last event when nothing is written. *)
LEMMA LastOfStays ==
    ASSUME NEW b \in Books, LastOf(b), newest' = newest, moved'[b] = moved[b]
    PROVE  LastOf(b)'
  BY DEF LastOf, Events

(* What is written of the session's book becomes its last event, and takes the
   place of no other book's. *)
LEMMA StoredIsLast ==
    ASSUME RInv, Stored(current, want), WriteUnderWay, current # 0,
           UNCHANGED <<moved, nextId>>, NEW b \in Books, moved[b] # None
    PROVE  LastOf(b)'
<1>1. /\ current \in Ids /\ newest \in [Ids -> Bodies \cup {None}] /\ nextId \in Nat
      /\ book \in Books /\ moved[book] = seen /\ want = <<book, seen>>
      /\ nextId = current + 1
      /\ \A i \in Ids : i >= nextId => newest[i] = None
      /\ newest[current] = None \/ newest[current][1] = book
      /\ seen \in Positions
  BY DEF RInv, SInv, VInv, TypeOK, PositionAtHand, KeepsPosition, NewestIdentity,
         OwnIdentity, Ids
<1>2. newest' = [newest EXCEPT ![current] = <<book, seen>>]
  BY <1>1 DEF Stored
<1>3. <<book, seen>> # None /\ <<book, seen>>[1] = book
  BY <1>1, ReadingAssumption, OutboxAssumption
<1>4. \A i \in Ids : newest[i] # None => i <= current
  BY <1>1 DEF Ids
<1>5. CASE b = book
  <2>1. current \in Events(b)'
    BY <1>1, <1>2, <1>3, <1>5 DEF Events
  <2>2. \A j \in Events(b)' : j <= current
    BY <1>1, <1>2, <1>4 DEF Events, Ids
  <2>3. newest'[current] = <<b, moved'[b]>>
    BY <1>1, <1>2, <1>5
  <2> QED BY <2>1, <2>2, <2>3 DEF LastOf
<1>6. CASE b # book
  <2>1. LastOf(b)
    BY <1>6 DEF RInv, SInv, KeptOrLast
  <2>2. current \notin Events(b) /\ current \notin Events(b)'
    BY <1>1, <1>2, <1>3, <1>6 DEF Events
  <2>3. \A i \in Ids \ {current} : newest'[i] = newest[i]
    BY <1>1, <1>2
  <2>4. Events(b)' = Events(b)
    BY <2>2, <2>3 DEF Events
  <2> QED BY <2>1, <2>2, <2>3, <2>4 DEF LastOf, Events
<1> QED BY <1>5, <1>6

(* The identity is forgotten: nothing else of the outbox changes. *)
LEMMA ForgetDoes ==
    ASSUME Forget, pc = "idle"
    PROVE  current' = 0 /\ UNCHANGED <<pc, newest, want>>
  BY DEF Forget, EndBook, vars

(* persistProgress begins: the write is under way, or the position is held. *)
LEMMA PersistKeeps ==
    ASSUME RInv, NEW p \in Positions, NEW then \in {"page", "begin", "exit", "sync"},
           Persist(p, then), AtRest, book \in Books, UNCHANGED book,
           moved' = [moved EXCEPT ![book] = p],
           screen' \in Books \cup {None},
           tracked' \in BOOLEAN, tracked' => screen' \in Books /\ book = screen',
           then = "begin" => screen' \in Books
    PROVE  SInv'
<1>1. /\ pc = "idle" /\ resume = "none" /\ SessionTypes /\ NewestIdentity /\ OwnIdentity
      /\ KeptOrLast /\ VInv /\ TypeOK
  BY DEF RInv, SInv, VInv, AtRest
<1>2. /\ want' = <<book, p>> /\ seen' = p /\ newest' = newest
      /\ pc' \in {"idle", "replacing"}
      /\ held' = (held \/ pc' = "idle")
      /\ resume' = IF pc' = "idle" THEN "none" ELSE then
  BY <1>1 DEF Persist, PersistProgress
<1>3. <<book, p>> \in Bodies /\ Next
  <2>1. <<book, p>> \in Bodies
    BY ReadingAssumption
  <2> QED BY <2>1 DEF Persist, Next
<1>4. NewestIdentity'
  BY <1>1, <1>3, StepNewestIdentity
<1>5. OwnIdentity'
  <2>1. current' = current \/ (current' = nextId /\ newest[nextId] = None)
    BY <1>1 DEF Persist, PersistProgress, NewestIdentity, TypeOK, Ids
  <2> QED BY <1>1, <1>2, <2>1 DEF OwnIdentity
<1>6. SessionTypes'
  BY <1>1, <1>2 DEF SessionTypes
<1>7. moved'[book] = p /\ \A b \in Books : b # book => moved'[b] = moved[b]
  BY <1>1 DEF SessionTypes
<1>8. KeepsPosition'
  BY <1>2 DEF KeepsPosition, WriteUnderWay, Writing
<1>9. PositionAtHand'
  BY <1>2, <1>7, <1>8 DEF PositionAtHand
<1>10. TrackedIsShown'
  BY <1>2 DEF TrackedIsShown
<1>11. ResumeWaits'
  BY <1>2 DEF ResumeWaits, WriteUnderWay, Writing
<1>12. ASSUME NEW b \in Books, moved'[b] # None
       PROVE  (book' = b /\ seen' = moved'[b] /\ KeepsPosition') \/ LastOf(b)'
  <2>1. CASE b = book
    BY <1>2, <1>7, <1>8, <2>1
  <2>2. CASE b # book
    <3>1. moved'[b] = moved[b] /\ moved[b] # None
      BY <1>7, <1>12, <2>2
    <3>2. LastOf(b)
      BY <1>1, <2>2, <3>1 DEF KeptOrLast
    <3> QED BY <1>2, <3>1, <3>2, LastOfStays
  <2> QED BY <2>1, <2>2
<1>13. KeptOrLast'
  BY <1>12 DEF KeptOrLast
<1> QED
  BY <1>4, <1>5, <1>6, <1>9, <1>10, <1>11, <1>13 DEF SInv

(* A session ends or begins with nothing held: every movement is in an event. *)
LEMMA ForgettingKeeps ==
    ASSUME RInv, Forget, pc = "idle", ~held,
           seen' = None, UNCHANGED <<held, moved>>, resume' = "none",
           book' \in Books \cup {None}, screen' \in Books \cup {None},
           tracked' \in BOOLEAN, tracked' => screen' \in Books /\ book' = screen'
    PROVE  SInv'
<1>1. SessionTypes /\ NewestIdentity /\ KeptOrLast /\ VInv /\ [Next]_vars
  BY DEF RInv, SInv, Forget, Next
<1>2. current' = 0 /\ UNCHANGED <<pc, newest, want>>
  BY ForgetDoes
<1>3. NewestIdentity'
  BY <1>1, StepNewestIdentity
<1>4. ~KeepsPosition /\ ~KeepsPosition'
  BY <1>2 DEF KeepsPosition, WriteUnderWay, Writing
<1>5. ASSUME NEW b \in Books, moved'[b] # None PROVE LastOf(b)'
  <2>1. moved'[b] = moved[b] /\ LastOf(b)
    BY <1>1, <1>4, <1>5 DEF KeptOrLast
  <2> QED BY <1>2, <2>1, LastOfStays
<1>6. KeptOrLast'
  BY <1>5 DEF KeptOrLast
<1>7. SessionTypes' /\ TrackedIsShown' /\ ResumeWaits'
  BY <1>1 DEF SessionTypes, TrackedIsShown, ResumeWaits
<1>8. PositionAtHand' /\ OwnIdentity'
  BY <1>2, <1>4 DEF PositionAtHand, OwnIdentity
<1> QED BY <1>3, <1>6, <1>7, <1>8 DEF SInv

(* The write goes on: the position comes to the card, or is held, or is still on
   its way there. *)
LEMMA WriteStepKeeps == RInv /\ WriteStep => SInv'
<1> SUFFICES ASSUME RInv, WriteStep PROVE SInv'
  OBVIOUS
<1>1. /\ SessionTypes /\ PositionAtHand /\ TrackedIsShown /\ ResumeWaits /\ OwnIdentity
      /\ NewestIdentity /\ KeptOrLast /\ TypeOK /\ VInv /\ WriterPlaced
      /\ UNCHANGED <<book, seen, screen, tracked, moved>>
      /\ ReplaceUnattempted \/ ReserveReplacement \/ Enqueue
  BY DEF RInv, SInv, VInv, WriteStep
<1>2. WriteUnderWay /\ UNCHANGED want
  BY <1>1 DEF WriteUnderWay, Writing, ReplaceUnattempted, ReserveReplacement, Enqueue, writer
<1>3. /\ book \in Books /\ seen \in Positions /\ moved[book] = seen /\ want = <<book, seen>>
      /\ want \in Bodies /\ want # None
  BY <1>1, <1>2, ReadingAssumption, OutboxAssumption DEF PositionAtHand, KeepsPosition
<1>4. NewestIdentity'
  <2>1. [Next]_vars
    BY <1>1 DEF Next
  <2> QED BY <1>1, <2>1, StepNewestIdentity
<1>5. \/ Stored(current, want) /\ current # 0 /\ UNCHANGED <<current, nextId>>
      \/ UNCHANGED newest /\ KeepsPosition'
  <2>1. CASE ReplaceUnattempted
    BY <1>1, <2>1 DEF ReplaceUnattempted, NotStored, WriterPlaced, Writing, writer,
                      KeepsPosition, WriteUnderWay
  <2>2. CASE ReserveReplacement
    <3>1. UNCHANGED newest /\ pc' \in {"enqueueing", "idle"}
      BY <2>2 DEF ReserveReplacement
    <3>2. pc' = "idle" => held'
      BY <2>2 DEF WriteStep, Returns, ReplaceUnattempted, ReserveReplacement, Enqueue
    <3> QED BY <3>1, <3>2 DEF KeepsPosition, WriteUnderWay, Writing
  <2>3. CASE Enqueue
    <3>1. current # 0 /\ UNCHANGED <<current, nextId>> /\ pend[current] = None
      BY <1>1, <2>3 DEF Enqueue, WriterPlaced, Writing, writer, NewestIdentity
    <3>2. Stored(current, want) \/ UNCHANGED <<pend, newest>>
      BY <2>3 DEF Enqueue
    <3>3. UNCHANGED pend => held'
      BY <1>3, <2>3, <3>1
         DEF WriteStep, Returns, ReplaceUnattempted, ReserveReplacement, Enqueue
    <3> QED BY <3>1, <3>2, <3>3 DEF KeepsPosition
  <2> QED BY <1>1, <2>1, <2>2, <2>3
<1>6. KeptOrLast'
  <2> SUFFICES ASSUME NEW b \in Books, moved'[b] # None
               PROVE  (book' = b /\ seen' = moved'[b] /\ KeepsPosition') \/ LastOf(b)'
    BY DEF KeptOrLast
  <2>1. moved[b] # None /\ moved'[b] = moved[b] /\ UNCHANGED moved
    BY <1>1
  <2>2. CASE Stored(current, want) /\ current # 0 /\ UNCHANGED <<current, nextId>>
    BY <1>2, <2>1, <2>2, StoredIsLast
  <2>3. CASE UNCHANGED newest /\ KeepsPosition'
    BY <1>1, <2>1, <2>3, LastOfStays DEF KeptOrLast
  <2> QED BY <1>5, <2>2, <2>3
<1>7. OwnIdentity'
  <2>1. CASE Stored(current, want) /\ current # 0 /\ UNCHANGED <<current, nextId>>
    <3>1. newest'[current] = want /\ want[1] = book
      BY <1>1, <1>3, <2>1 DEF Stored, TypeOK
    <3> QED BY <1>1, <2>1, <3>1 DEF OwnIdentity
  <2>2. CASE UNCHANGED newest
    <3>1. current' = current \/ (current' = nextId /\ newest[nextId] = None)
      BY <1>1 DEF ReplaceUnattempted, ReserveReplacement, Enqueue, writer, NewestIdentity,
                  TypeOK, Ids
    <3> QED BY <1>1, <2>2, <3>1 DEF OwnIdentity
  <2> QED BY <1>5, <2>1, <2>2
<1>8. /\ held' \in BOOLEAN /\ resume' \in {"none", "page", "begin", "exit", "sync"}
      /\ resume' \in {"none", resume}
      /\ pc' = "idle" /\ resume' # "none" => ~held'
      /\ pc' \in Writing \cup {"reserving", "idle"}
  BY <1>1 DEF WriteStep, Returns, SessionTypes, ReplaceUnattempted, ReserveReplacement,
              Enqueue, Writing
<1>9. SessionTypes' /\ TrackedIsShown' /\ ResumeWaits'
  BY <1>1, <1>8 DEF SessionTypes, TrackedIsShown, ResumeWaits, WriteUnderWay
<1>10. PositionAtHand'
  BY <1>1, <1>2, <1>3 DEF PositionAtHand
<1> QED BY <1>4, <1>6, <1>7, <1>9, <1>10 DEF SInv

(* The exchange runs while nothing is held and writes no event. *)
LEMMA ExchangeKeepsSession == RInv /\ Exchange => SInv'
<1> SUFFICES ASSUME RInv, Exchange PROVE SInv'
  OBVIOUS
<1>1. /\ SessionTypes /\ PositionAtHand /\ TrackedIsShown /\ ResumeWaits /\ OwnIdentity
      /\ NewestIdentity /\ KeptOrLast /\ VInv
      /\ UNCHANGED <<book, seen, held, screen, tracked, resume, moved>>
  BY DEF RInv, SInv, Exchange, session
<1>2. [Next]_vars
  BY DEF Exchange, Next
<1>3. NewestIdentity'
  BY <1>1, <1>2, StepNewestIdentity
<1>4. /\ UNCHANGED <<newest, want, current>>
      /\ \/ pc' = pc
         \/ pc = "idle" /\ resume = "none" /\ ~WriteUnderWay'
         \/ ~WriteUnderWay /\ pc # "idle" /\ ~WriteUnderWay'
  BY DEF Exchange, AtRest, StartExchange, MarkAttempted, RetireAcknowledged, Post,
         ServerTakes, Answer, FinishExchange, GiveUp, Boot, writer, world, exchange,
         WriteUnderWay, Writing
<1>5. WriteUnderWay' = WriteUnderWay /\ KeepsPosition' = KeepsPosition
  BY <1>1, <1>4 DEF WriteUnderWay, KeepsPosition, Writing
<1>6. SessionTypes' /\ PositionAtHand' /\ TrackedIsShown' /\ OwnIdentity'
  BY <1>1, <1>4, <1>5 DEF SessionTypes, PositionAtHand, TrackedIsShown, OwnIdentity
<1>7. ResumeWaits'
  BY <1>1, <1>4, <1>5 DEF ResumeWaits
<1>8. KeptOrLast'
  BY <1>1, <1>4, <1>5, LastOfStays DEF KeptOrLast
<1> QED BY <1>3, <1>6, <1>7, <1>8 DEF SInv

(* The power is lost, and the movement that was only in memory with it. *)
LEMMA LosePowerKeeps == RInv /\ LosePower => SInv'
<1> SUFFICES ASSUME RInv, LosePower PROVE SInv'
  OBVIOUS
<1>1. SessionTypes /\ NewestIdentity /\ KeptOrLast /\ VInv /\ [Next]_vars
  BY DEF RInv, SInv, LosePower, Next
<1>2. /\ pc' = "off" /\ current' = 0 /\ UNCHANGED newest
      /\ book' = None /\ seen' = None /\ held' = FALSE
      /\ screen' = None /\ tracked' = FALSE /\ resume' = "none"
  BY DEF LosePower, PowerLoss
<1>3. NewestIdentity'
  BY <1>1, StepNewestIdentity
<1>4. /\ moved' \in [Books -> Positions \cup {None}]
      /\ \A b \in Books : moved'[b] # None =>
            moved'[b] = moved[b] /\ ~(b = book /\ KeepsPosition)
  BY <1>1 DEF LosePower, SessionTypes, KeepsPosition, WriteUnderWay, Writing
<1>5. ASSUME NEW b \in Books, moved'[b] # None PROVE LastOf(b)'
  <2>1. moved'[b] = moved[b] /\ LastOf(b)
    BY <1>1, <1>4, <1>5 DEF KeptOrLast
  <2> QED BY <1>2, <2>1, LastOfStays
<1>6. KeptOrLast'
  BY <1>5 DEF KeptOrLast
<1>7. SessionTypes' /\ TrackedIsShown' /\ ResumeWaits' /\ OwnIdentity'
  BY <1>2, <1>4 DEF SessionTypes, TrackedIsShown, ResumeWaits, OwnIdentity
<1>8. PositionAtHand'
  BY <1>2 DEF PositionAtHand, KeepsPosition, WriteUnderWay, Writing
<1> QED BY <1>3, <1>6, <1>7, <1>8 DEF SInv

(* A page is recorded: the first of a session is only remembered. *)
LEMMA RecordPositionKeeps ==
    ASSUME RInv, NEW p \in Positions, NEW jump \in BOOLEAN, RecordPosition(p, jump)
    PROVE  SInv'
<1>1. /\ SessionTypes /\ PositionAtHand /\ TrackedIsShown /\ ResumeWaits /\ OwnIdentity
      /\ NewestIdentity /\ KeptOrLast
      /\ AtRest /\ screen \in Books /\ book = screen /\ tracked
      /\ UNCHANGED <<book, screen, tracked>>
  BY DEF RInv, SInv, RecordPosition, TrackedIsShown
<1>2. CASE seen = None /\ ~jump
  <2>1. /\ seen' = p /\ UNCHANGED <<vars, held, resume, moved>>
    BY <1>2 DEF RecordPosition
  <2>2. ~KeepsPosition
    BY <1>1, <1>2, ReadingAssumption DEF PositionAtHand
  <2>3. /\ UNCHANGED <<pend, bak, nextId, pc, want, current, newest>>
        /\ UNCHANGED <<WriteUnderWay, KeepsPosition>>
    BY <2>1 DEF vars, WriteUnderWay, KeepsPosition
  <2>4. NewestIdentity' /\ OwnIdentity'
    BY <1>1, <2>3 DEF NewestIdentity, OwnIdentity
  <2>5. SessionTypes' /\ TrackedIsShown' /\ ResumeWaits' /\ PositionAtHand'
    BY <1>1, <2>1, <2>2, <2>3
       DEF SessionTypes, TrackedIsShown, ResumeWaits, PositionAtHand
  <2>6. KeptOrLast'
    BY <1>1, <2>1, <2>2, <2>3, LastOfStays DEF KeptOrLast
  <2> QED BY <2>4, <2>5, <2>6 DEF SInv
<1>3. CASE ~(seen = None /\ ~jump)
  <2>1. Persist(p, "page") /\ moved' = [moved EXCEPT ![book] = p]
    BY <1>1, <1>3 DEF RecordPosition
  <2>2. screen' \in Books \cup {None} /\ tracked' \in BOOLEAN
    BY <1>1 DEF SessionTypes
  <2> QED BY <1>1, <2>1, <2>2, PersistKeeps
<1> QED BY <1>2, <1>3

(* A position that is held is tried again, by whoever comes next. *)
LEMMA RetryKeeps ==
    ASSUME RInv, held, AtRest, NEW then \in {"page", "begin", "exit", "sync"},
           Persist(seen, then), UNCHANGED <<book, moved>>,
           screen' \in Books \cup {None},
           tracked' \in BOOLEAN, tracked' => screen' \in Books /\ book = screen',
           then = "begin" => screen' \in Books
    PROVE  SInv'
<1>1. book \in Books /\ seen \in Positions /\ moved[book] = seen
  BY DEF RInv, SInv, PositionAtHand, KeepsPosition
<1>2. moved' = [moved EXCEPT ![book] = seen]
  BY <1>1 DEF RInv, SInv, SessionTypes
<1> QED BY <1>1, <1>2, PersistKeeps

LEMMA StepSInv == RInv /\ [ReadingNext]_allVars => SInv'
<1> SUFFICES ASSUME RInv, [ReadingNext]_allVars PROVE SInv'
  OBVIOUS
<1>0. SessionTypes /\ TrackedIsShown /\ ResumeWaits
  BY DEF RInv, SInv
<1>1. ASSUME NEW p \in Positions, NEW jump \in BOOLEAN, RecordPosition(p, jump)
      PROVE  SInv'
  BY <1>1, RecordPositionKeeps
<1>2. CASE RetryPendingProgress
  <2>1. /\ held /\ AtRest /\ Persist(seen, "page")
        /\ UNCHANGED <<book, screen, tracked, moved>>
    BY <1>2 DEF RetryPendingProgress
  <2>2. /\ screen' \in Books \cup {None} /\ tracked' \in BOOLEAN
        /\ tracked' => screen' \in Books /\ book = screen'
    BY <1>0, <2>1 DEF SessionTypes, TrackedIsShown
  <2> QED BY <2>1, <2>2, RetryKeeps
<1>3. ASSUME NEW b \in Books, OpenBook(b) PROVE SInv'
  <2>1. AtRest /\ screen' = b /\ UNCHANGED moved
    BY <1>3 DEF OpenBook
  <2>2. CASE held
    <3>1. Persist(seen, "begin") /\ tracked' = FALSE /\ UNCHANGED book
      BY <1>3, <2>2 DEF OpenBook
    <3> QED BY <2>1, <2>2, <3>1, RetryKeeps
  <2>3. CASE ~held
    <3>1. Begun(b) /\ UNCHANGED <<held, resume>>
      BY <1>3, <2>3 DEF OpenBook
    <3> QED BY <2>1, <2>3, <3>1, ForgettingKeeps DEF Begun, AtRest
  <2> QED BY <2>2, <2>3
<1>4. ASSUME NEW then \in {"exit", "sync"}, CloseBook(then) PROVE SInv'
  <2>1. /\ AtRest /\ UNCHANGED moved /\ tracked' = (tracked /\ screen' # None)
        /\ tracked \in BOOLEAN
    BY <1>0, <1>4 DEF CloseBook, SessionTypes
  <2>2. CASE held
    <3>1. /\ Persist(seen, then) /\ UNCHANGED book
          /\ screen' \in {None, screen}
      BY <1>4, <2>2 DEF CloseBook
    <3>2. /\ screen' \in Books \cup {None} /\ tracked' \in BOOLEAN
          /\ tracked' => screen' \in Books /\ book = screen'
      BY <1>0, <2>1, <3>1 DEF SessionTypes, TrackedIsShown
    <3> QED BY <2>1, <2>2, <3>1, <3>2, RetryKeeps
  <2>3. CASE ~held
    <3>1. Ended /\ screen' = None /\ UNCHANGED <<held, resume>>
      BY <1>4, <2>3 DEF CloseBook
    <3> QED BY <2>1, <2>3, <3>1, ForgettingKeeps DEF Ended, AtRest
  <2> QED BY <2>2, <2>3
<1>5. CASE Continue
  <2>1. /\ pc = "idle" /\ resume' = "none" /\ UNCHANGED <<held, moved>>
        /\ resume \in {"begin", "exit", "sync"}
    BY <1>5 DEF Continue
  <2>2. ~held
    BY <1>0, <2>1 DEF ResumeWaits, WriteUnderWay, Writing
  <2>3. CASE resume = "begin"
    <3>1. Begun(screen) /\ screen' = screen /\ screen \in Books
      BY <1>0, <1>5, <2>3 DEF Continue, TrackedIsShown
    <3> QED BY <2>1, <2>2, <3>1, ForgettingKeeps DEF Begun
  <2>4. CASE resume # "begin"
    <3>1. Ended /\ screen' = None /\ tracked' = FALSE
      BY <1>5, <2>4 DEF Continue
    <3> QED BY <2>1, <2>2, <3>1, ForgettingKeeps DEF Ended
  <2> QED BY <2>3, <2>4
<1>6. CASE UNCHANGED allVars
  BY <1>6 DEF RInv, SInv, allVars, vars, session, SessionTypes, PositionAtHand,
              TrackedIsShown, ResumeWaits, NewestIdentity, OwnIdentity, KeptOrLast,
              KeepsPosition, WriteUnderWay, LastOf, Events
<1> QED
  BY <1>1, <1>2, <1>3, <1>4, <1>5, <1>6, WriteStepKeeps, ExchangeKeepsSession,
     LosePowerKeeps DEF ReadingNext

LEMMA InitRInv == ReadingInit => RInv
<1> SUFFICES ASSUME ReadingInit PROVE RInv
  OBVIOUS
<1>1. VInv
  BY InitVInv DEF ReadingInit
<1>2. SessionTypes /\ TrackedIsShown /\ ResumeWaits
  BY DEF ReadingInit, SessionTypes, TrackedIsShown, ResumeWaits
<1>3. PositionAtHand /\ NewestIdentity /\ OwnIdentity /\ KeptOrLast
  BY OutboxAssumption
     DEF ReadingInit, Init, PositionAtHand, NewestIdentity, OwnIdentity, KeptOrLast,
         KeepsPosition, WriteUnderWay, Writing, Ids
<1> QED BY <1>1, <1>2, <1>3 DEF RInv, SInv

(* The invariant of the session and its outbox. *)
THEOREM SessionInductive == ReadingSpec => []RInv
<1>1. RInv /\ [ReadingNext]_allVars => RInv'
  BY StepOfOutbox, StepVInv, StepSInv DEF RInv
<1> QED
  BY <1>1, InitRInv, PTL DEF ReadingSpec

(* The outbox below a reading session behaves as Outbox says, whichever of the
   reader, its destructor, the sync screen or the scheduler drives it. *)
THEOREM SessionIsOutbox == ReadingSpec => Spec
<1>1. ReadingInit => Init
  BY DEF ReadingInit
<1>2. RInv /\ [ReadingNext]_allVars => [Next]_vars
  BY StepOfOutbox DEF RInv
<1> QED
  BY <1>1, <1>2, SessionInductive, PTL DEF ReadingSpec, Spec

(* ... so under a session too no event leaves the card before the server has it. *)
THEOREM SessionKeepsEvents == ReadingSpec => []NoEventVanishes
<1> QED
  BY SessionIsOutbox, NothingVanishes, PTL

(* The last movement of every book is in its newest event, or in the memory of the
   session that is still trying to write it: for any books, positions, identities
   and resets, and whichever storage call fails. *)
THEOREM LastMovementKept == ReadingSpec => []LastMovementIsKept
<1>1. RInv => LastMovementIsKept
  BY DEF RInv, SInv, KeptOrLast, LastMovementIsKept, LastOf, KeepsPosition, WriteUnderWay,
         Writing
<1> QED
  BY <1>1, SessionInductive, PTL
=============================================================================
