-------------------------- MODULE CheckpointProofs --------------------------
(***************************************************************************)
(* For any (even) generation modulus, sequence limit and set of cursors,   *)
(* as long as boots read the slots: identities are never reused and an     *)
(* acknowledged cursor is never lost.  As long as every boot reads at      *)
(* least one slot: no more than one save is lost.                          *)
(***************************************************************************)
EXTENDS Checkpoint, TLAPS

(* The record a boot would continue with. *)
Current == SelectNewest(disk["A"], disk["B"])

(* Every record sits in the slot its generation selects. *)
SlotsMatch == \A s \in Slots : disk[s] # None => SlotOf(disk[s].gen) = s

(* What the running session knows agrees with the card. *)
Synchronised ==
    /\ pc = "up" => Current = state
    /\ pc = "saving" =>
         Current = IF todo.op = "init" THEN None ELSE state
    /\ pc = "saved" => Current = todo.ckpt

(* The record being saved is the next one after the session's. *)
SaveFollows ==
    pc \in {"saving", "saved"} =>
        /\ todo.ckpt.gen = NextGen(state.gen)
        /\ todo.ckpt.next = IF todo.op = "reserve" THEN state.next + 1 ELSE state.next
        /\ todo.ckpt.cursor >= state.cursor
        /\ todo.op = "init" => state = Fresh
        /\ todo.op # "none"

Promised == IF Current = None THEN Fresh ELSE Current

(* Everything promised to callers is below what the card, and the session,
   continue from. *)
PromisesKept ==
    /\ \A i \in DOMAIN issued : issued[i] < Promised.next
    /\ acked <= Promised.cursor
    /\ pc # "off" =>
         /\ \A i \in DOMAIN issued : issued[i] < state.next
         /\ acked <= state.cursor

Increasing == \A i, j \in DOMAIN issued : i < j => issued[i] < issued[j]

(* What holds while every boot has read both slots. *)
Sighted ==
    /\ TypeOK
    /\ SlotsMatch
    /\ Synchronised
    /\ SaveFollows
    /\ PromisesKept
    /\ Increasing

IInv == TypeOK /\ SaveFollows /\ (unread = {} => Sighted)

-----------------------------------------------------------------------------
(* Generations go round without two neighbours ever looking out of order. *)
LEMMA NextGenOrder ==
  ASSUME NEW g \in Generations
  PROVE  /\ NextGen(g) \in Generations
         /\ Newer(NextGen(g), g)
         /\ ~ Newer(g, NextGen(g))
  BY CheckpointAssumption DEF NextGen, Newer, Generations

LEMMA NextGenAlternates ==
  ASSUME NEW g \in Generations
  PROVE  SlotOf(NextGen(g)) # SlotOf(g)
  BY CheckpointAssumption DEF NextGen, SlotOf, Generations

(* A record that follows the newest one becomes the newest one: it overwrites
   the other slot. *)
LEMMA NewestAfterSave ==
  ASSUME NEW d \in [Slots -> Checkpoints \cup {None}],
         NEW c \in Checkpoints,
         \A s \in Slots : d[s] # None => SlotOf(d[s].gen) = s,
         LET n == SelectNewest(d["A"], d["B"])
         IN  n # None => c.gen = NextGen(n.gen)
  PROVE  LET e == [d EXCEPT ![SlotOf(c.gen)] = c]
         IN  /\ e \in [Slots -> Checkpoints \cup {None}]
             /\ SelectNewest(e["A"], e["B"]) = c
             /\ \A s \in Slots : e[s] # None => SlotOf(e[s].gen) = s
<1> DEFINE n == SelectNewest(d["A"], d["B"])
           e == [d EXCEPT ![SlotOf(c.gen)] = c]
<1> USE CheckpointAssumption
<1>1. SlotOf(c.gen) \in Slots /\ c.gen \in Generations
  BY DEF SlotOf, Slots, Checkpoints
<1>2. e \in [Slots -> Checkpoints \cup {None}]
  BY <1>1
<1>3. \A s \in Slots : e[s] # None => SlotOf(e[s].gen) = s
  BY <1>1
<1>4. c # None
  OBVIOUS
<1>5. CASE n = None
  <2>1. d["A"] = None /\ d["B"] = None
    BY <1>5 DEF SelectNewest
  <2> QED BY <1>1, <1>2, <1>3, <1>4, <2>1 DEF SelectNewest, Slots
<1>6. CASE n # None
  <2>1. n \in {d["A"], d["B"]} /\ n \in Checkpoints
    BY <1>6 DEF SelectNewest, Slots
  <2>2. n.gen \in Generations
    BY <2>1 DEF Checkpoints
  <2>3. n = d[SlotOf(n.gen)]
    BY <1>6, <2>1 DEF Slots
  <2>4. /\ Newer(c.gen, n.gen)
        /\ ~ Newer(n.gen, c.gen)
        /\ SlotOf(c.gen) # SlotOf(n.gen)
    BY <1>6, <2>2, NextGenOrder, NextGenAlternates
  <2>5. SelectNewest(e["A"], e["B"]) = c
    <3>1. CASE SlotOf(c.gen) = "A"
      <4>1. e["A"] = c /\ e["B"] = n
        BY <3>1, <2>3, <2>4, <1>1 DEF Slots, SlotOf
      <4> QED BY <4>1, <2>4, <1>4, <1>6 DEF SelectNewest
    <3>2. CASE SlotOf(c.gen) = "B"
      <4>1. e["B"] = c /\ e["A"] = n
        BY <3>2, <2>3, <2>4, <1>1 DEF Slots, SlotOf
      <4> QED BY <4>1, <2>4, <1>4, <1>6 DEF SelectNewest
    <3> QED BY <3>1, <3>2, <1>1 DEF Slots
  <2> QED BY <1>2, <1>3, <2>5
<1> QED BY <1>5, <1>6

-----------------------------------------------------------------------------
LEMMA InitSighted == Init => Sighted
<1> SUFFICES ASSUME Init PROVE Sighted
  OBVIOUS
<1> USE CheckpointAssumption DEF Init
<1>1. Fresh \in Checkpoints
  BY DEF Fresh, Checkpoints, Generations
<1>2. TypeOK
  BY <1>1 DEF TypeOK, NoSave
<1>3. SlotsMatch /\ Synchronised /\ SaveFollows
  BY DEF SlotsMatch, Synchronised, SaveFollows
<1>4. Current = None
  BY DEF Current, SelectNewest, Slots
<1>5. PromisesKept /\ Increasing
  BY <1>4 DEF PromisesKept, Promised, Fresh, Increasing
<1> QED BY <1>2, <1>3, <1>5 DEF Sighted

(* Preparing a save: the card and the promises are as they were. *)
LEMMA SaveKeepsSighted ==
  ASSUME Sighted, pc = "up",
         NEW op \in {"reserve", "cursor", "anchor"},
         NEW c \in Checkpoints,
         c.gen = state.gen,
         c.next = (IF op = "reserve" THEN state.next + 1 ELSE state.next),
         c.cursor >= state.cursor,
         Save(op, c),
         UNCHANGED <<disk, state, ghosts>>
  PROVE  Sighted'
<1> USE CheckpointAssumption
<1> DEFINE new == [c EXCEPT !.gen = NextGen(c.gen)]
<1>1. state \in Checkpoints /\ state.gen \in Generations
  BY DEF Sighted, TypeOK, Checkpoints
<1>2. /\ new \in Checkpoints
      /\ new.gen = NextGen(state.gen)
      /\ new.next = c.next
      /\ new.cursor = c.cursor
  BY <1>1, NextGenOrder DEF Checkpoints
<1>3. todo' = [op |-> op, ckpt |-> new] /\ pc' = "saving"
  BY DEF Save
<1>4. TypeOK'
  BY <1>2, <1>3 DEF Sighted, TypeOK, ghosts
<1>5. SlotsMatch'
  BY DEF Sighted, SlotsMatch
<1>6. Current' = Current
  BY DEF Current
<1>7. Synchronised'
  BY <1>3, <1>6 DEF Sighted, Synchronised
<1>8. SaveFollows'
  BY <1>2, <1>3 DEF SaveFollows
<1>9. PromisesKept'
  BY <1>3, <1>6 DEF Sighted, PromisesKept, Promised, ghosts
<1>10. Increasing'
  BY DEF Sighted, Increasing, ghosts
<1> QED BY <1>4, <1>5, <1>7, <1>8, <1>9, <1>10 DEF Sighted

(* Every step keeps it, but for a boot that misses a slot. *)
LEMMA StepSighted == ASSUME Sighted, [Next]_vars, unread' = {} PROVE Sighted'
<1> USE CheckpointAssumption
<1>0. /\ state \in Checkpoints
      /\ state.gen \in Generations
      /\ state.next \in 1 .. MaxSequence
      /\ state.cursor \in Cursors
      /\ todo.ckpt \in Checkpoints
      /\ todo.ckpt.next \in 1 .. MaxSequence
      /\ todo.ckpt.cursor \in Cursors
      /\ Fresh \in Checkpoints
  BY DEF Sighted, TypeOK, Checkpoints, Fresh, Generations
<1>0a. state.cursor \in Nat /\ todo.ckpt.cursor \in Nat
  <2>1. \A x \in Cursors : x \in Nat
    OBVIOUS
  <2> QED BY <1>0, <2>1
<1>1. ASSUME NEW missed \in Missed, Begin(missed) PROVE Sighted'
  <2>1. /\ pc = "off"
        /\ UNCHANGED <<disk, issued, acked, last, prev>>
        /\ Current # None => state' = Current /\ pc' = "up" /\ UNCHANGED todo
        /\ Current = None => state' = Fresh /\ Save("init", Fresh)
    BY <1>1 DEF Begin, Read, Current
  <2>2. Current \in Checkpoints \cup {None} /\ Current' = Current
    BY <2>1 DEF Current, SelectNewest, Sighted, TypeOK, Slots
  <2>3. CASE Current # None
    <3>1. TypeOK'
      BY <2>1, <2>2, <2>3 DEF Sighted, TypeOK
    <3>2. SlotsMatch' /\ Synchronised' /\ SaveFollows'
      BY <2>1, <2>2, <2>3 DEF Sighted, SlotsMatch, Synchronised, SaveFollows
    <3>3. PromisesKept' /\ Increasing'
      BY <2>1, <2>2, <2>3 DEF Sighted, PromisesKept, Promised, Increasing
    <3> QED BY <3>1, <3>2, <3>3 DEF Sighted
  <2>4. CASE Current = None
    <3> DEFINE first == [Fresh EXCEPT !.gen = NextGen(Fresh.gen)]
    <3>1. /\ first \in Checkpoints
          /\ first.gen = NextGen(Fresh.gen)
          /\ first.next = Fresh.next
          /\ first.cursor = Fresh.cursor
      <4>1. Fresh.gen \in Generations
        BY <1>0 DEF Checkpoints
      <4> QED BY <1>0, <4>1, NextGenOrder DEF Checkpoints
    <3>2. pc' = "saving" /\ todo' = [op |-> "init", ckpt |-> first] /\ state' = Fresh
      BY <2>1, <2>4 DEF Save
    <3>3. TypeOK'
      BY <1>0, <2>1, <3>1, <3>2 DEF Sighted, TypeOK
    <3>4. SlotsMatch' /\ Synchronised'
      BY <2>1, <2>2, <2>4, <3>2 DEF Sighted, SlotsMatch, Synchronised
    <3>5. SaveFollows'
      BY <3>1, <3>2, <1>0 DEF SaveFollows, Checkpoints
    <3>6. PromisesKept' /\ Increasing'
      BY <2>1, <2>2, <2>4, <3>2 DEF Sighted, PromisesKept, Promised, Increasing
    <3> QED BY <3>3, <3>4, <3>5, <3>6 DEF Sighted
  <2> QED BY <2>3, <2>4
<1>2. CASE ReserveIdentity
  <2> DEFINE c == [state EXCEPT !.next = @ + 1]
  <2>1. /\ c \in Checkpoints
        /\ c.gen = state.gen
        /\ c.next = state.next + 1
        /\ c.cursor >= state.cursor
    BY <1>0, <1>2 DEF ReserveIdentity, Checkpoints
  <2>2. /\ pc = "up"
        /\ Save("reserve", c)
        /\ UNCHANGED <<disk, state, ghosts>>
    BY <1>2 DEF ReserveIdentity
  <2> HIDE DEF c
  <2> QED BY <2>1, <2>2, SaveKeepsSighted
<1>3. ASSUME NEW x \in Cursors, CommitAppliedCursor(x) PROVE Sighted'
  <2> DEFINE c == [state EXCEPT !.cursor = x]
  <2>1. /\ c \in Checkpoints
        /\ c.gen = state.gen
        /\ c.next = state.next
        /\ c.cursor = x
    BY <1>0, <1>3 DEF CommitAppliedCursor, Checkpoints
  <2>2. c.cursor >= state.cursor
    BY <1>0, <1>3, <2>1 DEF CommitAppliedCursor
  <2> QED BY <1>3, <2>1, <2>2, SaveKeepsSighted DEF CommitAppliedCursor
<1>4. CASE SetWallAnchor
  <2>1. /\ pc = "up"
        /\ Save("anchor", state)
        /\ UNCHANGED <<disk, state, ghosts>>
    BY <1>4 DEF SetWallAnchor
  <2>2. state.cursor >= state.cursor
    BY <1>0a
  <2> QED BY <1>0, <2>1, <2>2, SaveKeepsSighted
<1>5. CASE SaveReachesCard
  <2> DEFINE c == todo.ckpt
  <2>1. /\ pc = "saving"
        /\ disk' = [disk EXCEPT ![SlotOf(c.gen)] = c]
        /\ pc' = "saved" /\ last' = c /\ prev' = state
        /\ UNCHANGED <<state, todo, issued, acked, unread>>
    BY <1>5 DEF SaveReachesCard
  <2>2. Current # None => c.gen = NextGen(Current.gen)
    BY <2>1 DEF Sighted, Synchronised, SaveFollows
  <2>3. disk' \in [Slots -> Checkpoints \cup {None}] /\ Current' = c /\ SlotsMatch'
    <3>1. disk \in [Slots -> Checkpoints \cup {None}] /\ SlotsMatch
      BY DEF Sighted, TypeOK
    <3>2. c \in Checkpoints
      BY <1>0
    <3> HIDE DEF c
    <3> QED BY <2>1, <2>2, <3>1, <3>2, NewestAfterSave DEF SlotsMatch, Current
  <2>4. TypeOK'
    BY <1>0, <2>1, <2>3 DEF Sighted, TypeOK
  <2>5. Synchronised' /\ SaveFollows'
    BY <2>1, <2>3 DEF Sighted, Synchronised, SaveFollows
  <2>6. PromisesKept'
    <3>1. c # None /\ Promised' = c
      BY <1>0, <2>3 DEF Promised
    <3>2. c.next >= state.next /\ c.cursor >= state.cursor
      BY <1>0, <2>1 DEF Sighted, SaveFollows
    <3>3. \A i \in DOMAIN issued : issued[i] \in Int /\ issued[i] < state.next
      BY <2>1 DEF Sighted, TypeOK, PromisesKept
    <3>4. acked \in Int /\ acked <= state.cursor
      BY <2>1 DEF Sighted, TypeOK, PromisesKept
    <3>5. acked' = acked /\ issued' = issued /\ state' = state
      BY <2>1
    <3>6. \A i \in DOMAIN issued : issued[i] < c.next
      BY <1>0, <3>2, <3>3
    <3>7. acked <= c.cursor
      BY <1>0a, <3>2, <3>4
    <3> HIDE DEF c
    <3> QED BY <3>1, <3>3, <3>4, <3>5, <3>6, <3>7 DEF PromisesKept
  <2>7. Increasing'
    BY <2>1 DEF Sighted, Increasing
  <2> QED BY <2>3, <2>4, <2>5, <2>6, <2>7 DEF Sighted
<1>6. CASE SaveSucceeds
  <2> DEFINE c == todo.ckpt
  <2>1. /\ pc = "saved" /\ pc' = "up"
        /\ state' = c /\ todo' = NoSave
        /\ issued' = (IF todo.op = "reserve" THEN Append(issued, state.next) ELSE issued)
        /\ acked' = (IF todo.op = "cursor" THEN c.cursor ELSE acked)
        /\ UNCHANGED <<disk, last, prev>>
    BY <1>6 DEF SaveSucceeds
  <2>2. Current' = c /\ Current = c /\ c # None
    BY <1>0, <2>1 DEF Sighted, Synchronised, Current
  <2>3. c.next = (IF todo.op = "reserve" THEN state.next + 1 ELSE state.next) /\ c.cursor >= state.cursor
    BY <2>1 DEF Sighted, SaveFollows
  <2>4. /\ issued \in Seq(1 .. MaxSequence - 1)
        /\ \A i \in DOMAIN issued : issued[i] \in Int /\ issued[i] < state.next
    BY <2>1 DEF Sighted, TypeOK, PromisesKept
  <2>5. /\ issued' \in Seq(1 .. MaxSequence - 1)
        /\ \A i \in DOMAIN issued' : issued'[i] < c.next
        /\ Increasing'
    <3>1. CASE todo.op = "reserve"
      <4>1. state.next \in 1 .. MaxSequence - 1
        BY <1>0, <2>3, <3>1
      <4>2. issued' = Append(issued, state.next) /\ c.next = state.next + 1
        BY <2>1, <2>3, <3>1
      <4>3. issued' \in Seq(1 .. MaxSequence - 1)
        BY <2>4, <4>1, <4>2
      <4>4. /\ DOMAIN issued = 1 .. Len(issued)
            /\ DOMAIN issued' = 1 .. Len(issued) + 1
            /\ \A i \in DOMAIN issued : issued'[i] = issued[i]
            /\ issued'[Len(issued) + 1] = state.next
            /\ Len(issued) \in Nat
        BY <2>4, <4>1, <4>2
      <4>5. \A i \in DOMAIN issued' : issued'[i] < c.next
        BY <1>0, <2>4, <4>2, <4>4
      <4>6. \A i, j \in DOMAIN issued : i < j => issued[i] < issued[j]
        BY DEF Sighted, Increasing
      <4>7. \A i, j \in DOMAIN issued' : i < j => issued'[i] < issued'[j]
        BY <2>4, <4>4, <4>6
      <4> QED BY <4>3, <4>5, <4>7 DEF Increasing
    <3>2. CASE todo.op # "reserve"
      BY <1>0, <2>1, <2>3, <2>4, <3>2 DEF Sighted, Increasing
    <3> QED BY <3>1, <3>2
  <2>6. acked' \in Cursors /\ acked' <= c.cursor
    <3>1. acked \in Cursors /\ acked <= state.cursor
      BY <2>1 DEF Sighted, TypeOK, PromisesKept
    <3>2. CASE todo.op = "cursor"
      <4>1. acked' = c.cursor
        BY <2>1, <3>2
      <4> QED BY <1>0, <1>0a, <4>1
    <3>3. CASE todo.op # "cursor"
      <4>1. acked' = acked
        BY <2>1, <3>3
      <4> QED BY <1>0, <1>0a, <2>3, <3>1, <4>1
    <3> QED BY <3>2, <3>3
  <2>7. TypeOK'
    BY <1>0, <2>1, <2>5, <2>6 DEF Sighted, TypeOK, NoSave
  <2>8. SlotsMatch' /\ Synchronised' /\ SaveFollows'
    BY <2>1, <2>2 DEF Sighted, SlotsMatch, Synchronised, SaveFollows
  <2>9. PromisesKept'
    BY <2>1, <2>2, <2>5, <2>6 DEF PromisesKept, Promised
  <2> QED BY <2>5, <2>7, <2>8, <2>9 DEF Sighted
<1>7. CASE SaveFails
  <2>1. /\ pc = "saving" /\ pc' = (IF todo.op = "init" THEN "off" ELSE "up")
        /\ todo' = NoSave
        /\ UNCHANGED <<disk, state, issued, acked, last, prev>>
    BY <1>7 DEF SaveFails, ghosts
  <2>2. Current' = Current
    BY <2>1 DEF Current
  <2>3. TypeOK'
    BY <1>0, <2>1 DEF Sighted, TypeOK, NoSave
  <2>4. SlotsMatch' /\ Synchronised' /\ SaveFollows'
    BY <2>1, <2>2 DEF Sighted, SlotsMatch, Synchronised, SaveFollows
  <2>5. PromisesKept' /\ Increasing'
    BY <2>1, <2>2 DEF Sighted, PromisesKept, Promised, Increasing
  <2> QED BY <2>3, <2>4, <2>5 DEF Sighted
<1>8. CASE PowerLoss
  <2>1. /\ pc' = "off" /\ state' = Fresh /\ todo' = NoSave
        /\ UNCHANGED <<disk, issued, acked, last, prev>>
    BY <1>8 DEF PowerLoss, ghosts
  <2>2. Current' = Current
    BY <2>1 DEF Current
  <2>3. TypeOK'
    BY <1>0, <2>1 DEF Sighted, TypeOK, NoSave
  <2>4. SlotsMatch' /\ Synchronised' /\ SaveFollows'
    BY <2>1, <2>2 DEF Sighted, SlotsMatch, Synchronised, SaveFollows
  <2>5. PromisesKept' /\ Increasing'
    BY <2>1, <2>2 DEF Sighted, PromisesKept, Promised, Increasing
  <2> QED BY <2>3, <2>4, <2>5 DEF Sighted
<1>9. CASE UNCHANGED vars
  <2>1. UNCHANGED <<disk, pc, state, todo, issued, acked, last, prev>>
    BY <1>9 DEF vars
  <2>2. Current' = Current
    BY <2>1 DEF Current
  <2>3. TypeOK'
    BY <2>1 DEF Sighted, TypeOK
  <2>4. SlotsMatch' /\ Synchronised' /\ SaveFollows'
    BY <2>1, <2>2 DEF Sighted, SlotsMatch, Synchronised, SaveFollows
  <2>5. PromisesKept' /\ Increasing'
    BY <2>1, <2>2 DEF Sighted, PromisesKept, Promised, Increasing
  <2> QED BY <2>3, <2>4, <2>5 DEF Sighted
<1> QED
  BY <1>1, <1>2, <1>3, <1>4, <1>5, <1>6, <1>7, <1>8, <1>9 DEF Next

(* What holds whatever a boot misses. *)
LEMMA StepTypeOK == ASSUME TypeOK, SaveFollows, [Next]_vars PROVE TypeOK'
<1> USE CheckpointAssumption
<1>0. /\ Fresh \in Checkpoints
      /\ NoSave \in [op : {"none", "init", "reserve", "cursor", "anchor"},
                     ckpt : Checkpoints]
  BY DEF NoSave, Fresh, Checkpoints, Generations
<1>1. ASSUME NEW op \in {"init", "reserve", "cursor", "anchor"},
             NEW c \in Checkpoints, Save(op, c)
      PROVE  /\ todo' \in [op : {"none", "init", "reserve", "cursor", "anchor"},
                            ckpt : Checkpoints]
             /\ pc' = "saving"
  <2>1. c.gen \in Generations
    BY DEF Checkpoints
  <2>2. [c EXCEPT !.gen = NextGen(c.gen)] \in Checkpoints
    BY <2>1, NextGenOrder DEF Checkpoints
  <2> QED BY <1>1, <2>2 DEF Save
<1>2. ASSUME NEW missed \in Missed, Begin(missed) PROVE TypeOK'
  <2> DEFINE found == SelectNewest(Read("A", missed), Read("B", missed))
  <2>1. found \in Checkpoints \cup {None}
    BY DEF SelectNewest, Read, TypeOK, Slots
  <2>2. /\ found # None => state' = found /\ pc' = "up" /\ UNCHANGED todo
        /\ found = None => state' = Fresh /\ Save("init", Fresh)
        /\ unread' = unread \cup missed
        /\ UNCHANGED <<disk, issued, acked, last, prev>>
    BY <1>2 DEF Begin
  <2> HIDE DEF found
  <2>3. CASE found # None
    BY <2>1, <2>2, <2>3 DEF TypeOK
  <2>4. CASE found = None
    BY <1>0, <1>1, <2>2, <2>4 DEF TypeOK
  <2> QED BY <2>3, <2>4
<1>3. CASE ReserveIdentity
  <2>1. state.next + 1 \in 1 .. MaxSequence
    BY <1>3 DEF ReserveIdentity, TypeOK, Checkpoints
  <2>2. [state EXCEPT !.next = @ + 1] \in Checkpoints
    BY <2>1 DEF TypeOK, Checkpoints
  <2> QED BY <1>1, <1>3, <2>2 DEF ReserveIdentity, TypeOK, ghosts
<1>4. ASSUME NEW x \in Cursors, CommitAppliedCursor(x) PROVE TypeOK'
  <2>1. [state EXCEPT !.cursor = x] \in Checkpoints
    BY DEF TypeOK, Checkpoints
  <2> QED BY <1>1, <1>4, <2>1 DEF CommitAppliedCursor, TypeOK, ghosts
<1>5. CASE SetWallAnchor
  BY <1>1, <1>5 DEF SetWallAnchor, TypeOK, ghosts
<1>6. CASE SaveReachesCard
  <2>1. SlotOf(todo.ckpt.gen) \in Slots
    BY DEF SlotOf, Slots
  <2>2. todo.ckpt \in Checkpoints /\ disk \in [Slots -> Checkpoints \cup {None}]
    BY DEF TypeOK
  <2>3. disk' = [disk EXCEPT ![SlotOf(todo.ckpt.gen)] = todo.ckpt]
    BY <1>6 DEF SaveReachesCard
  <2>4. disk' \in [Slots -> Checkpoints \cup {None}]
    BY <2>1, <2>2, <2>3
  <2> QED BY <1>6, <2>2, <2>4 DEF SaveReachesCard, TypeOK
<1>7. CASE SaveSucceeds
  <2>1. state.next \in Nat \ {0} /\ todo.ckpt.next <= MaxSequence
    BY DEF TypeOK, Checkpoints
  <2>2. todo.op = "reserve" => state.next \in 1 .. MaxSequence - 1
    BY <1>7, <2>1 DEF SaveSucceeds, SaveFollows
  <2>3. todo.op = "reserve" => Append(issued, state.next) \in Seq(1 .. MaxSequence - 1)
    BY <2>2 DEF TypeOK
  <2>4. issued' \in Seq(1 .. MaxSequence - 1)
    BY <1>7, <2>3 DEF SaveSucceeds, TypeOK
  <2>5. todo.ckpt \in Checkpoints /\ todo.ckpt.cursor \in Cursors
    BY DEF TypeOK, Checkpoints
  <2> QED BY <1>0, <1>7, <2>4, <2>5 DEF SaveSucceeds, TypeOK
<1>8. CASE SaveFails
  BY <1>0, <1>8 DEF SaveFails, TypeOK, ghosts
<1>9. CASE PowerLoss
  BY <1>0, <1>9 DEF PowerLoss, TypeOK, ghosts
<1>10. CASE UNCHANGED vars
  BY <1>10 DEF TypeOK, vars
<1> QED
  BY <1>2, <1>3, <1>4, <1>5, <1>6, <1>7, <1>8, <1>9, <1>10 DEF Next

LEMMA StepSaveFollows == ASSUME TypeOK, SaveFollows, [Next]_vars PROVE SaveFollows'
<1> USE CheckpointAssumption
<1>0. state \in Checkpoints /\ (\A x \in Cursors : x \in Nat)
  BY DEF TypeOK
<1>1. ASSUME NEW op \in {"init", "reserve", "cursor", "anchor"},
             NEW c \in Checkpoints, Save(op, c),
             c.gen = state'.gen,
             c.next = (IF op = "reserve" THEN state'.next + 1 ELSE state'.next),
             c.cursor >= state'.cursor,
             op = "init" => state' = Fresh
      PROVE  SaveFollows'
  <2> DEFINE new == [c EXCEPT !.gen = NextGen(c.gen)]
  <2>1. /\ new.gen = NextGen(c.gen)
        /\ new.next = c.next
        /\ new.cursor = c.cursor
    BY DEF Checkpoints
  <2>2. todo' = [op |-> op, ckpt |-> new]
    BY <1>1 DEF Save
  <2> HIDE DEF new
  <2> QED BY <1>1, <2>1, <2>2 DEF SaveFollows
<1>2. ASSUME NEW missed \in Missed, Begin(missed) PROVE SaveFollows'
  <2>1. CASE pc' = "up"
    BY <2>1 DEF SaveFollows
  <2>2. CASE pc' # "up"
    <3>1. state' = Fresh /\ Save("init", Fresh)
      BY <1>2, <2>2 DEF Begin
    <3>2. Fresh \in Checkpoints /\ Fresh.cursor >= Fresh.cursor
      BY DEF Fresh, Checkpoints, Generations
    <3> QED BY <1>1, <3>1, <3>2
  <2> QED BY <2>1, <2>2
<1>3. CASE ReserveIdentity
  <2> DEFINE c == [state EXCEPT !.next = @ + 1]
  <2>1. state.next + 1 \in 1 .. MaxSequence /\ state.cursor >= state.cursor
    BY <1>0, <1>3 DEF ReserveIdentity, Checkpoints
  <2>2. /\ c \in Checkpoints /\ c.gen = state.gen
        /\ c.next = state.next + 1 /\ c.cursor = state.cursor
    BY <1>0, <2>1 DEF Checkpoints
  <2>3. Save("reserve", c) /\ state' = state
    BY <1>3 DEF ReserveIdentity
  <2> HIDE DEF c
  <2> QED BY <1>1, <2>1, <2>2, <2>3
<1>4. ASSUME NEW x \in Cursors, CommitAppliedCursor(x) PROVE SaveFollows'
  <2> DEFINE c == [state EXCEPT !.cursor = x]
  <2>1. /\ c \in Checkpoints /\ c.gen = state.gen
        /\ c.next = state.next /\ c.cursor = x
    BY <1>0 DEF Checkpoints
  <2>2. Save("cursor", c) /\ state' = state /\ x > state.cursor
    BY <1>4 DEF CommitAppliedCursor
  <2>3. c.cursor >= state.cursor
    BY <1>0, <2>1, <2>2 DEF Checkpoints
  <2> HIDE DEF c
  <2> QED BY <1>1, <2>1, <2>2, <2>3
<1>5. CASE SetWallAnchor
  <2>1. Save("anchor", state) /\ state' = state
    BY <1>5 DEF SetWallAnchor
  <2>2. state.cursor >= state'.cursor
    <3>1. state.cursor \in Cursors
      BY <1>0 DEF Checkpoints
    <3>2. state.cursor \in Nat
      BY <1>0, <3>1
    <3> QED BY <2>1, <3>2
  <2>3. state.gen = state'.gen /\ state.next = state'.next /\ state \in Checkpoints
    BY <1>0, <2>1
  <2>4. "anchor" \in {"init", "reserve", "cursor", "anchor"}
    OBVIOUS
  <2> QED BY <1>1, <2>1, <2>2, <2>3, <2>4
<1>6. CASE SaveReachesCard
  BY <1>6 DEF SaveReachesCard, SaveFollows
<1>7. CASE SaveSucceeds \/ SaveFails \/ PowerLoss
  BY <1>7 DEF SaveSucceeds, SaveFails, PowerLoss, SaveFollows
<1>8. CASE UNCHANGED vars
  BY <1>8 DEF SaveFollows, vars
<1> QED BY <1>2, <1>3, <1>4, <1>5, <1>6, <1>7, <1>8 DEF Next

(* A slot a boot missed is not forgotten. *)
LEMMA UnreadGrows == ASSUME [Next]_vars PROVE unread \subseteq unread'
<1>1. ASSUME NEW missed \in Missed, Begin(missed) PROVE unread \subseteq unread'
  <2>1. unread' = unread \cup missed
    BY <1>1 DEF Begin
  <2> QED BY <2>1
<1>2. ASSUME UNCHANGED unread PROVE unread \subseteq unread'
  BY <1>2
<1>3. \/ \E missed \in Missed : Begin(missed)
      \/ UNCHANGED unread
  BY DEF Next, vars, ghosts, ReserveIdentity, CommitAppliedCursor, SetWallAnchor,
     SaveReachesCard, SaveSucceeds, SaveFails, PowerLoss
<1> QED BY <1>1, <1>2, <1>3

LEMMA StepIInv == ASSUME IInv, [Next]_vars PROVE IInv'
<1>1. TypeOK' /\ SaveFollows'
  BY StepTypeOK, StepSaveFollows DEF IInv
<1>2. ASSUME unread' = {} PROVE Sighted'
  <2>1. unread = {}
    BY <1>2, UnreadGrows
  <2> QED BY <1>2, <2>1, StepSighted DEF IInv
<1> QED BY <1>1, <1>2 DEF IInv

THEOREM Inductive == Spec => []IInv
<1>1. Init => IInv
  BY InitSighted DEF IInv, Sighted
<1>2. IInv /\ [Next]_vars => IInv'
  BY StepIInv
<1> QED
  BY <1>1, <1>2, PTL DEF Spec

THEOREM TypeCorrect == Spec => []TypeOK
<1>1. IInv => TypeOK
  BY DEF IInv
<1> QED
  BY <1>1, Inductive, PTL

(* reserveIdentity never returns a sequence twice, across power losses, failed
   saves and generation wrap-around. *)
THEOREM IdentitiesNeverReused ==
  Spec => []SequencesStrictlyIncrease
<1>1. IInv => SequencesStrictlyIncrease
  BY DEF IInv, Sighted, Increasing, SequencesStrictlyIncrease
<1> QED
  BY <1>1, Inductive, PTL

(* A cursor commitAppliedCursor acknowledged is the least a later boot finds. *)
THEOREM AckedCursorIsDurable ==
  Spec => []AckedCursorSurvives
<1>1. IInv => AckedCursorSurvives
  BY DEF IInv, Sighted, PromisesKept, Promised, Current, AckedCursorSurvives,
         DurableCursor, Fresh
<1> QED
  BY <1>1, Inductive, PTL

(* No step moves the cursor on the card back. *)
THEOREM CursorIsMonotone ==
  Spec => DurableCursorNeverFalls
<1> USE CheckpointAssumption
<1>1. ASSUME Sighted, [Next]_vars, unread' = {} PROVE DurableCursor' >= DurableCursor
  <2>1. Sighted'
    BY <1>1, StepSighted
  <2>2. \A x \in Cursors : x \in Nat
    OBVIOUS
  <2>3. DurableCursor \in Nat
    <3>1. Current \in Checkpoints \cup {None}
      BY <1>1 DEF Current, SelectNewest, Sighted, TypeOK, Slots
    <3> QED BY <2>2, <3>1 DEF DurableCursor, Current, Checkpoints
  <2>4. CASE SaveReachesCard
    <3>1. /\ todo.ckpt \in Checkpoints /\ state \in Checkpoints
          /\ pc = "saving" /\ pc' = "saved" /\ todo' = todo
      BY <1>1, <2>4 DEF SaveReachesCard, Sighted, TypeOK
    <3>2. Current' = todo.ckpt /\ todo.ckpt # None
      BY <2>1, <3>1 DEF Sighted, Synchronised
    <3>3. DurableCursor' = todo.ckpt.cursor
      BY <3>2 DEF DurableCursor, Current
    <3>4. DurableCursor = (IF todo.op = "init" THEN 0 ELSE state.cursor)
      BY <1>1, <3>1 DEF Sighted, Synchronised, DurableCursor, Current
    <3>5. todo.ckpt.cursor >= state.cursor /\ (todo.op = "init" => state.cursor = 0)
      BY <1>1, <3>1 DEF Sighted, SaveFollows, Fresh
    <3> QED BY <3>3, <3>4, <3>5
  <2>5. CASE UNCHANGED disk
    BY <2>3, <2>5 DEF DurableCursor
  <2>6. SaveReachesCard \/ UNCHANGED disk
    BY <1>1 DEF Next, vars, Begin, ReserveIdentity, CommitAppliedCursor,
       SetWallAnchor, SaveSucceeds, SaveFails, PowerLoss
  <2> QED BY <2>4, <2>5, <2>6
<1>2. ASSUME IInv, [Next]_vars
      PROVE  [unread' = {} => DurableCursor' >= DurableCursor]_vars
  <2>1. unread' = {} => unread = {}
    BY <1>2, UnreadGrows
  <2> QED BY <1>1, <1>2, <2>1 DEF IInv
<1> QED
  BY <1>2, Inductive, PTL DEF Spec, DurableCursorNeverFalls

-----------------------------------------------------------------------------
(* The two slots hold the last two records, and the session goes on from one
   of them: its next save leaves that one alone.  Slot A stays empty until the
   second record is written. *)
SlotsHold ==
    /\ SlotsMatch
    /\ \A s \in Slots : disk[s] \in {None, last, prev}
    /\ disk["A"] = None => prev = Fresh
    /\ disk["B"] = None => disk["A"] = None

SessionHolds ==
    /\ pc # "off" => state \in {last, prev}
    /\ pc = "up" => disk[SlotOf(state.gen)] = state
    /\ pc = "saving" =>
         disk[SlotOf(state.gen)] = IF todo.op = "init" THEN None ELSE state
    /\ pc = "saved" => todo.ckpt = last /\ disk[SlotOf(last.gen)] = last

LossInv == TypeOK /\ SaveFollows /\ SlotsHold /\ SessionHolds

LEMMA StepLossInv ==
  ASSUME Slots \notin Missed, LossInv, [Next]_vars
  PROVE  LossInv'
<1> USE CheckpointAssumption
<1>0. TypeOK' /\ SaveFollows'
  BY StepTypeOK, StepSaveFollows DEF LossInv
<1> SUFFICES SlotsHold' /\ SessionHolds'
  BY <1>0 DEF LossInv
<1>1. ASSUME NEW missed \in Missed, Begin(missed) PROVE SlotsHold' /\ SessionHolds'
  <2> DEFINE found == SelectNewest(Read("A", missed), Read("B", missed))
  <2>1. /\ found # None => state' = found /\ pc' = "up"
        /\ found = None => state' = Fresh /\ pc' = "saving" /\ todo'.op = "init"
        /\ UNCHANGED <<disk, last, prev>>
    BY <1>1 DEF Begin, Save
  <2>2. SlotsHold'
    BY <2>1 DEF LossInv, SlotsHold, SlotsMatch
  <2>3. CASE found # None
    <3>1. PICK s \in Slots : found = disk[s]
      BY <2>3 DEF SelectNewest, Read, Slots
    <3>2. SlotOf(found.gen) = s /\ found \in {last, prev}
      BY <2>3, <3>1 DEF LossInv, SlotsHold, SlotsMatch
    <3> HIDE DEF found
    <3> QED BY <2>1, <2>2, <2>3, <3>1, <3>2 DEF SessionHolds
  <2>4. CASE found = None
    <3>1. missed \subseteq Slots /\ missed # Slots
      OBVIOUS
    <3>2. "A" \notin missed \/ "B" \notin missed
      BY <3>1 DEF Slots
    <3>3. disk["A"] = None
      BY <2>4, <3>2 DEF SelectNewest, Read, LossInv, SlotsHold
    <3>4. prev = Fresh /\ SlotOf(Fresh.gen) = "A"
      BY <3>3 DEF LossInv, SlotsHold, Fresh, SlotOf
    <3> HIDE DEF found
    <3> QED BY <2>1, <2>2, <2>4, <3>3, <3>4 DEF SessionHolds
  <2> QED BY <2>3, <2>4, <2>2
<1>2. CASE ReserveIdentity \/ SetWallAnchor \/ \E c \in Cursors : CommitAppliedCursor(c)
  <2>1. /\ pc = "up" /\ pc' = "saving" /\ todo'.op # "init"
        /\ UNCHANGED <<disk, state, last, prev>>
    <3>1. CASE ReserveIdentity
      BY <3>1 DEF ReserveIdentity, Save, ghosts
    <3>2. CASE SetWallAnchor
      BY <3>2 DEF SetWallAnchor, Save, ghosts
    <3>3. ASSUME NEW x \in Cursors, CommitAppliedCursor(x)
          PROVE  /\ pc = "up" /\ pc' = "saving" /\ todo'.op # "init"
                 /\ UNCHANGED <<disk, state, last, prev>>
      BY <3>3 DEF CommitAppliedCursor, Save, ghosts
    <3> QED BY <1>2, <3>1, <3>2, <3>3
  <2> QED BY <2>1 DEF LossInv, SlotsHold, SlotsMatch, SessionHolds
<1>3. CASE SaveReachesCard
  <2> DEFINE c == todo.ckpt
  <2>1. /\ pc = "saving" /\ pc' = "saved"
        /\ disk' = [disk EXCEPT ![SlotOf(c.gen)] = c]
        /\ last' = c /\ prev' = state
        /\ UNCHANGED <<state, todo>>
    BY <1>3 DEF SaveReachesCard
  <2>2. /\ c \in Checkpoints /\ state \in Checkpoints /\ state.gen \in Generations
        /\ disk \in [Slots -> Checkpoints \cup {None}]
    BY DEF LossInv, TypeOK, Checkpoints
  <2>3. SlotOf(c.gen) \in Slots /\ SlotOf(state.gen) \in Slots /\ SlotOf(c.gen) # SlotOf(state.gen)
    BY <2>1, <2>2, NextGenAlternates DEF LossInv, SaveFollows, SlotOf, Slots
  <2>4. disk[SlotOf(state.gen)] = None \/ disk[SlotOf(state.gen)] = state
    BY <2>1 DEF LossInv, SessionHolds
  <2>5. disk[SlotOf(state.gen)] = None => state = Fresh
    BY <2>1, <2>2 DEF LossInv, SessionHolds, SaveFollows
  <2> HIDE DEF c
  <2>6. disk'[SlotOf(c.gen)] = c /\ disk'[SlotOf(state.gen)] = disk[SlotOf(state.gen)]
    BY <2>1, <2>2, <2>3
  <2>7. \A s \in Slots : s = SlotOf(c.gen) \/ s = SlotOf(state.gen)
    BY <2>3 DEF Slots
  <2>8. c # None /\ SlotOf(Fresh.gen) = "A"
    BY <2>2 DEF SlotOf, Fresh
  <2>9. \A s \in Slots : disk'[s] \in {None, last', prev'}
    BY <2>1, <2>4, <2>6, <2>7
  <2>10. SlotsMatch'
    BY <2>4, <2>6, <2>7 DEF SlotsMatch
  <2>11. /\ disk'["A"] = None => prev' = Fresh
         /\ disk'["B"] = None => disk'["A"] = None
    BY <2>1, <2>5, <2>6, <2>7, <2>8 DEF Slots
  <2>12. SessionHolds'
    BY <2>1, <2>6 DEF SessionHolds, c
  <2> QED BY <2>9, <2>10, <2>11, <2>12 DEF SlotsHold
<1>4. CASE SaveSucceeds
  BY <1>4 DEF SaveSucceeds, LossInv, SlotsHold, SlotsMatch, SessionHolds
<1>5. CASE SaveFails
  BY <1>5 DEF SaveFails, ghosts, LossInv, SlotsHold, SlotsMatch, SessionHolds
<1>6. CASE PowerLoss
  BY <1>6 DEF PowerLoss, ghosts, LossInv, SlotsHold, SlotsMatch, SessionHolds
<1>7. CASE UNCHANGED vars
  BY <1>7 DEF vars, LossInv, SlotsHold, SlotsMatch, SessionHolds
<1> QED
  BY <1>1, <1>2, <1>3, <1>4, <1>5, <1>6, <1>7 DEF Next

(* A boot that can read at least one slot goes on from the last record written
   or the one before it. *)
THEOREM OneSaveAtMost ==
  ASSUME Slots \notin Missed
  PROVE  Spec => []BootLosesAtMostOneSave
<1>1. Init => LossInv
  <2> SUFFICES ASSUME Init PROVE LossInv
    OBVIOUS
  <2>1. TypeOK /\ SaveFollows /\ SlotsMatch
    BY InitSighted DEF Sighted
  <2>2. \A s \in Slots : disk[s] = None
    BY DEF Init
  <2> QED BY <2>1, <2>2 DEF Init, LossInv, SlotsHold, SessionHolds, Slots
<1>2. LossInv /\ [Next]_vars => LossInv'
  BY StepLossInv
<1>3. LossInv => BootLosesAtMostOneSave
  BY DEF LossInv, SessionHolds, BootLosesAtMostOneSave
<1> QED
  BY <1>1, <1>2, <1>3, PTL DEF Spec
=============================================================================
