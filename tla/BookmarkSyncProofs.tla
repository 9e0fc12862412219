------------------------- MODULE BookmarkSyncProofs -------------------------
(***************************************************************************)
(* The safety properties of BookmarkSync, for every list of bookmarks,     *)
(* every outbox and every log of the server.                               *)
(*                                                                         *)
(* First what the list operations and the replay of the inbox do: Told     *)
(* relates the bookmarks of a mark before and after a set of annotations   *)
(* is applied, and holds of Replay by induction over the log.  Then three  *)
(* inductive invariants, each resting on the one before it:                *)
(*                                                                         *)
(*   TypeInv     the types, and loops that have nothing to do when idle;   *)
(*   SavedInv    what was applied to the list shows in it (Absorbed), and  *)
(*               the file is the list once nothing is left to save         *)
(*               (Written), so what is retired is in the file;             *)
(*   SettledInv  Kept: for each mark, the file fits what the inbox, the    *)
(*               rest of the log and the open events of the outbox still   *)
(*               have to say, and so does the list while a reader is open. *)
(*                                                                         *)
(* Fits names every reason why file and server may differ; once all is     *)
(* delivered, pulled and applied, only a flagged conflict is left.         *)
(***************************************************************************)
EXTENDS BookmarkSync, FiniteSetTheorems, SequenceTheorems, WellFoundedInduction, TLAPS

-----------------------------------------------------------------------------
(* The bookmarks a list has of m: one at most, if the list is unique. *)
Copy(L, m) == {L[k] : k \in {j \in DOMAIN L : L[j].mark = m}}

(* E has other bookmarks than L of m only: these copies. *)
Alters(L, E, m, copies) ==
    \A n : Copy(E, n) = IF n = m THEN copies ELSE Copy(L, n)

Unique(L) == \A i, j \in DOMAIN L : L[i].mark = L[j].mark => i = j

(* What applyAnnotation makes of the bookmarks of its mark. *)
FromServer(item) ==
    [mark |-> item.mark, content |-> item.content, stage |-> "queued",
     event |-> 0, base |-> item.rev, conflict |-> FALSE]

SettledBy(b, item) ==
    [b EXCEPT !.base = item.rev, !.event = 0, !.conflict = item.kind = "conflict"]

Turned(copies, item) ==
    IF item.kind = "deleted" THEN {}
    ELSE IF item.kind = "upserted" /\ (~item.own \/ copies = {}) THEN {FromServer(item)}
    ELSE {SettledBy(b, item) : b \in copies}

States == [list : Seq(Bookmarks), changed : BOOLEAN]

(* What a set of annotations says of m.  Some decide what it shows; the echo of
   an upsert of this device only shows it again where it is gone; a conflict
   shows nothing. *)
About(m, i) == log[i].mark = m

Decides(m, i) ==
    About(m, i) /\ (log[i].kind = "deleted" \/ (log[i].kind = "upserted" /\ ~log[i].own))

Confirms(m, i) == About(m, i) /\ log[i].kind = "upserted" /\ log[i].own

Decided(S, m) == {i \in S : Decides(m, i) /\ \A j \in S : Decides(m, j) => j <= i}

Latest(S, m) == {i \in S : About(m, i) /\ \A j \in S : About(m, j) => j <= i}

Base(S, m, shown) ==
    IF \E i \in S : Decides(m, i)
    THEN {log[i].content : i \in {j \in Decided(S, m) : log[j].kind = "upserted"}}
    ELSE shown

Confirmed(S, m) == \E i \in S : Confirms(m, i) /\ \A j \in S : Decides(m, j) => j < i

(* What m shows after S is applied where it showed this. *)
Outcome(S, m, shown) ==
    IF Base(S, m, shown) = {} /\ Confirmed(S, m) THEN {Plain} ELSE Base(S, m, shown)

Says(copies) == {b.content : b \in copies}

(* Annotations that can be applied: known directives, and only what is queued
   by default is upserted by this device. *)
Applicable(S) ==
    /\ S \subseteq DOMAIN log
    /\ \A i \in S :
          /\ log[i].kind # "strange"
          /\ log[i].kind = "upserted" /\ log[i].own => log[i].content = Plain

(* How the bookmarks of m are after S was applied to what they were before. *)
Told(S, m, before, after) ==
    /\ Says(after) = Outcome(S, m, Says(before))
    /\ (\A i \in S : ~About(m, i)) => after = before
    /\ \A b \in after, i \in Latest(S, m) :
          b.event = 0 /\ b.base = log[i].rev /\ b.conflict = (log[i].kind = "conflict")
    /\ \A b \in after : b.stage # "queued" =>
          /\ \A i \in S : ~Decides(m, i)
          /\ \E a \in before : a.stage = b.stage
    /\ (\A i \in S : ~Decides(m, i)) => \A a \in before : \E b \in after : b.stage = a.stage

-----------------------------------------------------------------------------
(* Least and greatest elements, and induction up to a bound. *)

(* A set of naturals that is not empty has a least element, and Min is it. *)
LEMMA MinIs ==
  ASSUME NEW S \in SUBSET Nat, S # {}
  PROVE  Min(S) \in S /\ \A n \in S : Min(S) <= n
<1> DEFINE R == OpToRel(<, Nat)
<1>1. \A x, y \in Nat : x < y => <<x, y>> \in R
  BY DEF OpToRel
<1>2. IsWellFoundedOn(R, Nat)
  BY NatLessThanWellFounded
<1> HIDE DEF R
<1>3. PICK n \in S : \A m \in S : ~ (<<m, n>> \in R)
  BY <1>2, WFMin
<1>4. ASSUME NEW m \in S PROVE n <= m
  <2>1. ~ (m < n)
    BY <1>1, <1>3
  <2>2. m \in Nat /\ n \in Nat
    OBVIOUS
  <2> QED BY <2>1, <2>2
<1> QED BY <1>4 DEF Min

(* A set of naturals up to N that is not empty has a greatest element, and Max
   is it. *)
LEMMA MaxIs ==
  ASSUME NEW N \in Nat, NEW S \in SUBSET (0 .. N), S # {}
  PROVE  Max(S) \in S /\ \A n \in S : n <= Max(S)
<1> DEFINE D == {N - n : n \in S}
<1>1. D \in SUBSET Nat /\ D # {}
  <2>1. ASSUME NEW n \in S PROVE N - n \in Nat
    BY n \in 0 .. N
  <2> QED BY <2>1
<1>2. Min(D) \in D /\ \A d \in D : Min(D) <= d
  <2> HIDE DEF D
  <2> QED BY <1>1, MinIs
<1>3. PICK n \in S : Min(D) = N - n
  BY <1>2
<1>4. ASSUME NEW m \in S PROVE m <= n
  <2>1. N - n <= N - m
    BY <1>2, <1>3
  <2>2. m \in 0 .. N /\ n \in 0 .. N
    OBVIOUS
  <2> QED BY <2>1, <2>2
<1> QED BY <1>4 DEF Max

(* What holds of 0, and of n + 1 when it holds of n, holds up to N. *)
LEMMA UpTo ==
  ASSUME NEW N \in Nat, NEW S, 0 \in S,
         \A n \in 0 .. N - 1 : n \in S => n + 1 \in S
  PROVE  \A n \in 0 .. N : n \in S
<1> DEFINE D == {n \in 0 .. N : n \notin S}
<1> SUFFICES ASSUME D # {} PROVE FALSE
  OBVIOUS
<1>1. D \in SUBSET Nat
  OBVIOUS
<1>2. Min(D) \in D /\ \A d \in D : Min(D) <= d
  <2> HIDE DEF D
  <2> QED BY <1>1, MinIs
<1>3. Min(D) - 1 \in 0 .. N - 1 /\ Min(D) - 1 \notin D
  BY <1>2
<1>4. Min(D) - 1 \in S
  BY <1>3
<1> QED BY <1>2, <1>3, <1>4

-----------------------------------------------------------------------------
(* The operators on lists of bookmarks. *)

(* A sequence without its k-th element. *)
LEMMA RemoveAtIs ==
  ASSUME NEW T, NEW s \in Seq(T), NEW k \in 1 .. Len(s)
  PROVE  /\ RemoveAt(s, k) \in Seq(T)
         /\ Len(RemoveAt(s, k)) = Len(s) - 1
         /\ \A i \in 1 .. Len(s) - 1 : RemoveAt(s, k)[i] = IF i < k THEN s[i] ELSE s[i + 1]
<1> DEFINE a == SubSeq(s, 1, k - 1)
           b == SubSeq(s, k + 1, Len(s))
<1>1. a \in Seq(T) /\ Len(a) = k - 1 /\ \A i \in 1 .. k - 1 : a[i] = s[i]
  OBVIOUS
<1>2. b \in Seq(T) /\ Len(b) = Len(s) - k /\ \A i \in 1 .. Len(s) - k : b[i] = s[k + i]
  OBVIOUS
<1>3. RemoveAt(s, k) = a \o b
  BY DEF RemoveAt
<1>4. /\ a \o b \in Seq(T) /\ Len(a \o b) = Len(a) + Len(b)
      /\ \A i \in 1 .. Len(a) + Len(b) :
            (a \o b)[i] = IF i <= Len(a) THEN a[i] ELSE b[i - Len(a)]
  <2> HIDE DEF a, b
  <2> QED BY <1>1, <1>2, ConcatProperties
<1>5. ASSUME NEW i \in 1 .. Len(s) - 1
      PROVE  (a \o b)[i] = IF i < k THEN s[i] ELSE s[i + 1]
  <2> HIDE DEF a, b
  <2>1. CASE i < k
    BY <2>1, <1>1, <1>2, <1>4
  <2>2. CASE ~(i < k)
    <3>1. i - (k - 1) \in 1 .. Len(s) - k /\ k + (i - (k - 1)) = i + 1
      BY <2>2
    <3>2. (a \o b)[i] = b[i - (k - 1)]
      BY <2>2, <1>1, <1>2, <1>4
    <3> QED BY <3>1, <3>2, <2>2, <1>2
  <2> QED BY <2>1, <2>2
<1> HIDE DEF a, b
<1> QED BY <1>1, <1>2, <1>3, <1>4, <1>5

(* find_if finds the first bookmark of m that has a sync id. *)
LEMMA ExistingIs ==
  ASSUME NEW bookmarks \in Seq(Bookmarks), NEW m
  PROVE  /\ Existing(bookmarks, m) \in 0 .. Len(bookmarks)
         /\ Existing(bookmarks, m) = 0 =>
               \A k \in DOMAIN bookmarks : bookmarks[k].mark = m => bookmarks[k].stage = "new"
         /\ Existing(bookmarks, m) # 0 =>
               /\ Existing(bookmarks, m) \in DOMAIN bookmarks
               /\ bookmarks[Existing(bookmarks, m)].mark = m
               /\ bookmarks[Existing(bookmarks, m)].stage # "new"
<1> DEFINE I == {i \in 1 .. Len(bookmarks) : bookmarks[i].mark = m /\ bookmarks[i].stage # "new"}
<1>1. Existing(bookmarks, m) = IF I # {} THEN Min(I) ELSE 0
  BY DEF Existing, SelectInSeq
<1>2. I # {} => Min(I) \in I
  <2>1. I \in SUBSET Nat
    OBVIOUS
  <2> HIDE DEF I
  <2> QED BY <2>1, MinIs
<1>3. DOMAIN bookmarks = 1 .. Len(bookmarks) /\ Len(bookmarks) \in Nat
  OBVIOUS
<1>4. CASE I = {}
  <2>1. Existing(bookmarks, m) = 0
    BY <1>1, <1>4
  <2> QED BY <1>3, <1>4, <2>1
<1>5. CASE I # {}
  <2>1. Existing(bookmarks, m) \in I
    BY <1>1, <1>2, <1>5
  <2> QED BY <1>3, <2>1
<1> QED BY <1>4, <1>5

(* Append adds one. *)
LEMMA AppendCopies ==
  ASSUME NEW L \in Seq(Bookmarks), NEW b \in Bookmarks
  PROVE  /\ Append(L, b) \in Seq(Bookmarks)
         /\ Alters(L, Append(L, b), b.mark, Copy(L, b.mark) \cup {b})
         /\ Unique(L) /\ Copy(L, b.mark) = {} => Unique(Append(L, b))
<1> DEFINE A == Append(L, b)
<1>1. /\ A \in Seq(Bookmarks) /\ Len(L) \in Nat /\ DOMAIN L = 1 .. Len(L)
      /\ DOMAIN A = 1 .. Len(L) + 1
      /\ A[Len(L) + 1] = b /\ \A i \in 1 .. Len(L) : A[i] = L[i]
  OBVIOUS
<1> HIDE DEF A
<1>2. ASSUME NEW m
      PROVE  Copy(A, m) = IF m = b.mark THEN Copy(L, m) \cup {b} ELSE Copy(L, m)
  <2>1. ASSUME NEW x \in Copy(A, m) PROVE x \in Copy(L, m) \/ (x = b /\ b.mark = m)
    BY <1>1, <2>1 DEF Copy
  <2>2. ASSUME NEW x \in Copy(L, m) PROVE x \in Copy(A, m)
    BY <1>1, <2>2 DEF Copy
  <2>3. b.mark = m => b \in Copy(A, m)
    BY <1>1 DEF Copy
  <2> QED BY <2>1, <2>2, <2>3
<1>3. ASSUME Unique(L), Copy(L, b.mark) = {} PROVE Unique(A)
  <2>1. \A i \in 1 .. Len(L) : L[i].mark # b.mark
    BY <1>1, <1>3 DEF Copy
  <2> QED BY <1>1, <1>3, <2>1 DEF Unique
<1> QED BY <1>1, <1>2, <1>3 DEF A, Alters

(* One is replaced by another of the same mark. *)
LEMMA ExceptCopies ==
  ASSUME NEW L \in Seq(Bookmarks), NEW k \in DOMAIN L, NEW b \in Bookmarks, b.mark = L[k].mark,
         NEW E, E = [L EXCEPT ![k] = b], Unique(L)
  PROVE  /\ E \in Seq(Bookmarks) /\ DOMAIN E = DOMAIN L
         /\ Unique(E) /\ Copy(L, b.mark) = {L[k]}
         /\ Alters(L, E, b.mark, {b})
<1>1. /\ E \in Seq(Bookmarks) /\ DOMAIN E = DOMAIN L
      /\ E[k] = b /\ \A i \in DOMAIN L : i # k => E[i] = L[i]
  OBVIOUS
<1>2. \A i \in DOMAIN L : E[i].mark = L[i].mark
  BY <1>1
<1>3. Unique(E)
  BY <1>1, <1>2 DEF Unique
<1>4. \A i \in DOMAIN L : L[i].mark = b.mark => i = k
  BY DEF Unique
<1>5. Copy(L, b.mark) = {L[k]} /\ Copy(E, b.mark) = {b}
  BY <1>1, <1>2, <1>4 DEF Copy
<1>6. ASSUME NEW m, m # b.mark PROVE Copy(E, m) = Copy(L, m)
  BY <1>1, <1>2, <1>6 DEF Copy
<1> QED BY <1>1, <1>3, <1>5, <1>6 DEF Alters

(* One is removed. *)
LEMMA RemoveCopies ==
  ASSUME NEW L \in Seq(Bookmarks), NEW k \in DOMAIN L
  PROVE  /\ RemoveAt(L, k) \in Seq(Bookmarks)
         /\ Unique(L) =>
               /\ Unique(RemoveAt(L, k))
               /\ Alters(L, RemoveAt(L, k), L[k].mark, {})
<1> DEFINE R == RemoveAt(L, k)
<1>1. /\ R \in Seq(Bookmarks) /\ Len(L) \in Nat /\ k \in 1 .. Len(L)
      /\ DOMAIN L = 1 .. Len(L) /\ DOMAIN R = 1 .. Len(L) - 1
      /\ \A i \in 1 .. Len(L) - 1 : R[i] = IF i < k THEN L[i] ELSE L[i + 1]
  BY RemoveAtIs
<1> HIDE DEF R
<1>2. ASSUME Unique(L)
      PROVE  /\ Unique(R)
             /\ \A m : Copy(R, m) = IF m = L[k].mark THEN {} ELSE Copy(L, m)
  <2>1. \A i \in DOMAIN R : \E j \in DOMAIN L : j # k /\ R[i] = L[j]
    <3> SUFFICES ASSUME NEW i \in DOMAIN R PROVE \E j \in DOMAIN L : j # k /\ R[i] = L[j]
      OBVIOUS
    <3>1. CASE i < k
      BY <1>1, <3>1
    <3>2. CASE ~(i < k)
      <4>1. i + 1 \in DOMAIN L /\ i + 1 # k /\ R[i] = L[i + 1]
        BY <1>1, <3>2
      <4> QED BY <4>1
    <3> QED BY <3>1, <3>2
  <2>2. ASSUME NEW j \in DOMAIN L, j # k PROVE \E i \in DOMAIN R : R[i] = L[j]
    <3>1. CASE j < k
      BY <1>1, <3>1
    <3>2. CASE j > k
      <4>1. j - 1 \in 1 .. Len(L) - 1 /\ ~(j - 1 < k) /\ (j - 1) + 1 = j
        BY <1>1, <3>2
      <4> QED BY <1>1, <4>1
    <3> QED BY <1>1, <2>2, <3>1, <3>2
  <2>3. Unique(R)
    <3> SUFFICES ASSUME NEW i \in DOMAIN R, NEW j \in DOMAIN R, R[i].mark = R[j].mark
                 PROVE  i = j
      BY DEF Unique
    <3>1. i \in 1 .. Len(L) - 1 /\ j \in 1 .. Len(L) - 1
      BY <1>1
    <3>2. \A x, y \in 1 .. Len(L) : L[x].mark = L[y].mark => x = y
      BY <1>1, <1>2 DEF Unique
    <3>3. CASE i < k /\ j < k
      BY <1>1, <3>1, <3>2, <3>3
    <3>4. CASE i < k /\ ~(j < k)
      BY <1>1, <3>1, <3>2, <3>4
    <3>5. CASE ~(i < k) /\ j < k
      BY <1>1, <3>1, <3>2, <3>5
    <3>6. CASE ~(i < k) /\ ~(j < k)
      BY <1>1, <3>1, <3>2, <3>6
    <3> QED BY <3>3, <3>4, <3>5, <3>6
  <2>4. \A j \in DOMAIN L : L[j].mark = L[k].mark => j = k
    BY <1>2 DEF Unique
  <2>5. Copy(R, L[k].mark) = {}
    BY <2>1, <2>4 DEF Copy
  <2>6. ASSUME NEW m, m # L[k].mark PROVE Copy(R, m) = Copy(L, m)
    <3>1. ASSUME NEW x \in Copy(R, m) PROVE x \in Copy(L, m)
      BY <2>1 DEF Copy
    <3>2. ASSUME NEW x \in Copy(L, m) PROVE x \in Copy(R, m)
      BY <2>2, <2>6 DEF Copy
    <3> QED BY <3>1, <3>2
  <2> QED BY <2>3, <2>5, <2>6
<1> QED BY <1>1, <1>2 DEF R, Alters

(* A new one is put in front. *)
LEMMA FrontCopies ==
  ASSUME NEW L \in Seq(Bookmarks), NEW b \in Bookmarks
  PROVE  /\ <<b>> \o L \in Seq(Bookmarks)
         /\ Unique(L) /\ Copy(L, b.mark) = {} =>
               /\ Unique(<<b>> \o L)
               /\ Alters(L, <<b>> \o L, b.mark, {b})
<1> DEFINE F == <<b>> \o L
<1>1. /\ F \in Seq(Bookmarks) /\ Len(L) \in Nat /\ DOMAIN L = 1 .. Len(L)
      /\ DOMAIN F = 1 .. Len(L) + 1
      /\ F[1] = b /\ \A i \in 1 .. Len(L) : F[i + 1] = L[i]
  OBVIOUS
<1> HIDE DEF F
<1>2. ASSUME Unique(L), Copy(L, b.mark) = {}
      PROVE  /\ Unique(F)
             /\ \A m : Copy(F, m) = IF m = b.mark THEN {b} ELSE Copy(L, m)
  <2>1. \A i \in 1 .. Len(L) : L[i].mark # b.mark
    BY <1>1, <1>2 DEF Copy
  <2>2. \A i \in DOMAIN F : i = 1 \/ (i - 1 \in 1 .. Len(L) /\ F[i] = L[i - 1])
    <3> SUFFICES ASSUME NEW i \in DOMAIN F, i # 1
                 PROVE  i - 1 \in 1 .. Len(L) /\ F[i] = L[i - 1]
      OBVIOUS
    <3>1. i - 1 \in 1 .. Len(L) /\ (i - 1) + 1 = i
      BY <1>1
    <3> QED BY <1>1, <3>1
  <2>3. Unique(F)
    BY <1>1, <1>2, <2>1, <2>2 DEF Unique
  <2>4. Copy(F, b.mark) = {b}
    BY <1>1, <2>1, <2>2 DEF Copy
  <2>5. ASSUME NEW m, m # b.mark PROVE Copy(F, m) = Copy(L, m)
    <3>1. ASSUME NEW x \in Copy(F, m) PROVE x \in Copy(L, m)
      BY <1>1, <2>2, <2>5 DEF Copy
    <3>2. ASSUME NEW x \in Copy(L, m) PROVE x \in Copy(F, m)
      BY <1>1 DEF Copy
    <3> QED BY <3>1, <3>2
  <2> QED BY <2>3, <2>4, <2>5
<1> QED BY <1>1, <1>2 DEF F, Alters

(* Every bookmark gets a sync id. *)
LEMMA NamedCopies ==
  ASSUME NEW L \in Seq(Bookmarks)
  PROVE  /\ [k \in DOMAIN L |-> Named(L[k])] \in Seq(Bookmarks)
         /\ \A k \in DOMAIN L : Named(L[k]) \in Bookmarks
         /\ \A m : Copy([k \in DOMAIN L |-> Named(L[k])], m) = {Named(b) : b \in Copy(L, m)}
         /\ Unique(L) => Unique([k \in DOMAIN L |-> Named(L[k])])
<1> DEFINE N == [k \in DOMAIN L |-> Named(L[k])]
<1>1. \A b \in Bookmarks : Named(b) \in Bookmarks /\ Named(b).mark = b.mark
  BY DEF Named, Bookmarks
<1>2. DOMAIN L = 1 .. Len(L) /\ Len(L) \in Nat /\ \A k \in DOMAIN L : L[k] \in Bookmarks
  OBVIOUS
<1>3. N \in Seq(Bookmarks) /\ DOMAIN N = DOMAIN L /\ \A k \in DOMAIN L : N[k] = Named(L[k])
  BY <1>1, <1>2
<1> HIDE DEF N
<1>4. Unique(L) => Unique(N)
  BY <1>1, <1>2, <1>3 DEF Unique
<1>5. ASSUME NEW m PROVE Copy(N, m) = {Named(b) : b \in Copy(L, m)}
  BY <1>1, <1>2, <1>3 DEF Copy
<1> QED BY <1>1, <1>2, <1>3, <1>4, <1>5 DEF N

-----------------------------------------------------------------------------
(* A settled bookmark is a bookmark. *)
LEMMA SettledTypes ==
  ASSUME NEW b \in Bookmarks, NEW item \in Annotations
  PROVE  /\ SettledBy(b, item) \in Bookmarks
         /\ SettledBy(b, item).mark = b.mark /\ SettledBy(b, item).content = b.content
         /\ SettledBy(b, item).stage = b.stage
         /\ SettledBy(b, item).event = 0 /\ SettledBy(b, item).base = item.rev
         /\ SettledBy(b, item).conflict = (item.kind = "conflict")
<1> DEFINE c == item.kind = "conflict"
<1>1. c \in BOOLEAN
  OBVIOUS
<1>2. SettledBy(b, item) = [mark |-> b.mark, content |-> b.content, stage |-> b.stage,
                            event |-> 0, base |-> item.rev, conflict |-> c]
  <2>1. SettledBy(b, item) = [b EXCEPT !.base = item.rev, !.event = 0, !.conflict = c]
    BY DEF SettledBy
  <2> HIDE DEF c
  <2> QED BY <2>1 DEF Bookmarks
<1> HIDE DEF c
<1>3. item.rev \in 0 .. MaxLog
  BY DEF Annotations
<1>4. SettledBy(b, item).conflict = c
  BY <1>2
<1> QED BY <1>1, <1>2, <1>3, <1>4, BookmarkAssumption DEF Bookmarks, c

(* What applyAnnotation does, case by case. *)
LEMMA ApplyIs ==
  ASSUME log \in Seq(Annotations), NEW q \in DOMAIN log, NEW state \in States
  PROVE  LET item == log[q]
             k == Existing(state.list, item.mark)
             after == ApplyAnnotation(state, q)
         IN  /\ k = 0 /\ item.kind \in {"conflict", "deleted"} => after = state
             /\ k = 0 /\ item.kind = "upserted"
                   => after = [list |-> Append(state.list, FromServer(item)), changed |-> TRUE]
             /\ k = 0 /\ item.kind = "strange" => after = [list |-> state.list, changed |-> TRUE]
             /\ k # 0 /\ item.kind = "deleted"
                   => after = [list |-> RemoveAt(state.list, k), changed |-> TRUE]
             /\ k # 0 /\ (item.kind = "conflict" \/ (item.kind = "upserted" /\ item.own))
                   => after = [list |-> [state.list EXCEPT ![k] = SettledBy(state.list[k], item)],
                               changed |-> TRUE]
             /\ k # 0 /\ (item.kind = "strange" \/ (item.kind = "upserted" /\ ~item.own))
                   => after = [list |-> [state.list EXCEPT ![k] = FromServer(item)],
                               changed |-> TRUE]
<1> DEFINE item == log[q]
           k == Existing(state.list, item.mark)
           after == ApplyAnnotation(state, q)
<1>1. item \in Annotations /\ state.list \in Seq(Bookmarks)
  BY DEF States
<1>2. k \in 0 .. Len(state.list) /\ (k # 0 => k \in DOMAIN state.list)
  BY <1>1, ExistingIs
<1>3. item.kind \in {"upserted", "deleted", "conflict", "strange"}
  BY <1>1 DEF Annotations
<1>4. after = CASE k = 0 /\ item.kind \in {"conflict", "deleted"} -> state
                [] k = 0 /\ item.kind = "upserted" ->
                     [list |-> Append(state.list, FromServer(item)), changed |-> TRUE]
                [] k # 0 /\ item.kind = "deleted" ->
                     [list |-> RemoveAt(state.list, k), changed |-> TRUE]
                [] k # 0 /\ (item.kind = "conflict" \/ (item.kind = "upserted" /\ item.own)) ->
                     [list |-> [state.list EXCEPT ![k] = SettledBy(state.list[k], item)],
                      changed |-> TRUE]
                [] OTHER -> [list |-> [state.list EXCEPT ![k] = FromServer(item)], changed |-> TRUE]
  BY DEF ApplyAnnotation, FromServer, SettledBy
<1>5. k = 0 => [state.list EXCEPT ![k] = FromServer(item)] = state.list
  <2>1. DOMAIN state.list = 1 .. Len(state.list)
    BY <1>1
  <2> HIDE DEF k, item
  <2> QED BY <1>1, <2>1
<1> HIDE DEF k, item, after
<1>6. /\ k = 0 /\ item.kind \in {"conflict", "deleted"} => after = state
      /\ k = 0 /\ item.kind = "upserted"
            => after = [list |-> Append(state.list, FromServer(item)), changed |-> TRUE]
      /\ k = 0 /\ item.kind = "strange" => after = [list |-> state.list, changed |-> TRUE]
  BY <1>3, <1>4, <1>5
<1>7. k # 0 /\ item.kind = "deleted"
         => after = [list |-> RemoveAt(state.list, k), changed |-> TRUE]
  BY <1>3, <1>4
<1>8. k # 0 /\ (item.kind = "conflict" \/ (item.kind = "upserted" /\ item.own))
         => after = [list |-> [state.list EXCEPT ![k] = SettledBy(state.list[k], item)],
                     changed |-> TRUE]
  BY <1>3, <1>4
<1>9. k # 0 /\ (item.kind = "strange" \/ (item.kind = "upserted" /\ ~item.own))
         => after = [list |-> [state.list EXCEPT ![k] = FromServer(item)],
                     changed |-> TRUE]
  BY <1>3, <1>4
<1> QED BY <1>6, <1>7, <1>8, <1>9 DEF k, item, after

(* It returns a list of bookmarks, and says whether it is another. *)
LEMMA ApplyTypes ==
  ASSUME log \in Seq(Annotations), NEW q \in DOMAIN log, NEW state \in States
  PROVE  /\ ApplyAnnotation(state, q) \in States
         /\ ~ApplyAnnotation(state, q).changed => ApplyAnnotation(state, q) = state
<1> DEFINE item == log[q]
           k == Existing(state.list, item.mark)
           after == ApplyAnnotation(state, q)
<1>1. item \in Annotations /\ state.list \in Seq(Bookmarks)
  BY DEF States
<1>2. k # 0 => k \in DOMAIN state.list
  BY <1>1, ExistingIs
<1>3. FromServer(item) \in Bookmarks
  <2> HIDE DEF item
  <2> QED BY <1>1, BookmarkAssumption DEF FromServer, Annotations, Bookmarks
<1>4. ASSUME NEW b \in Bookmarks PROVE SettledBy(b, item) \in Bookmarks
  <2> HIDE DEF item
  <2> QED BY <1>1, SettledTypes
<1>5. ASSUME NEW L \in Seq(Bookmarks), after = [list |-> L, changed |-> TRUE]
      PROVE  after \in States /\ after.changed
  BY <1>5 DEF States
<1>6. item.kind \in {"upserted", "deleted", "conflict", "strange"} /\ item.own \in BOOLEAN
  BY <1>1 DEF Annotations
<1>7. CASE k = 0
  <2>1. Append(state.list, FromServer(item)) \in Seq(Bookmarks)
    BY <1>1, <1>3
  <2> HIDE DEF k, item, after
  <2> QED BY <1>1, <1>5, <1>6, <1>7, <2>1, ApplyIs DEF k, item, after
<1>8. CASE k # 0
  <2>1. /\ RemoveAt(state.list, k) \in Seq(Bookmarks)
        /\ [state.list EXCEPT ![k] = SettledBy(state.list[k], item)] \in Seq(Bookmarks)
        /\ [state.list EXCEPT ![k] = FromServer(item)] \in Seq(Bookmarks)
    <3>1. k \in DOMAIN state.list
      BY <1>2, <1>8
    <3> HIDE DEF k, item, after
    <3>2. state.list[k] \in Bookmarks
      BY <1>1, <3>1
    <3> QED BY <1>1, <1>3, <1>4, <3>1, <3>2, RemoveAtIs
  <2> QED BY <1>5, <1>6, <1>8, <2>1, ApplyIs
<1> QED BY <1>7, <1>8

(* In a unique list it turns the bookmark of one mark, if that has a sync id. *)
LEMMA ApplyCopies ==
  ASSUME log \in Seq(Annotations), NEW q \in DOMAIN log, NEW state \in States,
         log[q].kind # "strange", Unique(state.list),
         \A b \in Copy(state.list, log[q].mark) : b.stage # "new"
  PROVE  /\ Unique(ApplyAnnotation(state, q).list)
         /\ Alters(state.list, ApplyAnnotation(state, q).list, log[q].mark,
                   Turned(Copy(state.list, log[q].mark), log[q]))
<1> DEFINE item == log[q]
           L == state.list
           k == Existing(L, item.mark)
           after == ApplyAnnotation(state, q).list
           c == Copy(L, item.mark)
<1>1. item \in Annotations /\ L \in Seq(Bookmarks) /\ Unique(L)
  BY DEF States
<1>2. /\ k = 0 => c = {}
      /\ k # 0 => k \in DOMAIN L /\ L[k].mark = item.mark /\ L[k] \in Bookmarks
  BY <1>1, ExistingIs DEF Copy
<1>3. item.kind \in {"upserted", "deleted", "conflict"} /\ item.own \in BOOLEAN
  BY <1>1 DEF Annotations
<1>4. FromServer(item) \in Bookmarks /\ FromServer(item).mark = item.mark
  <2> HIDE DEF item
  <2> QED BY <1>1, BookmarkAssumption DEF FromServer, Annotations, Bookmarks
<1>5. ASSUME NEW b \in Bookmarks
      PROVE  SettledBy(b, item) \in Bookmarks /\ SettledBy(b, item).mark = b.mark
  <2> HIDE DEF item
  <2> QED BY <1>1, SettledTypes
<1>6. /\ k = 0 /\ item.kind \in {"conflict", "deleted"} => after = L
      /\ k = 0 /\ item.kind = "upserted" => after = Append(L, FromServer(item))
      /\ k # 0 /\ item.kind = "deleted" => after = RemoveAt(L, k)
      /\ k # 0 /\ (item.kind = "conflict" \/ (item.kind = "upserted" /\ item.own))
            => after = [L EXCEPT ![k] = SettledBy(L[k], item)]
      /\ k # 0 /\ item.kind = "upserted" /\ ~item.own
            => after = [L EXCEPT ![k] = FromServer(item)]
  BY ApplyIs
<1> SUFFICES Unique(after) /\ Alters(L, after, item.mark, Turned(c, item))
  OBVIOUS
<1> HIDE DEF item, L, k, after
<1>7. CASE k = 0 /\ item.kind \in {"conflict", "deleted"}
  <2>1. Turned(c, item) = {} /\ c = {}
    BY <1>2, <1>7 DEF Turned
  <2> QED BY <1>1, <1>6, <1>7, <2>1 DEF Alters
<1>8. CASE k = 0 /\ item.kind = "upserted"
  <2>1. c = {} /\ Turned(c, item) = {FromServer(item)}
    BY <1>2, <1>8 DEF Turned
  <2>2. after = Append(L, FromServer(item))
    BY <1>6, <1>8
  <2> QED BY <1>1, <1>4, <2>1, <2>2, AppendCopies
<1>9. CASE k # 0 /\ item.kind = "deleted"
  <2>1. Turned(c, item) = {}
    BY <1>9 DEF Turned
  <2> QED BY <1>1, <1>2, <1>6, <1>9, <2>1, RemoveCopies
<1>10. ASSUME NEW b \in Bookmarks, b.mark = item.mark, k # 0, after = [L EXCEPT ![k] = b],
              Copy(L, item.mark) = {L[k]} => Turned(c, item) = {b}
       PROVE  Unique(after) /\ Alters(L, after, item.mark, Turned(c, item))
  <2>1. k \in DOMAIN L /\ b.mark = L[k].mark
    BY <1>2, <1>10
  <2>2. Unique(after) /\ Copy(L, b.mark) = {L[k]} /\ Alters(L, after, b.mark, {b})
    BY <1>1, <1>10, <2>1, ExceptCopies
  <2> QED BY <1>10, <2>2
<1>11. CASE k # 0 /\ (item.kind = "conflict" \/ (item.kind = "upserted" /\ item.own))
  <2>1. c = {L[k]} => Turned(c, item) = {SettledBy(L[k], item)}
    BY <1>11 DEF Turned
  <2>2. L[k] \in Bookmarks /\ SettledBy(L[k], item).mark = item.mark
    BY <1>2, <1>5, <1>11
  <2>3. after = [L EXCEPT ![k] = SettledBy(L[k], item)] /\ SettledBy(L[k], item) \in Bookmarks
    BY <1>5, <1>6, <1>11, <2>2
  <2> QED BY <1>10, <1>11, <2>1, <2>2, <2>3
<1>12. CASE k # 0 /\ item.kind = "upserted" /\ ~item.own
  <2>1. Turned(c, item) = {FromServer(item)}
    BY <1>12 DEF Turned
  <2>2. after = [L EXCEPT ![k] = FromServer(item)]
    BY <1>6, <1>12
  <2> QED BY <1>4, <1>10, <1>12, <2>1, <2>2
<1> QED BY <1>3, <1>7, <1>8, <1>9, <1>11, <1>12

-----------------------------------------------------------------------------
(* Replay applies the items one after the other. *)
StepsOf(bookmarks, items) ==
    CHOOSE at : at = [q \in 0 .. Len(log) |->
        IF q = 0 THEN [list |-> bookmarks, changed |-> FALSE]
        ELSE IF q \in items THEN ApplyAnnotation(at[q - 1], q)
        ELSE at[q - 1]]

(* The replay, step by step: an item of the set is applied, another is passed. *)
LEMMA StepsAre ==
  ASSUME log \in Seq(Annotations), NEW bookmarks, NEW items
  PROVE  LET at == StepsOf(bookmarks, items)
         IN  /\ Replay(bookmarks, items) = at[Len(log)]
             /\ at[0] = [list |-> bookmarks, changed |-> FALSE]
             /\ \A q \in 1 .. Len(log) :
                   at[q] = IF q \in items THEN ApplyAnnotation(at[q - 1], q) ELSE at[q - 1]
<1> DEFINE first == [list |-> bookmarks, changed |-> FALSE]
           From(f, q) == IF q = 0 THEN first
                         ELSE IF q \in items THEN ApplyAnnotation(f[q - 1], q)
                         ELSE f[q - 1]
           S == {n \in 0 .. Len(log) : \E f : f = [q \in 0 .. n |-> From(f, q)]}
<1>0. Len(log) \in Nat
  OBVIOUS
<1>1. 0 \in S
  <2> DEFINE f == [q \in 0 .. 0 |-> first]
  <2>1. f = [q \in 0 .. 0 |-> From(f, q)]
    OBVIOUS
  <2>2. \E h : h = [q \in 0 .. 0 |-> From(h, q)]
    BY <2>1
  <2> QED BY <1>0, <2>2
<1>2. ASSUME NEW n \in 0 .. Len(log) - 1, n \in S PROVE n + 1 \in S
  <2>1. PICK f : f = [q \in 0 .. n |-> From(f, q)]
    BY <1>2
  <2> DEFINE g == [q \in 0 .. n + 1 |-> IF q = n + 1 THEN From(f, q) ELSE f[q]]
  <2>2. ASSUME NEW q \in 0 .. n + 1 PROVE g[q] = From(g, q)
    <3>1. q # 0 => q - 1 \in 0 .. n /\ g[q - 1] = f[q - 1]
      OBVIOUS
    <3>2. From(g, q) = From(f, q)
      <4> HIDE DEF g
      <4> QED BY <3>1
    <3>3. q # n + 1 => f[q] = From(f, q)
      <4> HIDE DEF From
      <4> QED BY <2>1
    <3> HIDE DEF From
    <3> QED BY <3>2, <3>3
  <2>3. g = [q \in 0 .. n + 1 |-> From(g, q)]
    <3> HIDE DEF From
    <3> QED BY <2>2
  <2> QED
    <3> HIDE DEF From, g
    <3> QED BY <1>0, <2>3
<1>3. Len(log) \in S
  <2> HIDE DEF S
  <2>1. \A n \in 0 .. Len(log) : n \in S
    BY <1>0, <1>1, <1>2, UpTo
  <2> QED BY <1>0, <2>1
<1>4. \E f : f = [q \in 0 .. Len(log) |-> From(f, q)]
  BY <1>3
<1> DEFINE at == StepsOf(bookmarks, items)
<1>5. at = [q \in 0 .. Len(log) |-> From(at, q)]
  BY <1>4 DEF StepsOf
<1>6. Replay(bookmarks, items) = at[Len(log)]
  BY DEF Replay, StepsOf
<1> HIDE DEF at
<1>7. \A q \in 0 .. Len(log) : at[q] = From(at, q)
  <2> HIDE DEF From
  <2> QED BY <1>5
<1>8. at[0] = first
  <2>1. 0 \in 0 .. Len(log) /\ From(at, 0) = first
    BY <1>0
  <2> QED BY <1>7, <2>1
<1>9. ASSUME NEW q \in 1 .. Len(log)
      PROVE  at[q] = IF q \in items THEN ApplyAnnotation(at[q - 1], q) ELSE at[q - 1]
  <2>1. q \in 0 .. Len(log) /\ q # 0
    BY <1>0
  <2> QED BY <1>7, <2>1
<1> QED BY <1>6, <1>8, <1>9 DEF at

(* One more annotation, later than the others. *)
LEMMA OtherMark ==
  ASSUME NEW q \in Nat, NEW S \in SUBSET (1 .. q - 1), NEW m, ~About(m, q),
         NEW before, NEW after, Told(S, m, before, after)
  PROVE  Told(S \cup {q}, m, before, after)
<1>1. ~Decides(m, q) /\ ~Confirms(m, q)
  BY DEF Decides, Confirms
<1>2. Decided(S \cup {q}, m) = Decided(S, m) /\ Latest(S \cup {q}, m) = Latest(S, m)
  BY <1>1 DEF Decided, Latest
<1>3. /\ (\E i \in S \cup {q} : Decides(m, i)) <=> (\E i \in S : Decides(m, i))
      /\ Confirmed(S \cup {q}, m) <=> Confirmed(S, m)
  BY <1>1 DEF Confirmed
<1>4. Outcome(S \cup {q}, m, Says(before)) = Outcome(S, m, Says(before))
  BY <1>2, <1>3 DEF Outcome, Base
<1> QED BY <1>1, <1>2, <1>4 DEF Told

(* Applying one more annotation of m to what the earlier ones made of m. *)
LEMMA SameMark ==
  ASSUME log \in Seq(Annotations), NEW q \in DOMAIN log, NEW S \in SUBSET (1 .. q - 1),
         Applicable({q}), NEW m, About(m, q),
         NEW before, NEW copies \in SUBSET Bookmarks, Told(S, m, before, copies)
  PROVE  Told(S \cup {q}, m, before, Turned(copies, log[q]))
<1> DEFINE item == log[q]
           S2 == S \cup {q}
           after == Turned(copies, item)
           shown == Says(before)
<1>1. /\ item \in Annotations /\ q \in Nat /\ item.mark = m /\ item.own \in BOOLEAN
      /\ item.kind \in {"upserted", "deleted", "conflict"}
      /\ item.kind = "upserted" /\ item.own => item.content = Plain
  <2>1. item \in Annotations /\ q \in Nat
    OBVIOUS
  <2>2. item.mark = m
    BY DEF About
  <2>3. item.kind # "strange" /\ (item.kind = "upserted" /\ item.own => item.content = Plain)
    BY DEF Applicable
  <2> HIDE DEF item
  <2> QED BY <2>1, <2>2, <2>3 DEF Annotations
<1>2. \A i \in S : i < q /\ i \in Nat
  BY <1>1
<1>3. Latest(S2, m) = {q}
  <2>1. \A i \in Latest(S2, m) : q <= i /\ i \in S2
    BY <1>1 DEF Latest
  <2>2. \A i \in Latest(S2, m) : i = q
    BY <1>1, <1>2, <2>1
  <2>3. \A i \in S2 : i <= q
    BY <1>1, <1>2
  <2>4. q \in Latest(S2, m)
    BY <2>3 DEF Latest
  <2> QED BY <2>2, <2>4
<1>4. ASSUME NEW b \in copies
      PROVE  /\ SettledBy(b, item).content = b.content /\ SettledBy(b, item).stage = b.stage
             /\ SettledBy(b, item).event = 0 /\ SettledBy(b, item).base = item.rev
             /\ SettledBy(b, item).conflict = (item.kind = "conflict")
  BY <1>1, SettledTypes
<1>5. Says(copies) = Outcome(S, m, shown)
  BY DEF Told
<1>6. \A b \in copies : b.stage # "queued" =>
        /\ \A i \in S : ~Decides(m, i)
        /\ \E a \in before : a.stage = b.stage
  BY DEF Told
<1>7. (\A i \in S : ~Decides(m, i)) => \A a \in before : \E b \in copies : b.stage = a.stage
  BY DEF Told
<1>8. Decides(m, q) <=> (item.kind = "deleted" \/ (item.kind = "upserted" /\ ~item.own))
  BY <1>1 DEF Decides, About
<1>9. Confirms(m, q) <=> (item.kind = "upserted" /\ item.own)
  BY <1>1 DEF Confirms, About
<1>10. ~(\A i \in S2 : ~About(m, i))
  OBVIOUS
<1>11. SUFFICES /\ Says(after) = Outcome(S2, m, shown)
                /\ \A b \in after : /\ b.event = 0 /\ b.base = item.rev
                                    /\ b.conflict = (item.kind = "conflict")
                /\ \A b \in after : b.stage # "queued" =>
                      /\ \A i \in S2 : ~Decides(m, i)
                      /\ \E a \in before : a.stage = b.stage
                /\ (\A i \in S2 : ~Decides(m, i)) =>
                      \A a \in before : \E b \in after : b.stage = a.stage
  BY <1>3, <1>10 DEF Told
<1> DEFINE fresh == FromServer(item)
<1>12. /\ fresh.content = item.content /\ fresh.stage = "queued" /\ fresh.event = 0
       /\ fresh.base = item.rev /\ fresh.conflict = FALSE
  BY DEF FromServer
<1> HIDE DEF item, fresh
<1>13. CASE Decides(m, q)
  <2>1. Decided(S2, m) = {q}
    <3>1. \A i \in Decided(S2, m) : q <= i /\ i \in S2
      BY <1>13 DEF Decided
    <3>2. ASSUME NEW i \in Decided(S2, m) PROVE i = q
      <4>1. i \in S \/ i = q
        BY <3>1
      <4>2. i \in S => i < q /\ q <= i /\ i \in Nat
        BY <1>2, <3>1
      <4> QED BY <1>1, <4>1, <4>2
    <3>3. \A i \in S2 : i <= q
      BY <1>1, <1>2
    <3>4. q \in Decided(S2, m)
      BY <1>13, <3>3 DEF Decided
    <3> QED BY <3>2, <3>4
  <2>2. ~Confirmed(S2, m)
    BY <1>1, <1>2, <1>8, <1>9, <1>13 DEF Confirmed
  <2>3. Outcome(S2, m, shown) = IF item.kind = "upserted" THEN {item.content} ELSE {}
    BY <1>1, <1>13, <2>1, <2>2 DEF Outcome, Base, item
  <2>4. after = IF item.kind = "upserted" THEN {fresh} ELSE {}
    BY <1>1, <1>8, <1>13 DEF Turned, fresh
  <2>5. Says(after) = Outcome(S2, m, shown)
    BY <1>12, <2>3, <2>4 DEF Says
  <2> HIDE DEF after
  <2>6. item.kind = "upserted" => item.kind # "conflict"
    OBVIOUS
  <2> QED BY <1>12, <1>13, <2>4, <2>5, <2>6
<1>14. CASE ~Decides(m, q)
  <2>1. Decided(S2, m) = Decided(S, m)
    BY <1>14 DEF Decided
  <2>2. (\E i \in S2 : Decides(m, i)) <=> (\E i \in S : Decides(m, i))
    BY <1>14
  <2>3. Base(S2, m, shown) = Base(S, m, shown)
    BY <2>1, <2>2 DEF Base
  <2>4. CASE item.kind = "conflict"
    <3>1. Confirmed(S2, m) <=> Confirmed(S, m)
      BY <1>9, <1>14, <2>4 DEF Confirmed
    <3>2. after = {SettledBy(b, item) : b \in copies}
      BY <2>4 DEF Turned
    <3>3. Says(after) = Says(copies)
      BY <1>4, <3>2 DEF Says
    <3>4. Says(after) = Outcome(S2, m, shown)
      BY <1>5, <2>3, <3>1, <3>3 DEF Outcome
    <3> HIDE DEF after
    <3> QED BY <1>4, <1>6, <1>7, <1>14, <3>2, <3>4
  <2>5. CASE item.kind = "upserted" /\ item.own
    <3>1. Confirmed(S2, m)
      BY <1>2, <1>9, <1>14, <2>5 DEF Confirmed
    <3>2. CASE copies = {}
      <4>1. after = {fresh}
        BY <2>5, <3>2 DEF Turned, fresh
      <4>2. Outcome(S, m, shown) = {}
        BY <1>5, <3>2 DEF Says
      <4>3. Base(S, m, shown) = {}
        BY <4>2 DEF Outcome
      <4>4. Says(after) = Outcome(S2, m, shown)
        BY <1>1, <1>12, <2>3, <2>5, <3>1, <4>1, <4>3 DEF Outcome, Says
      <4>5. (\A i \in S2 : ~Decides(m, i)) => before = {}
        BY <1>7, <3>2
      <4> HIDE DEF after
      <4> QED BY <1>12, <2>5, <4>1, <4>4, <4>5
    <3>3. CASE copies # {}
      <4>1. after = {SettledBy(b, item) : b \in copies}
        BY <2>5, <3>3 DEF Turned
      <4>2. Says(after) = Says(copies)
        BY <1>4, <4>1 DEF Says
      <4>3. Outcome(S, m, shown) # {}
        BY <1>5, <3>3 DEF Says
      <4>4. Says(after) = Outcome(S2, m, shown)
        BY <1>5, <2>3, <3>1, <4>2, <4>3 DEF Outcome
      <4> HIDE DEF after
      <4> QED BY <1>4, <1>6, <1>7, <1>14, <4>1, <4>4
    <3> QED BY <3>2, <3>3
  <2> QED BY <1>1, <1>8, <1>14, <2>4, <2>5
<1> QED BY <1>13, <1>14

(* Nothing applied, nothing told. *)
LEMMA NothingTold ==
  ASSUME NEW m, NEW copies
  PROVE  Told({}, m, copies, copies)
BY DEF Told, Outcome, Base, Confirmed, Latest

(* Applying any items to a list of bookmarks gives a list of bookmarks, and the
   same one if nothing was changed. *)
LEMMA ReplayTypes ==
  ASSUME log \in Seq(Annotations), NEW bookmarks \in Seq(Bookmarks), NEW items
  PROVE  /\ Replay(bookmarks, items) \in States
         /\ Replay(bookmarks, items).list \in Seq(Bookmarks)
         /\ Replay(bookmarks, items).changed \in BOOLEAN
         /\ ~Replay(bookmarks, items).changed => Replay(bookmarks, items).list = bookmarks
<1> DEFINE at == StepsOf(bookmarks, items)
           first == [list |-> bookmarks, changed |-> FALSE]
           R == {n \in 0 .. Len(log) : at[n] \in States /\ (~at[n].changed => at[n].list = bookmarks)}
<1>1. /\ Replay(bookmarks, items) = at[Len(log)]
      /\ at[0] = first
      /\ \A q \in 1 .. Len(log) :
            at[q] = IF q \in items THEN ApplyAnnotation(at[q - 1], q) ELSE at[q - 1]
  BY StepsAre
<1> HIDE DEF at
<1>2. Len(log) \in Nat /\ DOMAIN log = 1 .. Len(log)
  OBVIOUS
<1>3. 0 \in R
  <2>1. first \in States /\ first.list = bookmarks
    BY DEF States
  <2> HIDE DEF first
  <2> QED BY <1>1, <1>2, <2>1
<1>4. ASSUME NEW n \in 0 .. Len(log) - 1, n \in R PROVE n + 1 \in R
  <2>1. n + 1 \in DOMAIN log /\ (n + 1) - 1 = n /\ n + 1 \in 0 .. Len(log)
    BY <1>2
  <2>2. at[n] \in States /\ (~at[n].changed => at[n].list = bookmarks)
    BY <1>4
  <2>3. at[n + 1] = IF n + 1 \in items THEN ApplyAnnotation(at[n], n + 1) ELSE at[n]
    BY <1>1, <1>2, <2>1
  <2>4. /\ ApplyAnnotation(at[n], n + 1) \in States
        /\ ~ApplyAnnotation(at[n], n + 1).changed => ApplyAnnotation(at[n], n + 1) = at[n]
    BY <2>1, <2>2, ApplyTypes
  <2>5. at[n + 1] \in States /\ (~at[n + 1].changed => at[n + 1].list = bookmarks)
    BY <2>2, <2>3, <2>4
  <2> QED BY <2>1, <2>5
<1>5. Len(log) \in R
  <2> HIDE DEF R
  <2>1. \A n \in 0 .. Len(log) : n \in R
    BY <1>2, <1>3, <1>4, UpTo
  <2> QED BY <1>2, <2>1
<1>6. at[Len(log)] \in States /\ (~at[Len(log)].changed => at[Len(log)].list = bookmarks)
  BY <1>5
<1> QED BY <1>1, <1>6 DEF States

(* Where every mark has one bookmark, with a sync id, what the items say is what
   the bookmarks are afterwards. *)
LEMMA ReplayTold ==
  ASSUME log \in Seq(Annotations), NEW bookmarks \in Seq(Bookmarks), Unique(bookmarks),
         NEW items, Applicable(items),
         \A q \in items : \A b \in Copy(bookmarks, log[q].mark) : b.stage # "new"
  PROVE  /\ Unique(Replay(bookmarks, items).list)
         /\ \A m : Told(items, m, Copy(bookmarks, m), Copy(Replay(bookmarks, items).list, m))
<1> DEFINE at == StepsOf(bookmarks, items)
           Upto(n) == items \cap (1 .. n)
           Good(n) == \A m : Told(Upto(n), m, Copy(bookmarks, m), Copy(at[n].list, m))
           R == {n \in 0 .. Len(log) : at[n] \in States /\ Unique(at[n].list) /\ Good(n)}
<1>1. /\ Replay(bookmarks, items) = at[Len(log)]
      /\ at[0] = [list |-> bookmarks, changed |-> FALSE]
      /\ \A q \in 1 .. Len(log) :
            at[q] = IF q \in items THEN ApplyAnnotation(at[q - 1], q) ELSE at[q - 1]
  BY StepsAre
<1> HIDE DEF at
<1>2. Len(log) \in Nat /\ DOMAIN log = 1 .. Len(log)
  OBVIOUS
<1>3. 0 \in R
  <2>1. at[0] \in States /\ at[0].list = bookmarks
    BY <1>1 DEF States
  <2>2. Upto(0) = {}
    OBVIOUS
  <2>3. Good(0)
    BY <2>1, <2>2, NothingTold
  <2> QED BY <1>2, <2>1, <2>3
<1>4. ASSUME NEW n \in 0 .. Len(log) - 1, n \in R PROVE n + 1 \in R
  <2> DEFINE q == n + 1
             before == at[n].list
             after == at[q].list
  <2>1. q \in DOMAIN log /\ q - 1 = n /\ q \in 0 .. Len(log) /\ q \in Nat
    BY <1>2
  <2>2. at[n] \in States /\ before \in Seq(Bookmarks) /\ Unique(before) /\ Good(n)
    BY <1>4 DEF States
  <2>3. CASE q \notin items
    <3>1. at[q] = at[n]
      BY <1>1, <1>2, <2>1, <2>3
    <3>2. Upto(q) = Upto(n)
      BY <2>3
    <3>3. Good(q)
      <4> HIDE DEF Upto
      <4> QED BY <2>2, <3>1, <3>2
    <3> HIDE DEF Good, Upto
    <3> QED BY <2>1, <2>2, <3>1, <3>3
  <2>4. CASE q \in items
    <3>1. at[q] = ApplyAnnotation(at[n], q)
      BY <1>1, <1>2, <2>1, <2>4
    <3>2. Upto(q) = Upto(n) \cup {q} /\ Upto(n) \in SUBSET (1 .. q - 1)
      BY <2>4, <1>2
    <3>3. Applicable({q})
      BY <2>1, <2>4 DEF Applicable
    <3>4. log[q].kind # "strange"
      BY <3>3 DEF Applicable
    <3>5. \A b \in Copy(before, log[q].mark) : b.stage # "new"
      <4>1. Told(Upto(n), log[q].mark, Copy(bookmarks, log[q].mark), Copy(before, log[q].mark))
        <5> HIDE DEF q, Upto, before
        <5> QED BY <2>2 DEF before
      <4>2. \A b \in Copy(bookmarks, log[q].mark) : b.stage # "new"
        BY <2>4
      <4>3. \A b \in Copy(before, log[q].mark) : b.stage # "queued" =>
              \E a \in Copy(bookmarks, log[q].mark) : a.stage = b.stage
        BY <4>1 DEF Told
      <4> QED BY <4>2, <4>3
    <3>6. at[q] \in States
      BY <2>1, <2>2, <3>1, ApplyTypes
    <3>7. /\ Unique(after)
          /\ Alters(before, after, log[q].mark, Turned(Copy(before, log[q].mark), log[q]))
      <4> HIDE DEF q
      <4>1. \A b \in Copy(at[n].list, log[q].mark) : b.stage # "new"
        BY <3>5
      <4> QED BY <2>1, <2>2, <3>1, <3>4, <4>1, ApplyCopies
    <3>8. ASSUME NEW m PROVE Told(Upto(q), m, Copy(bookmarks, m), Copy(after, m))
      <4>1. Told(Upto(n), m, Copy(bookmarks, m), Copy(before, m))
        BY <2>2
      <4> HIDE DEF q, before, after, Upto, Good
      <4>2. CASE m # log[q].mark
        <5>1. Copy(after, m) = Copy(before, m)
          BY <3>7, <4>2 DEF Alters
        <5>2. ~About(m, q)
          BY <4>2 DEF About
        <5>3. Told(Upto(n) \cup {q}, m, Copy(bookmarks, m), Copy(before, m))
          BY <2>1, <3>2, <4>1, <5>2, OtherMark
        <5> QED BY <3>2, <5>1, <5>3
      <4>3. CASE m = log[q].mark
        <5>1. Copy(after, m) = Turned(Copy(before, m), log[q])
          BY <3>7, <4>3 DEF Alters
        <5>2. About(m, q)
          BY <4>3 DEF About
        <5>3. Copy(before, m) \in SUBSET Bookmarks
          BY <2>2 DEF Copy
        <5>4. Told(Upto(n) \cup {q}, m, Copy(bookmarks, m), Turned(Copy(before, m), log[q]))
          BY <2>1, <3>2, <3>3, <4>1, <5>2, <5>3, SameMark
        <5> QED BY <3>2, <5>1, <5>4
      <4> QED BY <4>2, <4>3
    <3>9. Good(q)
      BY <3>8
    <3> HIDE DEF q, Good
    <3> QED BY <2>1, <3>6, <3>7, <3>9
  <2> QED BY <2>3, <2>4
<1>5. Len(log) \in R
  <2> HIDE DEF R
  <2>1. \A n \in 0 .. Len(log) : n \in R
    BY <1>2, <1>3, <1>4, UpTo
  <2> QED BY <1>2, <2>1
<1>6. Unique(at[Len(log)].list) /\ Good(Len(log))
  <2> HIDE DEF Good
  <2> QED BY <1>5
<1>7. Upto(Len(log)) = items
  BY <1>2 DEF Applicable
<1> HIDE DEF Upto
<1> QED BY <1>1, <1>6, <1>7

-----------------------------------------------------------------------------
(* Erasing list positions. *)
KeptOf(ks) ==
    CHOOSE kept : kept = [k \in 0 .. Len(list) |->
        IF k = 0 THEN <<>>
        ELSE IF k \in ks THEN kept[k - 1]
        ELSE Append(kept[k - 1], list[k])]

(* Without goes through the list once. *)
LEMMA KeptAre ==
  ASSUME list \in Seq(Bookmarks), NEW ks
  PROVE  LET kept == KeptOf(ks)
         IN  /\ Without(ks) = kept[Len(list)]
             /\ kept[0] = <<>>
             /\ \A k \in 1 .. Len(list) :
                   kept[k] = IF k \in ks THEN kept[k - 1] ELSE Append(kept[k - 1], list[k])
<1> DEFINE From(f, k) == IF k = 0 THEN <<>>
                         ELSE IF k \in ks THEN f[k - 1]
                         ELSE Append(f[k - 1], list[k])
           S == {n \in 0 .. Len(list) : \E f : f = [k \in 0 .. n |-> From(f, k)]}
<1>0. Len(list) \in Nat
  OBVIOUS
<1>1. 0 \in S
  <2> DEFINE f == [k \in 0 .. 0 |-> <<>>]
  <2>1. f = [k \in 0 .. 0 |-> From(f, k)]
    OBVIOUS
  <2>2. \E h : h = [k \in 0 .. 0 |-> From(h, k)]
    BY <2>1
  <2> QED BY <1>0, <2>2
<1>2. ASSUME NEW n \in 0 .. Len(list) - 1, n \in S PROVE n + 1 \in S
  <2>1. PICK f : f = [k \in 0 .. n |-> From(f, k)]
    BY <1>2
  <2> DEFINE g == [k \in 0 .. n + 1 |-> IF k = n + 1 THEN From(f, k) ELSE f[k]]
  <2>2. ASSUME NEW k \in 0 .. n + 1 PROVE g[k] = From(g, k)
    <3>1. k # 0 => k - 1 \in 0 .. n /\ g[k - 1] = f[k - 1]
      OBVIOUS
    <3>2. From(g, k) = From(f, k)
      <4> HIDE DEF g
      <4> QED BY <3>1
    <3>3. k # n + 1 => f[k] = From(f, k)
      <4> HIDE DEF From
      <4> QED BY <2>1
    <3> HIDE DEF From
    <3> QED BY <3>2, <3>3
  <2>3. g = [k \in 0 .. n + 1 |-> From(g, k)]
    <3> HIDE DEF From
    <3> QED BY <2>2
  <2> QED
    <3> HIDE DEF From, g
    <3> QED BY <1>0, <2>3
<1>3. Len(list) \in S
  <2> HIDE DEF S
  <2>1. \A n \in 0 .. Len(list) : n \in S
    BY <1>0, <1>1, <1>2, UpTo
  <2> QED BY <1>0, <2>1
<1>4. \E f : f = [k \in 0 .. Len(list) |-> From(f, k)]
  BY <1>3
<1> DEFINE kept == KeptOf(ks)
<1>5. kept = [k \in 0 .. Len(list) |-> From(kept, k)]
  BY <1>4 DEF KeptOf
<1>6. Without(ks) = kept[Len(list)]
  BY DEF Without, KeptOf
<1> HIDE DEF kept
<1>7. \A k \in 0 .. Len(list) : kept[k] = From(kept, k)
  <2> HIDE DEF From
  <2> QED BY <1>5
<1>8. kept[0] = <<>>
  <2>1. 0 \in 0 .. Len(list) /\ From(kept, 0) = <<>>
    BY <1>0
  <2> QED BY <1>7, <2>1
<1>9. ASSUME NEW k \in 1 .. Len(list)
      PROVE  kept[k] = IF k \in ks THEN kept[k - 1] ELSE Append(kept[k - 1], list[k])
  <2>1. k \in 0 .. Len(list) /\ k # 0
    BY <1>0
  <2> QED BY <1>7, <2>1
<1> QED BY <1>6, <1>8, <1>9 DEF kept

(* What is left are the bookmarks at the other positions. *)
LEMMA WithoutCopies ==
  ASSUME list \in Seq(Bookmarks), NEW ks
  PROVE  /\ Without(ks) \in Seq(Bookmarks)
         /\ \A m : Copy(Without(ks), m) = {list[k] : k \in {j \in DOMAIN list : j \notin ks /\ list[j].mark = m}}
         /\ Unique(list) => Unique(Without(ks))
<1> DEFINE kept == KeptOf(ks)
           Left(n, m) == {list[k] : k \in {j \in 1 .. n : j \notin ks /\ list[j].mark = m}}
           Good(n) == \A m : Copy(kept[n], m) = Left(n, m)
           R == {n \in 0 .. Len(list) :
                    kept[n] \in Seq(Bookmarks) /\ Good(n) /\ (Unique(list) => Unique(kept[n]))}
<1>1. /\ Without(ks) = kept[Len(list)]
      /\ kept[0] = <<>>
      /\ \A k \in 1 .. Len(list) :
            kept[k] = IF k \in ks THEN kept[k - 1] ELSE Append(kept[k - 1], list[k])
  BY KeptAre
<1> HIDE DEF kept
<1>2. Len(list) \in Nat /\ DOMAIN list = 1 .. Len(list)
  OBVIOUS
<1>3. 0 \in R
  <2>1. kept[0] \in Seq(Bookmarks) /\ DOMAIN kept[0] = {}
    BY <1>1
  <2>2. Good(0) /\ Unique(kept[0])
    BY <2>1 DEF Copy, Unique
  <2> HIDE DEF Good
  <2> QED BY <1>2, <2>1, <2>2
<1>4. ASSUME NEW n \in 0 .. Len(list) - 1, n \in R PROVE n + 1 \in R
  <2> DEFINE q == n + 1
  <2>1. q \in DOMAIN list /\ q - 1 = n /\ q \in 0 .. Len(list) /\ q \in Nat
    BY <1>2
  <2>2. kept[n] \in Seq(Bookmarks) /\ Good(n) /\ (Unique(list) => Unique(kept[n]))
    BY <1>4
  <2>3. kept[q] = IF q \in ks THEN kept[n] ELSE Append(kept[n], list[q])
    BY <1>1, <1>2, <2>1
  <2>4. CASE q \in ks
    <3>1. \A m : Left(q, m) = Left(n, m)
      BY <2>4
    <3>2. Good(q)
      BY <2>2, <2>3, <2>4, <3>1
    <3> HIDE DEF Good
    <3> QED BY <2>1, <2>2, <2>3, <2>4, <3>2
  <2>5. CASE q \notin ks
    <3>1. list[q] \in Bookmarks /\ kept[q] = Append(kept[n], list[q])
      BY <2>1, <2>3, <2>5
    <3>2. /\ kept[q] \in Seq(Bookmarks)
          /\ Alters(kept[n], kept[q], list[q].mark, Copy(kept[n], list[q].mark) \cup {list[q]})
          /\ Unique(kept[n]) /\ Copy(kept[n], list[q].mark) = {} => Unique(kept[q])
      <4> HIDE DEF q, Good
      <4> QED BY <2>2, <3>1, AppendCopies
    <3>3. \A m : Left(q, m) = IF m = list[q].mark THEN Left(n, m) \cup {list[q]} ELSE Left(n, m)
      <4>1. \A j : j \in 1 .. q <=> j \in 1 .. n \/ j = q
        BY <2>1
      <4> HIDE DEF q
      <4> QED BY <2>5, <4>1
    <3>4. Good(q)
      <4>1. \A m : Copy(kept[q], m) = IF m = list[q].mark THEN Copy(kept[n], m) \cup {list[q]}
                                      ELSE Copy(kept[n], m)
        BY <3>2 DEF Alters
      <4> HIDE DEF q, Left
      <4> QED BY <2>2, <3>3, <4>1
    <3>5. Unique(list) => Copy(kept[n], list[q].mark) = {}
      <4>1. Copy(kept[n], list[q].mark) = Left(n, list[q].mark)
        BY <2>2
      <4>2. ASSUME Unique(list) PROVE \A j \in 1 .. n : list[j].mark # list[q].mark
        BY <1>2, <2>1, <4>2 DEF Unique
      <4> QED BY <4>1, <4>2
    <3> HIDE DEF Good, q
    <3> QED BY <2>1, <2>2, <3>2, <3>4, <3>5
  <2> QED BY <2>4, <2>5
<1>5. Len(list) \in R
  <2> HIDE DEF R
  <2>1. \A n \in 0 .. Len(list) : n \in R
    BY <1>2, <1>3, <1>4, UpTo
  <2> QED BY <1>2, <2>1
<1>6. /\ kept[Len(list)] \in Seq(Bookmarks) /\ Good(Len(list))
      /\ Unique(list) => Unique(kept[Len(list)])
  <2> HIDE DEF Good
  <2> QED BY <1>5
<1> QED BY <1>1, <1>2, <1>6

-----------------------------------------------------------------------------
(* The last change of m is its revision at the server. *)
Changes(m, i) == About(m, i) /\ log[i].kind \in {"upserted", "deleted"}

(* Revision is 0, or a change of m that no other follows. *)
LEMMA RevisionIs ==
  ASSUME log \in Seq(Annotations), NEW m
  PROVE  /\ Revision(m) \in 0 .. Len(log)
         /\ Revision(m) # 0 => Revision(m) \in DOMAIN log /\ Changes(m, Revision(m))
         /\ \A i \in DOMAIN log : Changes(m, i) => i <= Revision(m)
<1> DEFINE changes == {i \in DOMAIN log : log[i].mark = m /\ log[i].kind \in {"upserted", "deleted"}}
<1>1. Revision(m) = IF changes = {} THEN 0 ELSE Max(changes)
  BY DEF Revision
<1>2. Len(log) \in Nat /\ DOMAIN log = 1 .. Len(log) /\ changes \in SUBSET (0 .. Len(log))
  OBVIOUS
<1>3. \A i : i \in changes <=> i \in DOMAIN log /\ Changes(m, i)
  BY DEF Changes, About
<1>4. CASE changes = {}
  BY <1>1, <1>2, <1>3, <1>4
<1>5. CASE changes # {}
  <2> HIDE DEF changes
  <2>1. Max(changes) \in changes /\ \A n \in changes : n <= Max(changes)
    BY <1>2, <1>5, MaxIs
  <2>2. Revision(m) \in changes /\ \A n \in changes : n <= Revision(m)
    BY <1>1, <1>5, <2>1
  <2> QED BY <1>2, <1>3, <2>2
<1> QED BY <1>4, <1>5

(* Queueing an event: in the place of the bookmark's event, at the end under the
   next id, or not at all. *)
EventOf(b, kind, id) ==
    [id |-> id, mark |-> b.mark, kind |-> kind,
     content |-> IF kind = "upserted" THEN b.content ELSE Plain, base |-> b.base]

Replaces(b, kind, id) ==
    /\ id # 0 /\ id = b.event
    /\ \E k \in sent + 1 .. Len(out) :
          out[k].id = id /\ out' = [out EXCEPT ![k] = EventOf(b, kind, id)]
    /\ nextId' = nextId /\ sent' = sent

Appends(b, kind, id) ==
    /\ id = nextId /\ nextId <= MaxId
    /\ out' = Append(out, EventOf(b, kind, id))
    /\ nextId' = nextId + 1 /\ sent' = sent

(* Queues does one of these. *)
LEMMA QueuesIs ==
  ASSUME NEW b, NEW kind, NEW id, Queues(b, kind, id)
  PROVE  \/ Replaces(b, kind, id)
         \/ Appends(b, kind, id)
         \/ id = 0 /\ out' = out /\ sent' = sent /\ nextId' = nextId
BY DEF Queues, Replaces, Appends, EventOf, outbox

(* It leaves an outbox of events. *)
LEMMA QueuesTypes ==
  ASSUME TypeOK, NEW b \in Bookmarks, NEW kind \in {"upserted", "deleted"},
         NEW id \in 0 .. MaxId, Queues(b, kind, id)
  PROVE  /\ out' \in Seq(Events)
         /\ sent' \in 0 .. Len(out')
         /\ nextId' \in 1 .. MaxId + 1
<1>1. out \in Seq(Events) /\ sent \in 0 .. Len(out) /\ nextId \in 1 .. MaxId + 1 /\ MaxId \in Nat
  BY BookmarkAssumption DEF TypeOK
<1>2. id # 0 => EventOf(b, kind, id) \in Events
  BY BookmarkAssumption DEF EventOf, Events, Bookmarks
<1>3. CASE Replaces(b, kind, id)
  <2>1. PICK k \in sent + 1 .. Len(out) : out' = [out EXCEPT ![k] = EventOf(b, kind, id)]
    BY <1>3 DEF Replaces
  <2>2. id # 0 /\ nextId' = nextId /\ sent' = sent
    BY <1>3 DEF Replaces
  <2>3. out' \in Seq(Events) /\ Len(out') = Len(out)
    BY <1>1, <1>2, <2>1, <2>2
  <2> QED BY <1>1, <2>2, <2>3
<1>4. CASE Appends(b, kind, id)
  <2>1. id # 0 /\ out' = Append(out, EventOf(b, kind, id)) /\ nextId' = nextId + 1 /\ sent' = sent
    BY <1>1, <1>4 DEF Appends
  <2>2. nextId <= MaxId
    BY <1>4 DEF Appends
  <2>3. out' \in Seq(Events) /\ Len(out') = Len(out) + 1
    BY <1>1, <1>2, <2>1
  <2> QED BY <1>1, <2>1, <2>2, <2>3
<1> QED BY <1>1, <1>3, <1>4, QueuesIs

(* The server appends annotations. *)
LEMMA PublishTypes ==
  ASSUME TypeOK, NEW m \in Marks, NEW kind \in {"upserted", "deleted", "conflict", "strange"},
         NEW content \in Contents, NEW own \in BOOLEAN,
         NEW rev \in 0 .. Len(log) + 1, Publish(Annotation(m, kind, content, own, rev))
  PROVE  /\ log' \in Seq(Annotations) /\ Len(log') <= MaxLog /\ Len(log') = Len(log) + 1
         /\ DOMAIN log' = 1 .. Len(log) + 1
         /\ log'[Len(log) + 1] = Annotation(m, kind, content, own, rev)
         /\ \A i \in DOMAIN log : log'[i] = log[i]
<1> DEFINE a == Annotation(m, kind, content, own, rev)
<1>1. log \in Seq(Annotations) /\ Len(log) \in Nat
  BY DEF TypeOK
<1>2. Len(log) + 1 <= MaxLog /\ log' = Append(log, a)
  BY <1>1, BookmarkAssumption DEF Publish
<1>3. a \in Annotations
  <2>1. rev \in 0 .. MaxLog
    BY <1>1, <1>2, BookmarkAssumption
  <2> QED BY <2>1 DEF Annotation, Annotations
<1> HIDE DEF a
<1>4. log' \in Seq(Annotations) /\ Len(log') = Len(log) + 1 /\ log'[Len(log) + 1] = a
  BY <1>1, <1>2, <1>3
<1>5. DOMAIN log' = 1 .. Len(log) + 1 /\ \A i \in DOMAIN log : log'[i] = log[i]
  BY <1>1, <1>2
<1> QED BY <1>2, <1>4, <1>5 DEF a

-----------------------------------------------------------------------------
(* Type correctness. *)

(* What reconcile starts from: the file or an empty list, with the annotations
   that can be applied. *)
LEMMA LoadIs ==
  ASSUME TypeOK, NEW loaded \in {card, <<>>}, NEW items \in SUBSET inbox
  PROVE  LET result == Replay(loaded, ToApply(items))
         IN  /\ result.list \in Seq(Bookmarks) /\ result.changed \in BOOLEAN
             /\ loaded \in Seq(Bookmarks)
             /\ ~result.changed => result.list = loaded
             /\ [k \in DOMAIN result.list |-> Named(result.list[k])] \in Seq(Bookmarks)
             /\ ToApply(items) \subseteq items
<1>1. loaded \in Seq(Bookmarks) /\ log \in Seq(Annotations)
  <2>1. card \in Seq(Bookmarks) /\ log \in Seq(Annotations)
    BY DEF TypeOK
  <2>2. <<>> \in Seq(Bookmarks)
    OBVIOUS
  <2> QED BY <2>1, <2>2
<1>2. ToApply(items) \subseteq items
  BY DEF ToApply
<1> QED BY <1>1, <1>2, ReplayTypes, NamedCopies

(* The loops have nothing to do outside their steps. *)
LoopOK ==
    /\ pc # "deleting" => doomed = {}
    /\ pc \notin {"queueing", "deleting"} => todo = {}

TypeInv == TypeOK /\ LoopOK

(* Every step keeps the types, and leaves the loops with nothing to do. *)
LEMMA TypeStep == TypeInv /\ [Next]_vars => TypeInv'
<1> SUFFICES ASSUME TypeInv, [Next]_vars PROVE TypeInv'
  OBVIOUS
<1> USE DEF TypeInv
<1> USE BookmarkAssumption
<1>0. /\ card \in Seq(Bookmarks) /\ list \in Seq(Bookmarks) /\ <<>> \in Seq(Bookmarks)
      /\ log \in Seq(Annotations) /\ Len(log) \in Nat /\ Len(log) <= MaxLog
      /\ cursor \in 0 .. Len(log) /\ inbox \subseteq 1 .. Len(log) /\ applied \subseteq 1 .. Len(log)
  <2>1. card \in Seq(Bookmarks) /\ list \in Seq(Bookmarks)
    BY DEF TypeOK
  <2>2. <<>> \in Seq(Bookmarks)
    OBVIOUS
  <2>3. log \in Seq(Annotations) /\ Len(log) <= MaxLog /\ cursor \in 0 .. Len(log)
    BY DEF TypeOK
  <2>4. inbox \subseteq 1 .. Len(log) /\ applied \subseteq 1 .. Len(log)
    BY DEF TypeOK
  <2> QED BY <2>1, <2>2, <2>3, <2>4
<1>1. ASSUME NEW m \in Marks, NEW c \in Contents, NEW kind \in {"upserted", "deleted", "strange"},
             Remote(m, kind, c)
      PROVE  TypeInv'
  <2>1. /\ rare' \subseteq Rarities
        /\ UNCHANGED <<paired, card, list, outbox, mail, taken, pc, loop>>
        /\ Publish(Annotation(m, kind, c, FALSE, Len(log) + 1))
    BY <1>1 DEF Remote, Happen, TypeOK
  <2>2. log' \in Seq(Annotations) /\ Len(log') <= MaxLog /\ Len(log') = Len(log) + 1
    <3>1. Len(log) + 1 \in 0 .. Len(log) + 1
      BY <1>0
    <3> QED BY <2>1, <3>1, PublishTypes
  <2>3. /\ cursor' \in 0 .. Len(log')
        /\ inbox' \subseteq 1 .. Len(log') /\ applied' \subseteq 1 .. Len(log')
    BY <1>0, <2>1, <2>2 DEF mail, loop
  <2> QED BY <1>0, <2>1, <2>2, <2>3 DEF TypeOK, LoopOK, outbox, mail, loop
<1>2. ASSUME NEW k, ServerTakes(k) PROVE TypeInv'
  <2>1. /\ taken' = taken \cup {out[k].id} /\ k \in 1 .. sent
        /\ UNCHANGED <<paired, card, list, outbox, mail, pc, loop, rare>>
    BY <1>2 DEF ServerTakes
  <2>2. k \in DOMAIN out /\ out[k] \in Events
    BY <2>1 DEF TypeOK
  <2>3. taken' \subseteq 1 .. MaxId
    BY <2>1, <2>2 DEF TypeOK, Events
  <2>4. PICK kind \in {"upserted", "deleted", "conflict"}, c \in Contents, rev \in 0 .. Len(log) + 1 :
           Publish(Annotation(out[k].mark, kind, c, TRUE, rev))
    <3>1. /\ out[k].kind \in {"upserted", "deleted"} /\ out[k].content \in Contents
          /\ Len(log) + 1 \in 0 .. Len(log) + 1
      BY <1>0, <2>2 DEF Events
    <3>2. Revision(out[k].mark) \in 0 .. Len(log) + 1
      BY <1>0, RevisionIs
    <3>3. \/ Publish(Annotation(out[k].mark, out[k].kind, out[k].content, TRUE, Len(log) + 1))
          \/ Publish(Annotation(out[k].mark, "conflict", Plain, TRUE, Revision(out[k].mark)))
      BY <1>2 DEF ServerTakes
    <3> QED BY <3>1, <3>2, <3>3
  <2>5. log' \in Seq(Annotations) /\ Len(log') <= MaxLog /\ Len(log') = Len(log) + 1
    <3>1. out[k].mark \in Marks
      BY <2>2 DEF Events
    <3> QED BY <2>4, <3>1, PublishTypes
  <2>6. /\ cursor' \in 0 .. Len(log')
        /\ inbox' \subseteq 1 .. Len(log') /\ applied' \subseteq 1 .. Len(log')
    BY <1>0, <2>1, <2>5 DEF mail, loop
  <2> QED BY <1>0, <2>1, <2>3, <2>5, <2>6 DEF TypeOK, LoopOK, outbox, mail, loop
<1>3. ASSUME NEW k, MarkAttempted(k) PROVE TypeInv'
  BY <1>3 DEF MarkAttempted, TypeOK, LoopOK, mail, server, loop
<1>4. ASSUME NEW k, RetireAcknowledged(k) PROVE TypeInv'
  <2>1. /\ k \in 1 .. sent /\ out' = RemoveAt(out, k) /\ sent' = sent - 1
        /\ UNCHANGED <<paired, card, list, nextId, mail, server, pc, loop, rare>>
    BY <1>4 DEF RetireAcknowledged
  <2>2. out \in Seq(Events) /\ sent \in 0 .. Len(out) /\ k \in 1 .. Len(out)
    BY <2>1 DEF TypeOK
  <2>3. out' \in Seq(Events) /\ Len(out') = Len(out) - 1
    BY <2>1, <2>2, RemoveAtIs
  <2>4. sent' \in 0 .. Len(out')
    BY <2>1, <2>2, <2>3
  <2> QED BY <2>1, <2>3, <2>4 DEF TypeOK, LoopOK, mail, server, loop
<1>5. ASSUME NEW n, DeferPulled(n) PROVE TypeInv'
  <2>1. /\ n \in cursor + 1 .. Len(log) /\ cursor' \in {cursor, n}
        /\ inbox' = inbox \cup (cursor + 1 .. n)
        /\ rare' \subseteq Rarities
        /\ UNCHANGED <<paired, card, list, outbox, server, pc, loop>>
    <3>1. rare' \subseteq Rarities
      <4>1. PICK odd : Happen(odd)
        BY <1>5 DEF DeferPulled
      <4> QED BY <4>1 DEF Happen, TypeOK
    <3> QED BY <1>5, <3>1 DEF DeferPulled
  <2>2. /\ cursor' \in 0 .. Len(log')
        /\ inbox' \subseteq 1 .. Len(log') /\ applied' \subseteq 1 .. Len(log')
    BY <1>0, <2>1 DEF server, loop
  <2> QED BY <2>1, <2>2 DEF TypeOK, LoopOK, outbox, server, loop
<1>6. ASSUME Pair PROVE TypeInv'
  BY <1>6 DEF Pair, TypeOK, LoopOK, outbox, mail, server, loop
<1>7. ASSUME Load PROVE TypeInv'
  <2>1. PICK loaded \in {card, <<>>}, items \in SUBSET inbox :
           LET result == Replay(loaded, ToApply(items))
           IN  /\ rare' \subseteq Rarities /\ pc \in {"closed", "open"}
               /\ applied' = ToApply(items)
               /\ list' = IF paired THEN [k \in DOMAIN result.list |-> Named(result.list[k])]
                          ELSE result.list
               /\ changed' = (result.changed \/ list' # result.list)
    BY <1>7 DEF Load, Happen, TypeOK
  <2>2. /\ todo' = IF paired THEN {k \in DOMAIN list' : list'[k].stage # "queued"} ELSE {}
        /\ Queued
        /\ UNCHANGED <<paired, card, outbox, mail, server, doomed>>
    BY <1>7 DEF Load
  <2>3. /\ list' \in Seq(Bookmarks) /\ applied' \subseteq 1 .. Len(log)
    BY <1>0, <2>1, LoadIs
  <2>4. changed' \in BOOLEAN
    BY <2>1
  <2>5. todo' \subseteq DOMAIN list'
    BY <2>2
  <2>6. pc' \in {"closed", "open", "queueing", "saving", "resolving", "deleting"}
    BY <2>2 DEF Queued
  <2>7. doomed' = {} /\ LoopOK'
    BY <2>1, <2>2 DEF LoopOK, Queued
  <2> QED BY <2>1, <2>2, <2>3, <2>4, <2>5, <2>6, <2>7 DEF TypeOK, LoopOK, outbox, mail, server
<1>8. ASSUME LoadOnly PROVE TypeInv'
  <2>1. /\ pc \in {"closed", "open"} /\ list' = card /\ pc' = "open"
        /\ UNCHANGED <<paired, card, outbox, mail, server, loop, rare>>
    BY <1>8 DEF LoadOnly
  <2>2. todo = {} /\ doomed = {}
    BY <2>1 DEF LoopOK
  <2> QED BY <1>0, <2>1, <2>2 DEF TypeOK, LoopOK, outbox, mail, server, loop
<1>9. ASSUME NEW k, EnqueueUpsert(k) PROVE TypeInv'
  <2>1. PICK id \in 0 .. MaxId :
          /\ Queues(list[k], "upserted", id)
          /\ list' = [list EXCEPT ![k] = Upserted(list[k], id)]
          /\ changed' = (changed \/ id # 0)
    BY <1>9 DEF EnqueueUpsert
  <2>2. /\ k \in todo /\ todo' = todo \ {k}
        /\ UNCHANGED <<paired, card, mail, server, doomed, applied, rare>> /\ Queued
    BY <1>9 DEF EnqueueUpsert
  <2>3. k \in DOMAIN list /\ list[k] \in Bookmarks
    BY <2>2 DEF TypeOK
  <2>4. Upserted(list[k], id) \in Bookmarks
    BY <2>3 DEF Upserted, Named, Bookmarks
  <2>5. list' \in Seq(Bookmarks) /\ DOMAIN list' = DOMAIN list
    BY <1>0, <2>1, <2>3, <2>4
  <2>6. out' \in Seq(Events) /\ sent' \in 0 .. Len(out') /\ nextId' \in 1 .. MaxId + 1
    BY <2>1, <2>3, QueuesTypes
  <2>7. pc' \in {"closed", "open", "queueing", "saving", "resolving", "deleting"} /\ changed' \in BOOLEAN
    BY <2>1, <2>2 DEF Queued
  <2>8. LoopOK'
    BY <1>9, <2>2 DEF LoopOK, Queued, EnqueueUpsert
  <2> QED BY <2>2, <2>5, <2>6, <2>7, <2>8 DEF TypeOK, LoopOK, mail, server
<1>10. ASSUME Save PROVE TypeInv'
  <2>1. /\ pc = "saving" /\ changed' = FALSE /\ card' \in {list, card, <<>>} /\ applied' \subseteq applied
        /\ rare' \subseteq Rarities
        /\ pc' \in {"open", "resolving"}
        /\ UNCHANGED <<paired, list, outbox, mail, server, todo, doomed>>
    BY <1>10 DEF Save, AfterFailure, Happen, TypeOK
  <2>2. card' \in Seq(Bookmarks) /\ applied' \subseteq 1 .. Len(log)
    BY <1>0, <2>1
  <2> QED BY <2>1, <2>2 DEF TypeOK, LoopOK, outbox, mail, server
<1>11. ASSUME ResolveInbox PROVE TypeInv'
  <2>1. /\ pc = "resolving" /\ inbox' \subseteq inbox /\ applied' \subseteq applied
        /\ pc' \in {"open", "resolving"}
        /\ UNCHANGED <<paired, card, list, outbox, cursor, server, todo, doomed, changed, rare>>
    BY <1>11 DEF ResolveInbox
  <2> QED BY <2>1 DEF TypeOK, LoopOK, outbox, server
<1>12. ASSUME Close PROVE TypeInv'
  <2>1. /\ pc = "open" /\ list' = <<>> /\ pc' = "closed"
        /\ UNCHANGED <<paired, card, outbox, mail, server, loop, rare>>
    BY <1>12 DEF Close
  <2>2. todo = {} /\ doomed = {}
    BY <2>1 DEF LoopOK
  <2> QED BY <1>0, <2>1, <2>2 DEF TypeOK, LoopOK, outbox, mail, server, loop
<1>13. ASSUME NEW m \in Marks, AddBookmark(m) PROVE TypeInv'
  <2> DEFINE fresh == [mark |-> m, content |-> Plain, stage |-> "new", event |-> 0, base |-> 0, conflict |-> FALSE]
  <2>1. /\ pc = "open" /\ pc' = "saving"
        /\ UNCHANGED <<paired, card, mail, server, loop, rare>>
        /\ \/ list' = <<fresh>> \o list /\ UNCHANGED outbox
           \/ \E id \in 0 .. MaxId : Queues(fresh, "upserted", id) /\ list' = <<Upserted(fresh, id)>> \o list
    BY <1>13 DEF AddBookmark
  <2>2. fresh \in Bookmarks
    BY DEF Bookmarks
  <2> HIDE DEF fresh
  <2>3. \A id \in 0 .. MaxId : Upserted(fresh, id) \in Bookmarks
    BY <2>2 DEF Upserted, Named, Bookmarks
  <2>4. list' \in Seq(Bookmarks)
    BY <1>0, <2>1, <2>2, <2>3, FrontCopies
  <2>5. out' \in Seq(Events) /\ sent' \in 0 .. Len(out') /\ nextId' \in 1 .. MaxId + 1
    <3>1. CASE UNCHANGED outbox
      BY <3>1 DEF TypeOK, outbox
    <3>2. CASE \E id \in 0 .. MaxId : Queues(fresh, "upserted", id)
      BY <2>2, <3>2, QueuesTypes
    <3> QED BY <2>1, <3>1, <3>2
  <2>6. todo = {} /\ doomed = {}
    BY <2>1 DEF LoopOK
  <2> QED BY <2>1, <2>4, <2>5, <2>6 DEF TypeOK, LoopOK, mail, server, loop
<1>14. ASSUME NEW ks \in SUBSET DOMAIN list, DeleteBookmarks(ks) PROVE TypeInv'
  BY <1>14 DEF DeleteBookmarks, TypeOK, LoopOK, outbox, mail, server
<1>15. ASSUME NEW k, EnqueueDelete(k) PROVE TypeInv'
  <2>1. PICK erase \in {{}, doomed} :
          /\ UNCHANGED outbox \/ \E id \in 0 .. MaxId : Queues(list[k], "deleted", id)
          /\ IF todo' # {}
             THEN doomed' = erase /\ UNCHANGED <<list, pc>>
             ELSE /\ doomed' = {}
                  /\ list' = Without(erase)
                  /\ pc' = IF erase = {} THEN "open" ELSE "saving"
    BY <1>15 DEF EnqueueDelete
  <2>2. /\ pc = "deleting" /\ k \in todo /\ todo' = todo \ {k}
        /\ UNCHANGED <<paired, card, mail, server, changed, applied, rare>>
    BY <1>15 DEF EnqueueDelete
  <2>3. k \in DOMAIN list /\ list[k] \in Bookmarks
    BY <2>2 DEF TypeOK
  <2>4. out' \in Seq(Events) /\ sent' \in 0 .. Len(out') /\ nextId' \in 1 .. MaxId + 1
    <3>1. CASE UNCHANGED outbox
      BY <3>1 DEF TypeOK, outbox
    <3>2. CASE \E id \in 0 .. MaxId : Queues(list[k], "deleted", id)
      BY <2>3, <3>2, QueuesTypes
    <3> QED BY <2>1, <3>1, <3>2
  <2>5. CASE todo' # {}
    <3>1. doomed' \subseteq DOMAIN list /\ list' = list /\ pc' = pc
      BY <2>1, <2>5 DEF TypeOK
    <3> QED BY <2>2, <2>4, <3>1 DEF TypeOK, LoopOK, mail, server
  <2>6. CASE todo' = {}
    <3>1. list' \in Seq(Bookmarks) /\ doomed' = {} /\ pc' \in {"open", "saving"}
      BY <1>0, <2>1, <2>6, WithoutCopies
    <3> QED BY <2>2, <2>4, <2>6, <3>1 DEF TypeOK, LoopOK, mail, server
  <2> QED BY <2>5, <2>6
<1>16. ASSUME PowerLoss PROVE TypeInv'
  <2>1. /\ card' \in {card, <<>>} /\ pc' = "closed" /\ rare' \subseteq Rarities /\ list' = <<>>
        /\ todo' = {} /\ doomed' = {} /\ changed' = FALSE /\ applied' = {}
        /\ UNCHANGED <<paired, outbox, mail, server>>
    BY <1>16 DEF PowerLoss, Happen, TypeOK
  <2> QED BY <1>0, <2>1 DEF TypeOK, LoopOK, outbox, mail, server
<1>17. CASE UNCHANGED vars
  BY <1>17 DEF TypeOK, LoopOK, vars, outbox, mail, server, loop
<1>18. ASSUME NEW k, ServerRefuses(k) PROVE TypeInv'
  <2>1. /\ taken' = taken \cup {out[k].id} /\ k \in 1 .. sent /\ rare' \subseteq Rarities
        /\ UNCHANGED <<paired, card, list, outbox, mail, log, pc, loop>>
    BY <1>18 DEF ServerRefuses, Happen, TypeOK
  <2>2. k \in DOMAIN out /\ out[k] \in Events
    BY <2>1 DEF TypeOK
  <2>3. taken' \subseteq 1 .. MaxId
    BY <2>1, <2>2 DEF TypeOK, Events
  <2> QED BY <1>0, <2>1, <2>3 DEF TypeOK, LoopOK, outbox, mail, loop
<1> QED
  BY <1>1, <1>2, <1>3, <1>4, <1>5, <1>6, <1>7, <1>8, <1>9, <1>10, <1>11, <1>12, <1>13, <1>14,
     <1>15, <1>16, <1>17, <1>18 DEF Next

(* The types hold at the start. *)
LEMMA InitTypes == Init => TypeInv
<1> SUFFICES ASSUME Init PROVE TypeInv
  OBVIOUS
<1>1. card \in Seq(Bookmarks) /\ list \in Seq(Bookmarks) /\ out \in Seq(Events)
        /\ log \in Seq(Annotations) /\ Len(out) = 0 /\ Len(log) = 0
  BY DEF Init
<1>2. 0 <= MaxLog /\ 1 \in 1 .. MaxId + 1
  BY BookmarkAssumption
<1>3. /\ sent \in 0 .. Len(out) /\ nextId \in 1 .. MaxId + 1
        /\ Len(log) <= MaxLog /\ cursor \in 0 .. Len(log)
  BY <1>1, <1>2 DEF Init
<1>4. /\ inbox = {} /\ applied = {} /\ taken = {} /\ todo = {} /\ doomed = {} /\ rare = {}
        /\ paired = FALSE /\ changed = FALSE /\ pc = "closed"
  BY DEF Init
<1> QED BY <1>1, <1>3, <1>4 DEF TypeInv, TypeOK, LoopOK

(* The bookmarks in memory and in the file, the outbox, the inbox and the
   server's log keep their types. *)
THEOREM TypeCorrect == Spec => []TypeOK
<1> QED BY InitTypes, TypeStep, PTL DEF Spec, TypeInv

-----------------------------------------------------------------------------
(* What is shown after annotations are applied. *)

(* Applied twice they say the same. *)
LEMMA OutcomeTwice ==
  ASSUME NEW S, NEW m, NEW shown
  PROVE  Outcome(S, m, Outcome(S, m, shown)) = Outcome(S, m, shown)
BY DEF Outcome, Base

(* The earlier ones and then the later ones say what all of them say. *)
LEMMA OutcomeJoins ==
  ASSUME NEW S \in SUBSET Nat, NEW T \in SUBSET Nat, \A i \in S, j \in T : i < j,
         NEW m, NEW shown
  PROVE  Outcome(S \cup T, m, shown) = Outcome(T, m, Outcome(S, m, shown))
<1>1. CASE \E j \in T : Decides(m, j)
  <2>1. PICK t \in T : Decides(m, t)
    BY <1>1
  <2>2. \A i \in S : i < t /\ ~(t <= i)
    BY <2>1
  <2>3. Decided(S \cup T, m) = Decided(T, m)
    <3>1. ASSUME NEW i \in Decided(S \cup T, m) PROVE i \in Decided(T, m)
      <4>1. t <= i /\ i \in S \cup T
        BY <2>1 DEF Decided
      <4>2. i \in T
        BY <2>2, <4>1
      <4> QED BY <4>2 DEF Decided
    <3>2. ASSUME NEW i \in Decided(T, m) PROVE i \in Decided(S \cup T, m)
      <4>1. i \in T /\ i \in Nat
        BY DEF Decided
      <4>2. \A j \in S : j <= i
        BY <4>1
      <4> QED BY <4>2 DEF Decided
    <3> QED BY <3>1, <3>2
  <2>4. Confirmed(S \cup T, m) <=> Confirmed(T, m)
    <3>1. ASSUME Confirmed(S \cup T, m) PROVE Confirmed(T, m)
      <4>1. PICK i \in S \cup T : Confirms(m, i) /\ \A j \in S \cup T : Decides(m, j) => j < i
        BY <3>1 DEF Confirmed
      <4>2. t < i
        BY <2>1, <4>1
      <4>3. i \notin S
        <5>1. i \in S => i < t /\ i \in Nat /\ t \in Nat
          BY <2>1, <2>2
        <5> QED BY <4>2, <5>1
      <4> QED BY <4>1, <4>3 DEF Confirmed
    <3>2. ASSUME Confirmed(T, m) PROVE Confirmed(S \cup T, m)
      <4>1. PICK i \in T : Confirms(m, i) /\ \A j \in T : Decides(m, j) => j < i
        BY <3>2 DEF Confirmed
      <4>2. \A j \in S : j < i
        OBVIOUS
      <4> QED BY <4>1, <4>2 DEF Confirmed
    <3> QED BY <3>1, <3>2
  <2>5. \A x, y : Base(S \cup T, m, x) = Base(T, m, y)
    BY <2>1, <2>3 DEF Base
  <2> QED BY <2>4, <2>5 DEF Outcome
<1>2. CASE \A j \in T : ~Decides(m, j)
  <2>1. Decided(S \cup T, m) = Decided(S, m)
    BY <1>2 DEF Decided
  <2>2. Base(S \cup T, m, shown) = Base(S, m, shown)
    BY <1>2, <2>1 DEF Base
  <2>3. \A x : Base(T, m, x) = x
    BY <1>2 DEF Base
  <2>4. Confirmed(S \cup T, m) <=> Confirmed(S, m) \/ Confirmed(T, m)
    <3>1. ASSUME Confirmed(S \cup T, m) PROVE Confirmed(S, m) \/ Confirmed(T, m)
      BY <1>2, <3>1 DEF Confirmed
    <3>2. ASSUME Confirmed(S, m) PROVE Confirmed(S \cup T, m)
      BY <1>2, <3>2 DEF Confirmed
    <3>3. ASSUME Confirmed(T, m) PROVE Confirmed(S \cup T, m)
      BY <1>2, <3>3 DEF Confirmed
    <3> QED BY <3>1, <3>2, <3>3
  <2> QED BY <2>2, <2>3, <2>4 DEF Outcome
<1> QED BY <1>1, <1>2

(* If all of them would change nothing, so would all but the first. *)
LEMMA OutcomeRest ==
  ASSUME NEW S \in SUBSET Nat, NEW q \in S, \A i \in S : q <= i,
         NEW m, NEW shown, Outcome(S, m, shown) = shown
  PROVE  Outcome(S \ {q}, m, shown) = shown
<1> DEFINE T == S \ {q}
           x == Outcome({q}, m, shown)
<1>1. {q} \in SUBSET Nat /\ T \in SUBSET Nat /\ S = {q} \cup T /\ \A i \in {q}, j \in T : i < j
  OBVIOUS
<1> HIDE DEF T
<1>2. Outcome(T, m, x) = shown
  BY <1>1, OutcomeJoins
<1>3. Outcome(T, m, Outcome(T, m, x)) = Outcome(T, m, x)
  BY OutcomeTwice
<1>4. Outcome(T, m, shown) = shown
  BY <1>2, <1>3
<1> QED BY <1>4 DEF T

(* A list shows what its bookmarks say. *)
LEMMA ShownIs ==
  ASSUME NEW L, NEW m
  PROVE  Shown(L, m) = Says(Copy(L, m))
BY DEF Shown, Says, Copy

-----------------------------------------------------------------------------
(* What was applied is saved before it is retired. *)

Usual == rare \cap {"unreadable", "twin"} = {}

(* What waits to be queued was made here, and says what a local bookmark says. *)
Local(L) == \A m : \A b \in Copy(L, m) : b.stage # "queued" => b.content = Plain

LogPlain == \A i \in DOMAIN log : log[i].kind = "upserted" /\ log[i].own => log[i].content = Plain

OutPlain == \A k \in DOMAIN out : out[k].kind = "upserted" => out[k].content = Plain

Queueing ==
    pc = "queueing" =>
        /\ \A k \in todo : list[k].stage = "named"
        /\ \A k \in DOMAIN list : list[k].stage # "new"

(* Reconciling: the items applied were known ones and met bookmarks with sync
   ids; the list shows what they say. *)
Busy == pc \in {"queueing", "saving", "resolving"}

Resolvable ==
    /\ ~Busy => applied = {}
    /\ \A q \in applied : log[q].kind # "strange"
    /\ \A q \in applied : \A b \in Copy(list, log[q].mark) : b.stage # "new"

Absorbed == \A m : Outcome(applied, m, Says(Copy(list, m))) = Says(Copy(list, m))

(* The file is the list when nothing is left to save. *)
Written == (pc = "resolving" \/ (pc = "queueing" /\ ~changed)) => list = card

SavedParts ==
    /\ LogPlain /\ OutPlain
    /\ Local(card) /\ Local(list)
    /\ Unique(card) /\ Unique(list)
    /\ Queueing /\ Resolvable /\ Absorbed /\ Written

SavedInv == TypeInv /\ (Usual => SavedParts)

(* A step makes nothing rare undone. *)
LEMMA RareGrows == TypeInv /\ [Next]_vars => rare \subseteq rare'
<1> SUFFICES ASSUME TypeInv, [Next]_vars PROVE rare \subseteq rare'
  OBVIOUS
<1>1. ASSUME NEW m, NEW kind, NEW c, Remote(m, kind, c) PROVE rare \subseteq rare'
  BY <1>1 DEF Remote, Happen
<1>2. ASSUME NEW k, ServerTakes(k) \/ MarkAttempted(k) \/ RetireAcknowledged(k) PROVE rare \subseteq rare'
  BY <1>2 DEF ServerTakes, MarkAttempted, RetireAcknowledged
<1>3. ASSUME Pair \/ LoadOnly \/ ResolveInbox \/ Close PROVE rare \subseteq rare'
  BY <1>3 DEF Pair, LoadOnly, ResolveInbox, Close
<1>4. ASSUME Load PROVE rare \subseteq rare'
  BY <1>4 DEF Load, Happen
<1>5. ASSUME NEW k, EnqueueUpsert(k) \/ EnqueueDelete(k) PROVE rare \subseteq rare'
  BY <1>5 DEF EnqueueUpsert, EnqueueDelete
<1>6. ASSUME Save \/ PowerLoss PROVE rare \subseteq rare'
  BY <1>6 DEF Save, PowerLoss, Happen
<1>7. ASSUME NEW m, AddBookmark(m) PROVE rare \subseteq rare'
  BY <1>7 DEF AddBookmark
<1>8. ASSUME NEW ks, DeleteBookmarks(ks) PROVE rare \subseteq rare'
  BY <1>8 DEF DeleteBookmarks
<1>9. ASSUME NEW k, ServerRefuses(k) \/ DeferPulled(k) PROVE rare \subseteq rare'
  <2>1. PICK odd : Happen(odd)
    BY <1>9 DEF ServerRefuses, DeferPulled
  <2> QED BY <2>1 DEF Happen
<1>10. CASE UNCHANGED vars
  BY <1>10 DEF vars
<1> QED BY <1>1, <1>2, <1>3, <1>4, <1>5, <1>6, <1>7, <1>8, <1>9, <1>10 DEF Next

(* What reconcile applies to the file is known, and said of bookmarks that have
   their sync id. *)
LEMMA LoadTold ==
  ASSUME TypeOK, LogPlain, Unique(card), Local(card), NEW items \in SUBSET inbox,
         ~Unfound(card, ToApply(items))
  PROVE  LET L == Replay(card, ToApply(items)).list
         IN  /\ Applicable(ToApply(items))
             /\ L \in Seq(Bookmarks) /\ Unique(L) /\ Local(L)
             /\ \A m : Told(ToApply(items), m, Copy(card, m), Copy(L, m))
             /\ \A q \in ToApply(items) : \A b \in Copy(L, log[q].mark) : b.stage # "new"
<1> DEFINE S == ToApply(items)
           L == Replay(card, S).list
<1>1. card \in Seq(Bookmarks) /\ log \in Seq(Annotations) /\ DOMAIN log = 1 .. Len(log) /\ Len(log) \in Nat
  BY DEF TypeOK
<1>2. S \subseteq items /\ \A q \in S : log[q].kind # "strange"
  <2>1. S \subseteq items
    BY DEF ToApply
  <2>2. items \subseteq 1 .. Len(log)
    BY DEF TypeOK
  <2>3. \A q \in S : q \in Nat /\ \A p \in items : p <= q => log[p].kind # "strange"
    BY <1>1, <2>1, <2>2 DEF ToApply
  <2> QED BY <2>1, <2>3
<1>3. S \subseteq DOMAIN log
  <2>1. inbox \subseteq 1 .. Len(log)
    BY DEF TypeOK
  <2>2. items \subseteq 1 .. Len(log)
    BY <1>1, <2>1
  <2> HIDE DEF S
  <2> QED BY <1>1, <1>2, <2>2
<1>4. Applicable(S)
  BY <1>2, <1>3 DEF Applicable, LogPlain
<1>5. \A q \in S : \A b \in Copy(card, log[q].mark) : b.stage # "new"
  BY DEF Unfound, Copy
<1> HIDE DEF S
<1>6. /\ Unique(L) /\ L \in Seq(Bookmarks)
      /\ \A m : Told(S, m, Copy(card, m), Copy(L, m))
  BY <1>1, <1>4, <1>5, ReplayTold, ReplayTypes
<1> HIDE DEF L
<1>7. ASSUME NEW m, NEW b \in Copy(L, m), b.stage # "queued"
      PROVE  /\ \E a \in Copy(card, m) : a.stage = b.stage
             /\ b.content = Plain
  <2>1. Told(S, m, Copy(card, m), Copy(L, m))
    BY <1>6
  <2>2. (\A i \in S : ~Decides(m, i)) /\ \E a \in Copy(card, m) : a.stage = b.stage
    BY <1>7, <2>1 DEF Told
  <2>3. \A a \in Copy(card, m) : a = a /\ \A c \in Copy(card, m) : a = c
    BY DEF Copy, Unique
  <2>4. Says(Copy(card, m)) = {Plain}
    <3>1. PICK a \in Copy(card, m) : a.stage = b.stage
      BY <2>2
    <3>2. a.content = Plain
      BY <1>7, <3>1 DEF Local
    <3>3. Copy(card, m) = {a}
      BY <2>3
    <3> QED BY <3>2, <3>3 DEF Says
  <2>5. Outcome(S, m, Says(Copy(card, m))) = {Plain}
    BY <2>2, <2>4 DEF Outcome, Base
  <2>6. Says(Copy(L, m)) = {Plain}
    BY <2>1, <2>5 DEF Told
  <2> QED BY <2>2, <2>6 DEF Says
<1>8. Local(L)
  BY <1>7 DEF Local
<1>9. \A q \in S : \A b \in Copy(L, log[q].mark) : b.stage # "new"
  BY <1>5, <1>7
<1> QED BY <1>4, <1>6, <1>8, <1>9 DEF S, L

(* Only what a local bookmark says is queued. *)
LEMMA QueuesPlain ==
  ASSUME TypeOK, OutPlain, NEW b, NEW kind, NEW id,
         Queues(b, kind, id), kind = "upserted" => b.content = Plain
  PROVE  OutPlain'
<1>1. out \in Seq(Events)
  BY DEF TypeOK
<1>2. EventOf(b, kind, id).kind = "upserted" => EventOf(b, kind, id).content = Plain
  BY DEF EventOf
<1>3. CASE Replaces(b, kind, id)
  <2>1. PICK k : out' = [out EXCEPT ![k] = EventOf(b, kind, id)]
    BY <1>3 DEF Replaces
  <2>2. DOMAIN out' = DOMAIN out /\ \A i \in DOMAIN out : out'[i] = out[i] \/ out'[i] = EventOf(b, kind, id)
    BY <1>1, <2>1
  <2> QED BY <1>2, <2>2 DEF OutPlain
<1>4. CASE Appends(b, kind, id)
  <2>1. out' = Append(out, EventOf(b, kind, id))
    BY <1>4 DEF Appends
  <2>2. \A i \in DOMAIN out' : out'[i] = EventOf(b, kind, id) \/ (i \in DOMAIN out /\ out'[i] = out[i])
    BY <1>1, <2>1
  <2> QED BY <1>2, <2>2 DEF OutPlain
<1>5. out' = out => OutPlain'
  BY DEF OutPlain
<1> QED BY <1>3, <1>4, <1>5, QueuesIs

(* No annotation was applied, or what the list shows is known without the step. *)
LEMMA AbsorbedNext ==
  ASSUME \/ applied' = {}
         \/ log' = log /\ \A m : Outcome(applied', m, Says(Copy(list', m))) = Says(Copy(list', m))
  PROVE  Absorbed'
<1>1. CASE applied' = {}
  BY <1>1 DEF Absorbed, Outcome, Base, Confirmed
<1>2. CASE log' = log /\ \A m : Outcome(applied', m, Says(Copy(list', m))) = Says(Copy(list', m))
  <2>1. \A m, i : (Decides(m, i)' <=> Decides(m, i)) /\ (Confirms(m, i)' <=> Confirms(m, i))
    BY <1>2 DEF Decides, Confirms, About
  <2>2. \A m : Decided(applied, m)' = Decided(applied', m)
    BY <2>1 DEF Decided
  <2>3. \A m : Confirmed(applied, m)' <=> Confirmed(applied', m)
    BY <2>1 DEF Confirmed
  <2>4. \A m : Base(applied, m, Says(Copy(list, m)))' = Base(applied', m, Says(Copy(list', m)))
    <3>1. \A m : {log'[i].content : i \in {j \in Decided(applied', m) : log'[j].kind = "upserted"}}
                 = {log[i].content : i \in {j \in Decided(applied', m) : log[j].kind = "upserted"}}
      BY <1>2
    <3>2. \A m : (\E i \in applied : Decides(m, i))' <=> (\E i \in applied' : Decides(m, i))
      BY <2>1
    <3> QED BY <2>2, <3>1, <3>2 DEF Base
  <2>5. \A m : Outcome(applied, m, Says(Copy(list, m)))' = Outcome(applied', m, Says(Copy(list', m)))
    BY <2>3, <2>4 DEF Outcome
  <2> QED BY <1>2, <2>5 DEF Absorbed
<1> QED BY <1>1, <1>2

(* Steps that leave the bookmarks, the outbox, the log and the loops. *)
LEMMA SavedStutters ==
  ASSUME SavedParts, UNCHANGED <<card, list, out, log, pc, todo, changed, applied>>
  PROVE  SavedParts'
<1>1. Absorbed'
  BY AbsorbedNext DEF SavedParts, Absorbed
<1>2. (LogPlain /\ OutPlain)'
  BY DEF SavedParts, LogPlain, OutPlain
<1>3. (Local(card) /\ Local(list) /\ Unique(card) /\ Unique(list))'
  BY DEF SavedParts, Local, Unique, Copy
<1>4. (Queueing /\ Written)'
  BY DEF SavedParts, Queueing, Written
<1>5. Resolvable'
  BY DEF SavedParts, Resolvable, Busy, Copy
<1> QED BY <1>1, <1>2, <1>3, <1>4, <1>5 DEF SavedParts

(* Steps while no reader is open, which leave the bookmarks. *)
LEMMA SavedClosed ==
  ASSUME SavedParts, pc = "closed", UNCHANGED <<card, list, pc, applied>>,
         LogPlain', OutPlain'
  PROVE  SavedParts'
<1>1. applied = {} /\ applied' = {}
  BY DEF SavedParts, Resolvable, Busy
<1>2. Absorbed'
  BY <1>1, AbsorbedNext
<1>3. (Local(card) /\ Local(list) /\ Unique(card) /\ Unique(list))'
  BY DEF SavedParts, Local, Unique, Copy
<1>4. (Queueing /\ Written /\ Resolvable)'
  BY <1>1 DEF Queueing, Written, Resolvable, Busy
<1> QED BY <1>2, <1>3, <1>4 DEF SavedParts

(* Steps that leave the log, and after which no annotation is to be retired. *)
LEMMA SavedIdle ==
  ASSUME SavedParts, log' = log, pc' \in {"open", "closed", "deleting", "saving"}, applied' = {},
         OutPlain', Local(card'), Local(list'), Unique(card'), Unique(list')
  PROVE  SavedParts'
<1>1. Absorbed'
  BY AbsorbedNext
<1>2. LogPlain'
  BY DEF SavedParts, LogPlain
<1>3. (Queueing /\ Written /\ Resolvable)'
  BY DEF Queueing, Written, Resolvable, Busy
<1>4. (Local(card) /\ Local(list) /\ Unique(card) /\ Unique(list))'
  BY DEF Local, Unique, Copy
<1> QED BY <1>1, <1>2, <1>3, <1>4 DEF SavedParts

(* Every step keeps what makes the retired annotations saved ones. *)
LEMMA SavedStep == SavedInv /\ [Next]_vars => SavedInv'
<1> SUFFICES ASSUME SavedInv, [Next]_vars PROVE SavedInv'
  OBVIOUS
<1>0. TypeInv /\ TypeInv'
  BY TypeStep DEF SavedInv
<1>1. SUFFICES ASSUME Usual' PROVE SavedParts'
  BY <1>0 DEF SavedInv
<1>2. Usual /\ SavedParts
  BY <1>0, <1>1, RareGrows DEF Usual, SavedInv
<1>3. /\ card \in Seq(Bookmarks) /\ list \in Seq(Bookmarks) /\ out \in Seq(Events)
      /\ log \in Seq(Annotations) /\ Len(log) \in Nat /\ DOMAIN log = 1 .. Len(log)
      /\ TypeOK /\ sent \in 0 .. Len(out)
  BY <1>0 DEF TypeInv, TypeOK
<1>4. /\ LogPlain /\ OutPlain /\ Local(card) /\ Local(list) /\ Unique(card) /\ Unique(list)
      /\ Queueing /\ Resolvable /\ Absorbed /\ Written
  BY <1>2 DEF SavedParts
<1>5. Local(<<>>) /\ Unique(<<>>)
  BY DEF Local, Unique, Copy
<1>6. ASSUME NEW m \in Marks, NEW c \in Contents, NEW kind \in {"upserted", "deleted", "strange"},
             Remote(m, kind, c)
      PROVE  SavedParts'
  <2>1. /\ pc = "closed" /\ UNCHANGED <<card, list, pc, applied, out>>
        /\ Publish(Annotation(m, kind, c, FALSE, Len(log) + 1))
    BY <1>6 DEF Remote, outbox, loop
  <2>2. /\ DOMAIN log' = 1 .. Len(log) + 1 /\ \A i \in DOMAIN log : log'[i] = log[i]
        /\ log'[Len(log) + 1] = Annotation(m, kind, c, FALSE, Len(log) + 1)
    <3>1. Len(log) + 1 \in 0 .. Len(log) + 1
      BY <1>3
    <3> QED BY <1>3, <2>1, <3>1, PublishTypes
  <2>3. ~log'[Len(log) + 1].own
    BY <2>2 DEF Annotation
  <2>4. LogPlain'
    <3> SUFFICES ASSUME NEW i \in DOMAIN log', log'[i].kind = "upserted", log'[i].own
                 PROVE  log'[i].content = Plain
      BY DEF LogPlain
    <3>1. i # Len(log) + 1
      BY <2>3
    <3>2. i \in DOMAIN log /\ log'[i] = log[i]
      BY <1>3, <2>2, <3>1
    <3> QED BY <1>4, <3>2 DEF LogPlain
  <2>5. OutPlain'
    BY <1>4, <2>1 DEF OutPlain
  <2> QED BY <1>2, <2>1, <2>4, <2>5, SavedClosed
<1>7. ASSUME NEW k, ServerTakes(k) PROVE SavedParts'
  <2>1. /\ pc = "closed" /\ k \in 1 .. sent
        /\ UNCHANGED <<card, list, pc, applied, out>>
    BY <1>7 DEF ServerTakes, outbox, loop
  <2>2. k \in DOMAIN out /\ out[k] \in Events
    BY <1>3, <2>1
  <2>3. PICK kind \in {"upserted", "deleted", "conflict"}, c \in Contents, rev \in 0 .. Len(log) + 1 :
           /\ Publish(Annotation(out[k].mark, kind, c, TRUE, rev))
           /\ kind = "upserted" => c = Plain
    <3>1. /\ out[k].kind \in {"upserted", "deleted"} /\ out[k].content \in Contents
          /\ Len(log) + 1 \in 0 .. Len(log) + 1 /\ Plain \in Contents
      BY <1>3, <2>2, BookmarkAssumption DEF Events
    <3>2. Revision(out[k].mark) \in 0 .. Len(log) + 1
      BY <1>3, RevisionIs
    <3>3. \/ Publish(Annotation(out[k].mark, out[k].kind, out[k].content, TRUE, Len(log) + 1))
          \/ Publish(Annotation(out[k].mark, "conflict", Plain, TRUE, Revision(out[k].mark)))
      BY <1>7 DEF ServerTakes
    <3>4. out[k].kind = "upserted" => out[k].content = Plain
      BY <1>4, <2>2 DEF OutPlain
    <3> QED BY <3>1, <3>2, <3>3, <3>4
  <2>4. /\ DOMAIN log' = 1 .. Len(log) + 1 /\ \A i \in DOMAIN log : log'[i] = log[i]
        /\ log'[Len(log) + 1] = Annotation(out[k].mark, kind, c, TRUE, rev)
    <3>1. out[k].mark \in Marks
      BY <2>2 DEF Events
    <3>2. /\ kind \in {"upserted", "deleted", "conflict", "strange"} /\ c \in Contents
          /\ rev \in 0 .. Len(log) + 1
      BY <2>3
    <3>3. Publish(Annotation(out[k].mark, kind, c, TRUE, rev))
      BY <2>3
    <3>4. TypeOK
      BY <1>3
    <3> QED BY <3>1, <3>2, <3>3, <3>4, PublishTypes
  <2>5. log'[Len(log) + 1].kind = "upserted" => log'[Len(log) + 1].content = Plain
    BY <2>3, <2>4 DEF Annotation
  <2>6. LogPlain'
    <3> SUFFICES ASSUME NEW i \in DOMAIN log', log'[i].kind = "upserted", log'[i].own
                 PROVE  log'[i].content = Plain
      BY DEF LogPlain
    <3>1. i = Len(log) + 1 \/ (i \in DOMAIN log /\ log'[i] = log[i])
      BY <1>3, <2>4
    <3> QED BY <1>4, <2>5, <3>1 DEF LogPlain
  <2>7. OutPlain'
    BY <1>4, <2>1 DEF OutPlain
  <2> QED BY <1>2, <2>1, <2>6, <2>7, SavedClosed
<1>8. ASSUME NEW k, MarkAttempted(k) PROVE SavedParts'
  BY <1>2, <1>8, SavedStutters DEF MarkAttempted, server, loop
<1>9. ASSUME NEW k, RetireAcknowledged(k) PROVE SavedParts'
  <2>1. /\ pc = "closed" /\ k \in 1 .. Len(out) /\ out' = RemoveAt(out, k)
        /\ UNCHANGED <<card, list, pc, applied, log>>
    BY <1>3, <1>9 DEF RetireAcknowledged, server, loop
  <2>2. \A i \in DOMAIN out' : \E j \in DOMAIN out : out'[i] = out[j]
    <3>1. /\ out' \in Seq(Events) /\ Len(out') = Len(out) - 1
          /\ \A i \in 1 .. Len(out) - 1 : out'[i] = IF i < k THEN out[i] ELSE out[i + 1]
      BY <1>3, <2>1, RemoveAtIs
    <3> SUFFICES ASSUME NEW i \in DOMAIN out' PROVE \E j \in DOMAIN out : out'[i] = out[j]
      OBVIOUS
    <3>2. i \in 1 .. Len(out) - 1
      BY <3>1
    <3>3. i \in DOMAIN out /\ i + 1 \in DOMAIN out
      BY <1>3, <3>2
    <3> QED BY <3>1, <3>2, <3>3
  <2>3. OutPlain'
    BY <1>4, <2>2 DEF OutPlain
  <2>4. LogPlain'
    BY <1>4, <2>1 DEF LogPlain
  <2> QED BY <1>2, <2>1, <2>3, <2>4, SavedClosed
<1>10. ASSUME NEW k, DeferPulled(k) \/ ServerRefuses(k) \/ Pair PROVE SavedParts'
  BY <1>2, <1>10, SavedStutters DEF DeferPulled, ServerRefuses, Pair, outbox, server, loop
<1>11. ASSUME Load PROVE SavedParts'
  <2>1. PICK loaded \in {card, <<>>}, items \in SUBSET inbox :
           LET result == Replay(loaded, ToApply(items))
               odd == {r \in Rare : \/ (r = "unreadable" /\ loaded # card)
                                   \/ (r = "scan" /\ items # inbox)
                                   \/ (r = "twin" /\ Unfound(loaded, ToApply(items)))}
           IN  /\ rare' = rare \cup odd
               /\ applied' = ToApply(items)
               /\ list' = IF paired THEN [k \in DOMAIN result.list |-> Named(result.list[k])]
                          ELSE result.list
               /\ changed' = (result.changed \/ list' # result.list)
    BY <1>11 DEF Load, Happen
  <2> DEFINE S == ToApply(items)
             L == Replay(card, S).list
  <2>2. /\ todo' = IF paired THEN {k \in DOMAIN list' : list'[k].stage # "queued"} ELSE {}
        /\ Queued
        /\ card' = card /\ out' = out /\ log' = log
    BY <1>11 DEF Load, outbox, server
  <2>3. loaded = card
    BY <1>1, <2>1 DEF Usual, Rare
  <2>4. ~Unfound(card, ToApply(items))
    BY <1>1, <2>1, <2>3 DEF Usual, Rare
  <2>5. /\ Applicable(S)
        /\ L \in Seq(Bookmarks) /\ Unique(L) /\ Local(L)
        /\ \A m : Told(S, m, Copy(card, m), Copy(L, m))
        /\ \A q \in S : \A b \in Copy(L, log[q].mark) : b.stage # "new"
    BY <1>3, <1>4, <2>4, LoadTold
  <2>6. ~Replay(card, S).changed => L = card
    BY <1>3, ReplayTypes
  <2>7. /\ applied' = S
        /\ list' = IF paired THEN [k \in DOMAIN L |-> Named(L[k])] ELSE L
        /\ ~changed' => list' = L /\ L = card
    BY <2>1, <2>3, <2>6
  <2> HIDE DEF S, L
  <2>8. /\ list' \in Seq(Bookmarks) /\ Unique(list')
        /\ \A m : Copy(list', m) = IF paired THEN {Named(b) : b \in Copy(L, m)} ELSE Copy(L, m)
    BY <2>5, <2>7, NamedCopies
  <2>9. \A b \in Bookmarks : /\ Named(b).content = b.content /\ Named(b).stage # "new"
                              /\ (b.stage = "queued" => Named(b).stage = "queued")
    BY DEF Named, Bookmarks
  <2>10. Local(list')
    <3>1. \A m : \A b \in Copy(L, m) : b \in Bookmarks
      BY <2>5 DEF Copy
    <3> SUFFICES ASSUME NEW m, NEW b \in Copy(list', m), b.stage # "queued" PROVE b.content = Plain
      BY DEF Local
    <3>2. PICK a \in Copy(L, m) : a = b \/ b = Named(a)
      BY <2>8
    <3>3. b.content = a.content /\ a.stage # "queued"
      BY <2>9, <3>1, <3>2
    <3> QED BY <2>5, <3>3 DEF Local
  <2>11. \A m : Says(Copy(list', m)) = Says(Copy(L, m))
    <3>1. \A m : \A b \in Copy(L, m) : Named(b).content = b.content
      BY <2>5, <2>9 DEF Copy
    <3> QED BY <2>8, <3>1 DEF Says
  <2>12. Absorbed'
    <3> SUFFICES ASSUME NEW m PROVE Outcome(S, m, Says(Copy(list', m))) = Says(Copy(list', m))
      BY <2>2, <2>7, AbsorbedNext
    <3>1. Says(Copy(L, m)) = Outcome(S, m, Says(Copy(card, m)))
      BY <2>5 DEF Told
    <3> QED BY <2>11, <3>1, OutcomeTwice
  <2>13. Written'
    BY <2>2, <2>7 DEF Written, Queued
  <2>14. Queueing'
    <3> SUFFICES ASSUME pc' = "queueing"
                 PROVE  /\ \A k \in todo' : list'[k].stage = "named"
                        /\ \A k \in DOMAIN list' : list'[k].stage # "new"
      BY DEF Queueing
    <3>1. paired
      BY <2>2 DEF Queued
    <3>2. list' = [k \in DOMAIN L |-> Named(L[k])]
      BY <2>7, <3>1
    <3>3. \A k \in DOMAIN list' : list'[k].stage # "new"
      BY <2>5, <2>9, <3>2
    <3>4. \A k \in DOMAIN list' : list'[k].stage \in {"new", "named", "queued"}
      <4>1. \A b \in Bookmarks : b.stage \in {"new", "named", "queued"}
        BY DEF Bookmarks
      <4> QED BY <2>8, <4>1
    <3> QED BY <2>2, <3>1, <3>3, <3>4
  <2>15. Resolvable'
    <3>1. ~Busy' => applied' = {}
      BY <2>2 DEF Busy, Queued
    <3>2. \A q \in S : log[q].kind # "strange"
      BY <2>5 DEF Applicable
    <3>3. ASSUME NEW q \in S, NEW x \in Copy(list', log[q].mark) PROVE x.stage # "new"
      <4>1. PICK a \in Copy(L, log[q].mark) : a = x \/ x = Named(a)
        BY <2>8
      <4>2. a \in Bookmarks /\ a.stage # "new"
        BY <2>5 DEF Copy
      <4> QED BY <2>9, <4>1, <4>2
    <3> QED BY <2>2, <2>7, <3>1, <3>2, <3>3 DEF Resolvable
  <2>16. (LogPlain /\ OutPlain)'
    BY <1>4, <2>2 DEF LogPlain, OutPlain
  <2>17. (Local(card) /\ Unique(card) /\ Local(list) /\ Unique(list))'
    BY <1>4, <2>2, <2>8, <2>10
  <2> QED BY <2>12, <2>13, <2>14, <2>15, <2>16, <2>17 DEF SavedParts
<1>12. ASSUME LoadOnly PROVE SavedParts'
  <2>1. /\ pc \in {"closed", "open"} /\ list' = card /\ pc' = "open" /\ card' = card
        /\ out' = out /\ log' = log /\ applied' = applied
    BY <1>12 DEF LoadOnly, outbox, server, loop
  <2>2. applied' = {}
    BY <1>4, <2>1 DEF Resolvable, Busy
  <2>3. OutPlain'
    BY <1>4, <2>1 DEF OutPlain
  <2> QED BY <1>2, <1>4, <2>1, <2>2, <2>3, SavedIdle
<1>13. ASSUME NEW k, EnqueueUpsert(k) PROVE SavedParts'
  <2>1. PICK id \in 0 .. MaxId :
          /\ Queues(list[k], "upserted", id)
          /\ list' = [list EXCEPT ![k] = Upserted(list[k], id)]
          /\ changed' = (changed \/ id # 0)
    BY <1>13 DEF EnqueueUpsert
  <2>2. /\ pc = "queueing" /\ k \in todo /\ todo' = todo \ {k} /\ Queued
        /\ card' = card /\ log' = log /\ applied' = applied
    BY <1>13 DEF EnqueueUpsert, server
  <2> DEFINE b == list[k]
             c == Upserted(b, id)
  <2>3. k \in DOMAIN list /\ b \in Bookmarks /\ b.stage = "named"
    BY <1>3, <1>4, <2>2 DEF TypeOK, Queueing
  <2>4. /\ c \in Bookmarks /\ c.mark = b.mark /\ c.content = b.content
        /\ c.stage \in {"named", "queued"} /\ (id = 0 => c = b)
    <3> HIDE DEF b
    <3> QED BY <2>3 DEF Upserted, Named, Bookmarks
  <2> HIDE DEF c
  <2>5. /\ Unique(list') /\ DOMAIN list' = DOMAIN list
        /\ Copy(list, b.mark) = {b} /\ Alters(list, list', b.mark, {c})
    <3>1. list' = [list EXCEPT ![k] = c]
      BY <2>1 DEF c
    <3>2. c.mark = list[k].mark /\ k \in DOMAIN list /\ c \in Bookmarks
      BY <2>3, <2>4
    <3>3. /\ Unique(list') /\ DOMAIN list' = DOMAIN list
          /\ Copy(list, c.mark) = {list[k]} /\ Alters(list, list', c.mark, {c})
      BY <1>3, <1>4, <3>1, <3>2, ExceptCopies
    <3> QED BY <2>4, <3>3
  <2>6. list'[k] = c /\ \A j \in DOMAIN list : j # k => list'[j] = list[j]
    BY <1>3, <2>1, <2>3 DEF c
  <2>7. b.content = Plain
    BY <1>4, <2>3, <2>5 DEF Local
  <2> HIDE DEF b
  <2>8. OutPlain'
    BY <1>3, <1>4, <2>1, <2>7, QueuesPlain DEF b
  <2>9. \A m : Copy(list', m) = IF m = b.mark THEN {c} ELSE Copy(list, m)
    BY <2>5 DEF Alters
  <2>10. Local(list')
    BY <1>4, <2>4, <2>7, <2>9 DEF Local
  <2>11. \A m : Says(Copy(list', m)) = Says(Copy(list, m))
    BY <2>4, <2>5, <2>9 DEF Says
  <2>12. Absorbed'
    BY <1>4, <2>2, <2>11, AbsorbedNext DEF Absorbed
  <2>13. Written'
    <3>1. ASSUME ~changed' PROVE ~changed /\ list' = list
      <4>1. id = 0 /\ ~changed
        BY <2>1, <3>1
      <4>2. list'[k] = list[k]
        BY <2>4, <2>6, <4>1 DEF b
      <4> QED BY <1>3, <2>1, <2>3, <4>1, <4>2
    <3>2. pc' = "resolving" => ~changed'
      BY <2>2 DEF Queued
    <3> QED BY <1>4, <2>2, <3>1, <3>2 DEF Written
  <2>14. Queueing'
    <3>1. \A j \in todo : j \in DOMAIN list /\ list[j].stage = "named"
      BY <1>3, <1>4, <2>2 DEF Queueing, TypeOK
    <3>2. \A j \in DOMAIN list : list[j].stage # "new"
      BY <1>4, <2>2 DEF Queueing
    <3>3. \A j \in todo' : list'[j].stage = "named"
      BY <2>2, <2>6, <3>1
    <3>4. \A j \in DOMAIN list : list'[j].stage # "new"
      BY <2>4, <2>6, <3>2
    <3> QED BY <2>5, <3>3, <3>4 DEF Queueing
  <2>15. Resolvable'
    <3>1. ~Busy' => applied' = {}
      BY <2>2 DEF Busy, Queued
    <3>2. ASSUME NEW q \in applied, NEW x \in Copy(list', log[q].mark) PROVE x.stage # "new"
      BY <1>4, <2>4, <2>9 DEF Resolvable
    <3> QED BY <1>4, <2>2, <3>1, <3>2 DEF Resolvable
  <2> QED BY <1>4, <2>2, <2>5, <2>8, <2>10, <2>12, <2>13, <2>14, <2>15
          DEF SavedParts, LogPlain, Local, Unique, Copy
<1>14. ASSUME Save PROVE SavedParts'
  <2>1. /\ pc = "saving" /\ list' = list /\ out' = out /\ log' = log /\ card' \in {list, card, <<>>}
    BY <1>14 DEF Save, outbox, server
  <2>2. OutPlain' /\ LogPlain'
    BY <1>4, <2>1 DEF OutPlain, LogPlain
  <2>3. Local(card') /\ Local(list') /\ Unique(card') /\ Unique(list')
    BY <1>4, <1>5, <2>1
  <2>4. CASE pc' = "open" /\ applied' = {}
    BY <1>2, <2>1, <2>2, <2>3, <2>4, SavedIdle
  <2>5. CASE pc' = "resolving" /\ card' = list /\ applied' = applied
    <3>1. Absorbed'
      BY <1>4, <2>1, <2>5, AbsorbedNext DEF Absorbed
    <3>2. (Queueing /\ Written)'
      BY <2>1, <2>5 DEF Queueing, Written
    <3>3. Resolvable'
      BY <1>4, <2>1, <2>5 DEF Resolvable, Busy
    <3> QED BY <2>2, <2>3, <3>1, <3>2, <3>3 DEF SavedParts
  <2> QED BY <1>14, <2>4, <2>5 DEF Save, AfterFailure
<1>15. ASSUME ResolveInbox PROVE SavedParts'
  <2>1. /\ pc = "resolving" /\ list' = list /\ out' = out /\ log' = log /\ card' = card
        /\ applied' = {} \/ applied' = applied \ {Min(applied)}
        /\ pc' = IF applied' = {} THEN "open" ELSE "resolving"
    BY <1>15 DEF ResolveInbox, outbox, server
  <2>2. OutPlain' /\ LogPlain'
    BY <1>4, <2>1 DEF OutPlain, LogPlain
  <2>3. CASE applied' = {}
    BY <1>2, <1>4, <2>1, <2>2, <2>3, SavedIdle
  <2>4. CASE applied' # {}
    <3>1. applied' = applied \ {Min(applied)} /\ pc' = "resolving" /\ applied # {}
      BY <2>1, <2>4
    <3>2. applied \in SUBSET Nat
      BY <1>3 DEF TypeOK
    <3>3. Min(applied) \in applied /\ \A q \in applied : Min(applied) <= q
      BY <3>1, <3>2, MinIs
    <3>4. ASSUME NEW m PROVE Outcome(applied', m, Says(Copy(list', m))) = Says(Copy(list', m))
      <4>1. Outcome(applied, m, Says(Copy(list, m))) = Says(Copy(list, m))
        BY <1>4 DEF Absorbed
      <4> DEFINE q == Min(applied)
                 shown == Says(Copy(list, m))
      <4>2. q \in applied /\ \A i \in applied : q <= i
        BY <3>3
      <4> HIDE DEF q, shown
      <4>3. Outcome(applied, m, shown) = shown
        BY <4>1 DEF shown
      <4>4. Outcome(applied \ {q}, m, shown) = shown
        BY <3>2, <4>2, <4>3, OutcomeRest
      <4> QED BY <2>1, <3>1, <4>4 DEF q, shown
    <3>5. Absorbed'
      BY <2>1, <3>4, AbsorbedNext
    <3>6. (Queueing /\ Written)'
      BY <1>4, <2>1, <3>1 DEF Queueing, Written
    <3>7. Resolvable'
      BY <1>4, <2>1, <3>1 DEF Resolvable, Busy
    <3>8. (Local(card) /\ Local(list) /\ Unique(card) /\ Unique(list))'
      BY <1>4, <2>1
    <3> QED BY <2>2, <3>5, <3>6, <3>7, <3>8 DEF SavedParts
  <2> QED BY <2>3, <2>4
<1>16. ASSUME Close PROVE SavedParts'
  <2>1. /\ pc = "open" /\ list' = <<>> /\ pc' = "closed" /\ card' = card
        /\ out' = out /\ log' = log /\ applied' = applied
    BY <1>16 DEF Close, outbox, server, loop
  <2>2. applied' = {}
    BY <1>4, <2>1 DEF Resolvable, Busy
  <2>3. OutPlain'
    BY <1>4, <2>1 DEF OutPlain
  <2> QED BY <1>2, <1>4, <1>5, <2>1, <2>2, <2>3, SavedIdle
<1>17. ASSUME NEW m \in Marks, AddBookmark(m) PROVE SavedParts'
  <2> DEFINE fresh == [mark |-> m, content |-> Plain, stage |-> "new", event |-> 0, base |-> 0, conflict |-> FALSE]
  <2>1. /\ pc = "open" /\ pc' = "saving" /\ Matching(m) = {}
        /\ card' = card /\ log' = log /\ applied' = applied
        /\ \/ list' = <<fresh>> \o list /\ out' = out
           \/ \E id \in 0 .. MaxId : Queues(fresh, "upserted", id) /\ list' = <<Upserted(fresh, id)>> \o list
    BY <1>17 DEF AddBookmark, server, loop, outbox
  <2>2. fresh \in Bookmarks /\ fresh.mark = m /\ fresh.content = Plain
    BY BookmarkAssumption DEF Bookmarks
  <2> HIDE DEF fresh
  <2>3. \A id \in 0 .. MaxId :
           /\ Upserted(fresh, id) \in Bookmarks
           /\ Upserted(fresh, id).mark = m /\ Upserted(fresh, id).content = Plain
    BY <2>2 DEF Upserted, Named, Bookmarks
  <2>4. PICK b \in Bookmarks : b.mark = m /\ b.content = Plain /\ list' = <<b>> \o list
    BY <2>1, <2>2, <2>3
  <2>5. applied' = {}
    BY <1>4, <2>1 DEF Resolvable, Busy
  <2>6. OutPlain'
    BY <1>3, <1>4, <2>1, <2>2, QueuesPlain DEF OutPlain
  <2>7. Copy(list, b.mark) = {}
    BY <2>1, <2>4 DEF Matching, Copy
  <2>8. Unique(list') /\ Alters(list, list', b.mark, {b})
    BY <1>3, <1>4, <2>4, <2>7, FrontCopies
  <2>9. Local(list')
    BY <1>4, <2>4, <2>8 DEF Local, Alters
  <2> QED BY <1>2, <1>4, <2>1, <2>5, <2>6, <2>8, <2>9, SavedIdle
<1>18. ASSUME NEW ks, DeleteBookmarks(ks) PROVE SavedParts'
  <2>1. /\ pc = "open" /\ pc' = "deleting" /\ card' = card /\ list' = list
        /\ out' = out /\ log' = log /\ applied' = applied
    BY <1>18 DEF DeleteBookmarks, outbox, server
  <2>2. applied' = {}
    BY <1>4, <2>1 DEF Resolvable, Busy
  <2>3. OutPlain'
    BY <1>4, <2>1 DEF OutPlain
  <2> QED BY <1>2, <1>4, <2>1, <2>2, <2>3, SavedIdle
<1>19. ASSUME NEW k, EnqueueDelete(k) PROVE SavedParts'
  <2>1. /\ pc = "deleting" /\ card' = card /\ log' = log /\ applied' = applied
        /\ out' = out \/ \E id : Queues(list[k], "deleted", id)
        /\ list' = list \/ \E ks : list' = Without(ks)
        /\ pc' \in {"deleting", "open", "saving"}
    BY <1>19 DEF EnqueueDelete, server, outbox
  <2>2. applied' = {}
    BY <1>4, <2>1 DEF Resolvable, Busy
  <2>3. OutPlain'
    BY <1>3, <1>4, <2>1, QueuesPlain DEF OutPlain
  <2>4. ASSUME NEW ks PROVE Local(Without(ks)) /\ Unique(Without(ks))
    <3>1. Unique(Without(ks)) /\ \A m : Copy(Without(ks), m) \subseteq Copy(list, m)
      <4>1. Unique(Without(ks))
        BY <1>3, <1>4, WithoutCopies
      <4>2. \A m : Copy(Without(ks), m) = {list[j] : j \in {i \in DOMAIN list : i \notin ks /\ list[i].mark = m}}
        BY <1>3, WithoutCopies
      <4>3. \A m : {list[j] : j \in {i \in DOMAIN list : i \notin ks /\ list[i].mark = m}} \subseteq Copy(list, m)
        BY DEF Copy
      <4> QED BY <4>1, <4>2, <4>3
    <3> QED BY <1>4, <3>1 DEF Local
  <2>5. Local(list') /\ Unique(list')
    BY <1>4, <2>1, <2>4
  <2> QED BY <1>2, <1>4, <2>1, <2>2, <2>3, <2>5, SavedIdle
<1>20. ASSUME PowerLoss PROVE SavedParts'
  <2>1. /\ list' = <<>> /\ pc' = "closed" /\ card' \in {card, <<>>}
        /\ out' = out /\ log' = log /\ applied' = {}
    BY <1>20 DEF PowerLoss, outbox, server
  <2>2. OutPlain'
    BY <1>4, <2>1 DEF OutPlain
  <2>3. Local(card') /\ Local(list') /\ Unique(card') /\ Unique(list')
    BY <1>4, <1>5, <2>1
  <2> QED BY <1>2, <2>1, <2>2, <2>3, SavedIdle
<1>21. CASE UNCHANGED vars
  BY <1>2, <1>21, SavedStutters DEF vars, outbox, server, loop
<1> QED
  BY <1>6, <1>7, <1>8, <1>9, <1>10, <1>11, <1>12, <1>13, <1>14, <1>15, <1>16, <1>17, <1>18,
     <1>19, <1>20, <1>21, BookmarkAssumption DEF Next

(* At the start nothing is stored, queued or applied. *)
LEMMA SavedInit == Init => SavedInv
<1> SUFFICES ASSUME Init PROVE SavedInv
  OBVIOUS
<1>1. TypeInv
  BY InitTypes
<1>2. LogPlain /\ OutPlain /\ Queueing /\ Resolvable /\ Written
  BY DEF Init, LogPlain, OutPlain, Queueing, Resolvable, Busy, Written
<1>3. Local(card) /\ Local(list) /\ Unique(card) /\ Unique(list)
  BY DEF Init, Local, Unique, Copy
<1>4. Absorbed
  BY DEF Init, Absorbed, Outcome, Base, Confirmed
<1> QED BY <1>1, <1>2, <1>3, <1>4 DEF SavedInv, SavedParts

(* An annotation leaves the inbox only when applying what is about to be retired
   to the bookmark file once more would change nothing that it shows. *)
THEOREM RetiredSaved == Spec => RetiredIsSaved
<1>1. ASSUME SavedInv, [Next]_vars, ~(inbox \subseteq inbox'), rare \cap {"unreadable", "twin"} = {},
             NEW m \in Marks
      PROVE  Shown(Replay(card, applied).list, m) = Shown(card, m)
  <2>1. TypeOK /\ SavedParts
    BY <1>1 DEF SavedInv, TypeInv, Usual
  <2>2. ResolveInbox
    BY <1>1 DEF Next, vars, mail, Remote, ServerTakes, ServerRefuses, MarkAttempted,
                RetireAcknowledged, DeferPulled, Pair, Load, LoadOnly, EnqueueUpsert, Save, Close, AddBookmark, DeleteBookmarks, EnqueueDelete,
                PowerLoss
  <2>3. pc = "resolving" /\ list = card
    BY <2>1, <2>2 DEF ResolveInbox, SavedParts, Written
  <2>4. /\ card \in Seq(Bookmarks) /\ log \in Seq(Annotations) /\ Unique(card)
        /\ \A q \in applied : \A b \in Copy(card, log[q].mark) : b.stage # "new"
    BY <2>1, <2>3 DEF TypeOK, SavedParts, Resolvable
  <2>5. Applicable(applied)
    <3>1. applied \subseteq 1 .. Len(log) /\ DOMAIN log = 1 .. Len(log)
      BY <2>1 DEF TypeOK
    <3>2. applied \subseteq DOMAIN log
      BY <3>1, <2>4
    <3> QED BY <2>1, <3>2 DEF Applicable, SavedParts, LogPlain, Resolvable
  <2>6. Told(applied, m, Copy(card, m), Copy(Replay(card, applied).list, m))
    BY <2>4, <2>5, ReplayTold
  <2>7. Outcome(applied, m, Says(Copy(card, m))) = Says(Copy(card, m))
    BY <2>1, <2>3 DEF SavedParts, Absorbed
  <2> QED BY <2>6, <2>7, ShownIs DEF Told
<1>2. SavedInv /\ [Next]_vars =>
        [~(inbox \subseteq inbox') /\ rare \cap {"unreadable", "twin"} = {} =>
            \A m \in Marks : Shown(Replay(card, applied).list, m) = Shown(card, m)]_vars
  BY <1>1
<1> QED BY SavedInit, SavedStep, <1>2, PTL DEF Spec, RetiredIsSaved

-----------------------------------------------------------------------------
(* The device and the server agree, as long as nothing rare happens. *)

(* The events the server has still to take. *)
Open(m) == {e \in {out[k] : k \in DOMAIN out} : e.mark = m /\ e.id \notin taken}

(* What is not yet applied to the file, and to the list.  What was pulled and
   retired before the cursor reached it belongs here again only once nothing is
   left of that page: until then all that is left of it comes after. *)
Remaining == inbox \cup {i \in cursor + 1 .. Len(log) : \A j \in inbox : j < i}

Rest == Remaining \ applied

News(S, m) == {i \in S : About(m, i)}

Deciders(S, m) == {i \in S : Decides(m, i)}

(* In what follows C are the bookmarks of a mark, O its open events, r its
   revision at the server and v what the server shows. *)
Undone(O, r) == \E e \in O : e.kind = "deleted" /\ e.base = r

(* A bookmark overwrites something else only after a deletion of it. *)
Waits(C, O, r, v) ==
    \A b \in C : b.stage # "queued" /\ b.base = r => v \subseteq {Plain} \/ Undone(O, r)

Careful(O, r, v) ==
    \A e \in O : e.kind = "upserted" /\ e.base = r =>
        \/ v \subseteq {Plain}
        \/ \E d \in O : d.id < e.id /\ d.kind = "deleted" /\ d.base = r

(* Why C and v may differ when the last change is known here: it will be
   deleted; or a conflict was flagged, or is about to be; or it will be added. *)
Stands(C, O, r, v, news) ==
    \/ Undone(O, r)
    \/ Says(C) = v
    \/ C # {} /\ (news # {} \/ \E b \in C : b.conflict)
    \/ v = {} /\ (O # {} \/ \E b \in C : b.stage # "queued")

Based(C, O, r, v) == v # {} => Undone(O, r) \/ \A b \in C : b.base = r

(* S is what is not yet applied to C. *)
Fits(C, O, r, v, S, news, deciders) ==
    /\ deciders = {} => Says(C) \subseteq {Plain} \cup v
    /\ r \notin S => Stands(C, O, r, v, news) /\ Based(C, O, r, v)
    /\ Waits(C, O, r, v)

Kept(L, S) ==
    \A m \in Marks : Fits(Copy(L, m), Open(m), Revision(m), Served(m), S, News(S, m), Deciders(S, m))

(* The server's log: a change is its own revision, a conflict names the last
   change before it, and an upsert of this device overwrites nothing else. *)
Revised(i) ==
    /\ log[i].kind # "strange"
    /\ log[i].kind \in {"upserted", "deleted"} => log[i].rev = i
    /\ log[i].kind = "conflict" =>
          /\ log[i].rev < i
          /\ \A j \in DOMAIN log : j < i /\ Changes(log[i].mark, j) => j <= log[i].rev
          /\ log[i].rev # 0 => Changes(log[i].mark, log[i].rev)

Overwrites(i) ==
    \A d \in DOMAIN log :
        /\ d < i /\ Decides(log[i].mark, d)
        /\ log[d].kind = "upserted" /\ log[d].content # Plain
        => \E e \in DOMAIN log : d < e /\ e < i /\ Decides(log[i].mark, e)

LogInv ==
    \A i \in DOMAIN log : Revised(i) /\ (Confirms(log[i].mark, i) => Overwrites(i))

(* The outbox: in the order of the ids, and the server has seen only what was
   attempted. *)
OutInv ==
    /\ \A i, j \in DOMAIN out : i < j => out[i].id < out[j].id
    /\ \A i \in DOMAIN out :
          /\ out[i].id < nextId
          /\ i > sent => out[i].id \notin taken
          /\ out[i].base <= Len(log)
    /\ \A i \in taken : i < nextId

(* A bookmark and its event. *)
Book(b) ==
    /\ b.stage # "queued" => b.event = 0
    /\ b.stage = "new" => b.base = 0
    /\ b.base <= Len(log)
    /\ b.event < nextId
    /\ \A k \in DOMAIN out : out[k].id = b.event => out[k].mark = b.mark /\ out[k].base = b.base

Books(L) == \A k \in DOMAIN L : Book(L[k])

(* Everything after something not yet applied is not yet applied. *)
Upper(S) == \A i \in S : \A j \in DOMAIN log : i < j => j \in S

MailInv ==
    /\ Upper(Remaining) /\ Upper(Rest)
    /\ applied \subseteq inbox
    /\ pc = "resolving" => applied # {}
    /\ ~paired => cursor = 0 /\ inbox = {}
    /\ pc = "deleting" => \E k \in todo : todo = {k} /\ doomed = {k}

Cares == \A m \in Marks : Careful(Open(m), Revision(m), Served(m))

SettledParts ==
    /\ LogInv /\ OutInv /\ Books(card) /\ Books(list) /\ MailInv
    /\ Cares
    /\ Kept(card, Remaining)
    /\ pc # "closed" => Kept(list, Rest)

SettledInv == SavedInv /\ (rare = {} => SettledParts)
(* Every event of O is one of O2, or was replaced by one of its place. *)
More(O, O2) ==
    \A d \in O : \E e \in O2 :
        e.id = d.id /\ e.base = d.base /\ (d.kind = "deleted" => e.kind = "deleted")

(* More open events, or more that is not yet applied, fit as well. *)
LEMMA FitsMore ==
  ASSUME NEW C, NEW O, NEW O2, NEW r, NEW v, NEW S, NEW news, NEW deciders,
         More(O, O2), Fits(C, O, r, v, S, news, deciders)
  PROVE  Fits(C, O2, r, v, S, news, deciders)
<1>1. Undone(O, r) => Undone(O2, r)
  BY DEF More, Undone
<1>2. O # {} => O2 # {}
  BY DEF More
<1>3. Stands(C, O, r, v, news) => Stands(C, O2, r, v, news)
  BY <1>1, <1>2 DEF Stands
<1>4. Based(C, O, r, v) => Based(C, O2, r, v)
  BY <1>1 DEF Based
<1>5. Waits(C, O, r, v) => Waits(C, O2, r, v)
  BY <1>1 DEF Waits
<1> QED BY <1>3, <1>4, <1>5 DEF Fits

(* More that is not yet applied fits as well. *)
LEMMA FitsWider ==
  ASSUME NEW C, NEW O, NEW r, NEW v, NEW S, NEW news, NEW deciders,
         NEW S2, NEW news2, NEW deciders2,
         S \subseteq S2, news \subseteq news2, deciders \subseteq deciders2,
         Fits(C, O, r, v, S, news, deciders)
  PROVE  Fits(C, O, r, v, S2, news2, deciders2)
<1>1. Stands(C, O, r, v, news) => Stands(C, O, r, v, news2)
  BY DEF Stands
<1> QED BY <1>1 DEF Fits

(* So does a whole list. *)
LEMMA KeptWider ==
  ASSUME NEW L, NEW S, NEW S2, S \subseteq S2, Kept(L, S)
  PROVE  Kept(L, S2)
<1> SUFFICES ASSUME NEW m \in Marks
             PROVE  Fits(Copy(L, m), Open(m), Revision(m), Served(m), S2, News(S2, m), Deciders(S2, m))
  BY DEF Kept
<1>1. Fits(Copy(L, m), Open(m), Revision(m), Served(m), S, News(S, m), Deciders(S, m))
  BY DEF Kept
<1>2. News(S, m) \subseteq News(S2, m) /\ Deciders(S, m) \subseteq Deciders(S2, m)
  BY DEF News, Deciders
<1> QED BY <1>1, <1>2, FitsWider

(* Sync ids are no part of it. *)
LEMMA FitsNamed ==
  ASSUME NEW C \in SUBSET Bookmarks, NEW O, NEW r, NEW v, NEW S, NEW news, NEW deciders,
         Fits(C, O, r, v, S, news, deciders)
  PROVE  Fits({Named(b) : b \in C}, O, r, v, S, news, deciders)
<1> DEFINE N == {Named(b) : b \in C}
<1>1. \A b \in C : /\ Named(b).content = b.content /\ Named(b).conflict = b.conflict
                   /\ Named(b).base = b.base /\ (Named(b).stage = "queued" <=> b.stage = "queued")
  BY DEF Named, Bookmarks
<1>2. Says(N) = Says(C)
  BY <1>1 DEF Says
<1>3. (\A x \in N : \E b \in C : x = Named(b)) /\ (\A b \in C : Named(b) \in N)
  OBVIOUS
<1> HIDE DEF N
<1>4. Stands(C, O, r, v, news) => Stands(N, O, r, v, news)
  <2>1. (\E b \in C : b.conflict) => \E b \in N : b.conflict
    BY <1>1, <1>3
  <2>2. (\E b \in C : b.stage # "queued") => \E b \in N : b.stage # "queued"
    BY <1>1, <1>3
  <2>3. C # {} => N # {}
    BY <1>3
  <2> QED BY <1>2, <2>1, <2>2, <2>3 DEF Stands
<1>5. Based(C, O, r, v) => Based(N, O, r, v)
  BY <1>1, <1>3 DEF Based
<1>6. Waits(C, O, r, v) => Waits(N, O, r, v)
  BY <1>1, <1>3 DEF Waits
<1> QED BY <1>2, <1>4, <1>5, <1>6 DEF Fits, N

(* Annotations after the last change of m say nothing of what m shows. *)
LEMMA NoChange ==
  ASSUME TypeOK, NEW S \in SUBSET (DOMAIN log), Upper(S), NEW m, Revision(m) \notin S
  PROVE  /\ \A i \in S : ~Changes(m, i)
         /\ \A i \in S : Revision(m) < i
         /\ Deciders(S, m) = {}
         /\ \A shown : Outcome(S, m, shown) = shown
<1>1. /\ log \in Seq(Annotations) /\ DOMAIN log = 1 .. Len(log) /\ Len(log) \in Nat
  BY DEF TypeOK
<1>2. /\ Revision(m) \in 0 .. Len(log)
      /\ \A i \in DOMAIN log : Changes(m, i) => i <= Revision(m)
  BY <1>1, RevisionIs
<1>3. ASSUME NEW i \in S PROVE Revision(m) < i
  <2>1. i # Revision(m) /\ i \in 1 .. Len(log)
    BY <1>1
  <2>2. ~(i < Revision(m))
    <3>1. ASSUME i < Revision(m) PROVE FALSE
      <4>1. Revision(m) \in DOMAIN log
        BY <1>1, <1>2, <2>1, <3>1
      <4> QED BY <3>1, <4>1 DEF Upper
    <3> QED BY <3>1
  <2> QED BY <1>1, <1>2, <2>1, <2>2
<1>4. ASSUME NEW i \in S PROVE ~Changes(m, i)
  <2>1. Revision(m) < i /\ i \in 1 .. Len(log)
    BY <1>1, <1>3
  <2> QED BY <1>1, <1>2, <2>1
<1>5. \A i \in S : ~Decides(m, i) /\ ~Confirms(m, i)
  BY <1>4 DEF Changes, Decides, Confirms
<1>6. Deciders(S, m) = {}
  BY <1>5 DEF Deciders
<1>7. \A shown : Outcome(S, m, shown) = shown
  BY <1>5 DEF Outcome, Base, Confirmed
<1> QED BY <1>3, <1>4, <1>6, <1>7

(* When the last annotation that decides what m shows is an upsert, the server
   shows its content, or it is what a local bookmark says. *)
LEMMA LastDecider ==
  ASSUME TypeOK, LogInv, NEW S \in SUBSET (DOMAIN log), Upper(S), NEW m,
         NEW d \in Decided(S, m), log[d].kind = "upserted"
  PROVE  log[d].content = Plain \/ Served(m) = {log[d].content}
<1>1. /\ log \in Seq(Annotations) /\ DOMAIN log = 1 .. Len(log) /\ Len(log) \in Nat
  BY DEF TypeOK
<1> DEFINE r == Revision(m)
<1>2. d \in S /\ d \in DOMAIN log /\ Decides(m, d) /\ \A j \in S : Decides(m, j) => j <= d
  BY DEF Decided
<1>3. Changes(m, d)
  BY <1>2 DEF Changes, Decides
<1>4. d <= r /\ r \in DOMAIN log /\ r # 0 /\ Changes(m, r) /\ r \in 0 .. Len(log)
  <2>1. d <= r /\ r \in 0 .. Len(log)
    BY <1>1, <1>2, <1>3, RevisionIs
  <2>2. r # 0
    BY <1>1, <1>2, <2>1
  <2> QED BY <1>1, <2>1, <2>2, RevisionIs
<1> HIDE DEF r
<1>5. CASE r = d
  BY <1>2, <1>4, <1>5 DEF Served, r
<1>6. CASE r # d
  <2>1. d < r
    BY <1>1, <1>2, <1>4, <1>6
  <2>2. r \in S
    BY <1>2, <1>4, <2>1 DEF Upper
  <2>3. ~Decides(m, r)
    BY <1>1, <1>2, <1>4, <2>1, <2>2
  <2>4. Confirms(m, r) /\ log[r].mark = m
    BY <1>4, <2>3 DEF Decides, Confirms, Changes, About
  <2>5. Overwrites(r)
    BY <1>4, <2>4 DEF LogInv
  <2>6. log[d].content # Plain => \E e \in DOMAIN log : d < e /\ e < r /\ Decides(m, e)
    BY <1>2, <2>1, <2>4, <2>5 DEF Overwrites
  <2>7. ASSUME NEW e \in DOMAIN log, d < e, Decides(m, e) PROVE FALSE
    <3>1. e \in S
      BY <1>2, <2>7 DEF Upper
    <3>2. e <= d
      BY <1>2, <2>7, <3>1
    <3> QED BY <1>1, <1>2, <2>7, <3>2
  <2> QED BY <2>6, <2>7
<1> QED BY <1>5, <1>6

(* Among annotations that decide there is a last one. *)
LEMMA DecidedIs ==
  ASSUME TypeOK, NEW S \in SUBSET (DOMAIN log), NEW m, \E i \in S : Decides(m, i)
  PROVE  \E d \in S : Decided(S, m) = {d} /\ Decides(m, d) /\ \A j \in S : Decides(m, j) => j <= d
<1> DEFINE D == {i \in S : Decides(m, i)}
<1>1. log \in Seq(Annotations) /\ DOMAIN log = 1 .. Len(log) /\ Len(log) \in Nat
  BY DEF TypeOK
<1>2. D \in SUBSET (0 .. Len(log)) /\ D # {}
  BY <1>1
<1>3. Max(D) \in D /\ \A n \in D : n <= Max(D)
  <2> HIDE DEF D
  <2> QED BY <1>1, <1>2, MaxIs
<1> DEFINE d == Max(D)
<1> HIDE DEF d
<1>4. d \in S /\ Decides(m, d) /\ \A j \in S : Decides(m, j) => j <= d
  BY <1>3 DEF d
<1>5. Decided(S, m) = {d}
  <2>1. d \in Decided(S, m)
    BY <1>4 DEF Decided
  <2>2. ASSUME NEW i \in Decided(S, m) PROVE i = d
    <3>1. d <= i /\ i <= d
      BY <1>4 DEF Decided
    <3>2. i \in S
      BY DEF Decided
    <3> QED BY <1>1, <1>4, <3>1, <3>2
  <2> QED BY <2>1, <2>2
<1> QED BY <1>4, <1>5

(* Among annotations of m there is a last one. *)
LEMMA LatestIs ==
  ASSUME TypeOK, NEW S \in SUBSET (DOMAIN log), NEW m, \E i \in S : About(m, i)
  PROVE  \E q \in S : q \in Latest(S, m) /\ About(m, q) /\ \A j \in S : About(m, j) => j <= q
<1> DEFINE D == {i \in S : About(m, i)}
<1>1. log \in Seq(Annotations) /\ DOMAIN log = 1 .. Len(log) /\ Len(log) \in Nat
  BY DEF TypeOK
<1>2. D \in SUBSET (0 .. Len(log)) /\ D # {}
  BY <1>1
<1>3. Max(D) \in D /\ \A n \in D : n <= Max(D)
  <2> HIDE DEF D
  <2> QED BY <1>1, <1>2, MaxIs
<1> DEFINE q == Max(D)
<1> HIDE DEF q
<1>4. q \in S /\ About(m, q) /\ \A j \in S : About(m, j) => j <= q
  BY <1>3 DEF q
<1>5. q \in Latest(S, m)
  BY <1>4 DEF Latest
<1> QED BY <1>4, <1>5

(* Where the last change of m is among those applied, m shows after them what the
   server shows. *)
LEMMA LastChange ==
  ASSUME TypeOK, LogInv, LogPlain, NEW S \in SUBSET (DOMAIN log), Upper(S),
         NEW m, Revision(m) \in S,
         NEW shown, Deciders(S, m) = {} => shown \subseteq {Plain} \cup Served(m)
  PROVE  Outcome(S, m, shown) = Served(m)
<1> DEFINE r == Revision(m)
<1>1. /\ log \in Seq(Annotations) /\ DOMAIN log = 1 .. Len(log) /\ Len(log) \in Nat
  BY DEF TypeOK
<1>2. r \in DOMAIN log /\ r # 0 /\ r \in S
  BY <1>1
<1>3. Changes(m, r) /\ \A i \in DOMAIN log : Changes(m, i) => i <= r
  BY <1>1, <1>2, RevisionIs
<1>4. Served(m) = IF log[r].kind = "upserted" THEN {log[r].content} ELSE {}
  BY <1>2 DEF Served
<1> HIDE DEF r
<1>5. \A i \in S : (Decides(m, i) \/ Confirms(m, i)) => i <= r
  BY <1>3 DEF Changes, Decides, Confirms
<1>6. CASE Decides(m, r)
  <2>1. PICK d \in S : Decided(S, m) = {d} /\ Decides(m, d) /\ \A j \in S : Decides(m, j) => j <= d
    BY <1>2, <1>6, DecidedIs
  <2>2. d = r
    <3>1. r <= d /\ d <= r
      BY <1>2, <1>5, <1>6, <2>1
    <3> QED BY <1>1, <1>2, <2>1, <3>1
  <2>3. ~Confirmed(S, m)
    <3>1. ASSUME NEW i \in S, Confirms(m, i), r < i PROVE FALSE
      <4>1. i <= r
        BY <1>5, <3>1
      <4> QED BY <1>1, <1>2, <3>1, <4>1
    <3> QED BY <1>2, <1>6, <3>1 DEF Confirmed
  <2>4. Base(S, m, shown) = Served(m)
    <3>1. {j \in {r} : log[j].kind = "upserted"} = IF log[r].kind = "upserted" THEN {r} ELSE {}
      OBVIOUS
    <3> QED BY <1>2, <1>4, <1>6, <2>1, <2>2, <3>1 DEF Base
  <2> QED BY <2>3, <2>4 DEF Outcome
<1>7. CASE ~Decides(m, r)
  <2>1. Confirms(m, r)
    BY <1>3, <1>7 DEF Changes, Decides, Confirms
  <2>2. Served(m) = {Plain}
    BY <1>2, <1>4, <2>1 DEF Confirms, LogPlain
  <2>3. Confirmed(S, m)
    <3>1. ASSUME NEW j \in S, Decides(m, j) PROVE j < r
      <4>1. j <= r /\ j # r
        BY <1>5, <1>7, <3>1
      <4> QED BY <1>1, <1>2, <4>1
    <3> QED BY <1>2, <2>1, <3>1 DEF Confirmed
  <2>4. Base(S, m, shown) \subseteq {Plain}
    <3>1. CASE \E i \in S : Decides(m, i)
      <4>1. PICK d \in S : Decided(S, m) = {d}
        BY <3>1, DecidedIs
      <4>2. log[d].kind = "upserted" => log[d].content = Plain \/ Served(m) = {log[d].content}
        BY <4>1, LastDecider
      <4>3. log[d].kind = "upserted" => log[d].content = Plain
        BY <2>2, <4>2
      <4>4. Base(S, m, shown) = {log[i].content : i \in {j \in {d} : log[j].kind = "upserted"}}
        BY <3>1, <4>1 DEF Base
      <4> QED BY <4>3, <4>4
    <3>2. CASE \A i \in S : ~Decides(m, i)
      <4>1. Deciders(S, m) = {}
        BY <3>2 DEF Deciders
      <4> QED BY <2>2, <3>2, <4>1 DEF Base
    <3> QED BY <3>1, <3>2
  <2> QED BY <2>2, <2>3, <2>4 DEF Outcome
<1> QED BY <1>6, <1>7

(* What comes after the last change, and that change, have it for revision. *)
LEMMA RevisedLast ==
  ASSUME TypeOK, LogInv, NEW m, NEW q \in DOMAIN log, About(m, q), Revision(m) <= q
  PROVE  log[q].rev = Revision(m) /\ (q = Revision(m) \/ log[q].kind = "conflict")
<1> DEFINE r == Revision(m)
           item == log[q]
<1>1. /\ log \in Seq(Annotations) /\ DOMAIN log = 1 .. Len(log) /\ Len(log) \in Nat
      /\ r \in 0 .. Len(log)
      /\ r # 0 => r \in DOMAIN log /\ Changes(m, r)
      /\ \A i \in DOMAIN log : Changes(m, i) => i <= r
  <2>1. log \in Seq(Annotations)
    BY DEF TypeOK
  <2> QED BY <2>1, RevisionIs
<1>2. item.kind \in {"upserted", "deleted", "conflict"} /\ item.mark = m /\ item.rev \in Nat
  <2>1. item \in Annotations /\ item.kind # "strange"
    BY <1>1 DEF LogInv, Revised
  <2>2. item.mark = m
    BY DEF About
  <2> HIDE DEF item
  <2> QED BY <2>1, <2>2, BookmarkAssumption DEF Annotations
<1>3. Revised(q)
  BY DEF LogInv
<1>4. CASE item.kind \in {"upserted", "deleted"}
  <2>1. Changes(m, q)
    BY <1>4 DEF Changes
  <2>2. q <= r
    BY <1>1, <2>1
  <2>3. q = r
    BY <1>1, <2>2
  <2> QED BY <1>3, <1>4, <2>3 DEF Revised
<1>5. CASE item.kind = "conflict"
  <2>1. /\ item.rev < q
        /\ \A j \in DOMAIN log : j < q /\ Changes(m, j) => j <= item.rev
        /\ item.rev # 0 => Changes(m, item.rev)
    BY <1>2, <1>3, <1>5 DEF Revised
  <2>2. item.rev # 0 => item.rev <= r
    <3>1. item.rev # 0 => item.rev \in DOMAIN log
      BY <1>1, <1>2, <2>1
    <3> QED BY <1>1, <2>1, <3>1
  <2>3. r # 0 => r <= item.rev
    <3>1. ASSUME r # 0 PROVE r # q
      BY <1>1, <1>5, <3>1 DEF Changes
    <3>2. r # 0 => r < q
      BY <1>1, <3>1
    <3> QED BY <1>1, <2>1, <3>2
  <2>4. item.rev = r
    <3> HIDE DEF item, r
    <3> QED BY <1>1, <1>2, <2>2, <2>3
  <2> QED BY <1>5, <2>4
<1> QED BY <1>2, <1>4, <1>5

(* Applying the first annotations of what is not yet applied leaves a mark as
   well off with the rest as it was with all of them. *)
LEMMA ApplyFits ==
  ASSUME TypeOK, LogInv, LogPlain, NEW S \in SUBSET (DOMAIN log), NEW A \in SUBSET S,
         Upper(S), Upper(S \ A), NEW m, NEW B, NEW C, NEW O,
         Told(A, m, B, C),
         Fits(B, O, Revision(m), Served(m), S, News(S, m), Deciders(S, m))
  PROVE  Fits(C, O, Revision(m), Served(m), S \ A, News(S \ A, m), Deciders(S \ A, m))
<1> DEFINE T == S \ A
           r == Revision(m)
           v == Served(m)
<1>1. /\ log \in Seq(Annotations) /\ DOMAIN log = 1 .. Len(log) /\ Len(log) \in Nat
      /\ r \in 0 .. Len(log)
      /\ r # 0 => r \in DOMAIN log /\ Changes(m, r)
      /\ \A i \in DOMAIN log : Changes(m, i) => i <= r
  <2>1. log \in Seq(Annotations)
    BY DEF TypeOK
  <2> QED BY <2>1, RevisionIs
<1>2. /\ A \in SUBSET (DOMAIN log) /\ T \in SUBSET (DOMAIN log) /\ S = A \cup T
      /\ S \in SUBSET Nat /\ A \in SUBSET Nat /\ T \in SUBSET Nat
  BY <1>1
<1>3. ASSUME NEW i \in A, NEW j \in T PROVE i < j
  <2>1. i \in Nat /\ j \in Nat /\ i # j /\ i \in DOMAIN log /\ i \notin T
    BY <1>2
  <2>2. ~(j < i)
    BY <2>1 DEF Upper
  <2> QED BY <2>1, <2>2
<1>4. Upper(T)
  OBVIOUS
<1>5. /\ Says(C) = Outcome(A, m, Says(B))
      /\ (\A i \in A : ~About(m, i)) => C = B
      /\ \A b \in C, i \in Latest(A, m) :
            b.event = 0 /\ b.base = log[i].rev /\ b.conflict = (log[i].kind = "conflict")
      /\ \A b \in C : b.stage # "queued" =>
            /\ \A i \in A : ~Decides(m, i)
            /\ \E a \in B : a.stage = b.stage
      /\ (\A i \in A : ~Decides(m, i)) => \A a \in B : \E b \in C : b.stage = a.stage
  BY DEF Told
<1>6. /\ Deciders(S, m) = {} => Says(B) \subseteq {Plain} \cup v
      /\ r \notin S => Stands(B, O, r, v, News(S, m)) /\ Based(B, O, r, v)
      /\ Waits(B, O, r, v)
  BY DEF Fits
<1> HIDE DEF T, r, v
<1>7. ASSUME Deciders(T, m) = {} PROVE Says(C) \subseteq {Plain} \cup v
  <2>1. CASE \E i \in A : Decides(m, i)
    <3>1. PICK d \in A : Decided(A, m) = {d} /\ Decides(m, d) /\ \A j \in A : Decides(m, j) => j <= d
      BY <1>2, <2>1, DecidedIs
    <3>2. d \in Decided(S, m)
      <4>1. \A j \in S : Decides(m, j) => j \in A
        BY <1>2, <1>7 DEF Deciders
      <4> QED BY <1>2, <3>1, <4>1 DEF Decided
    <3>3. log[d].kind = "upserted" => log[d].content = Plain \/ v = {log[d].content}
      BY <3>2, LastDecider DEF v
    <3>4. Base(A, m, Says(B)) = {log[i].content : i \in {j \in {d} : log[j].kind = "upserted"}}
      BY <2>1, <3>1 DEF Base
    <3>5. Base(A, m, Says(B)) \subseteq {Plain} \cup v
      BY <3>3, <3>4
    <3> QED BY <1>5, <3>5 DEF Outcome
  <2>2. CASE \A i \in A : ~Decides(m, i)
    <3>1. Deciders(S, m) = {}
      BY <1>2, <1>7, <2>2 DEF Deciders
    <3> QED BY <1>5, <1>6, <2>2, <3>1 DEF Outcome, Base
  <2> QED BY <2>1, <2>2
<1>8. ASSUME r \in A PROVE Says(C) = v
  <2>1. Outcome(S, m, Says(B)) = v
    BY <1>2, <1>6, <1>8, LastChange DEF r, v
  <2>2. r \notin T
    BY <1>2, <1>8 DEF T
  <2>3. Outcome(T, m, Outcome(A, m, Says(B))) = Outcome(A, m, Says(B))
    BY <1>2, <1>4, <2>2, NoChange DEF r, T
  <2>4. Outcome(S, m, Says(B)) = Outcome(T, m, Outcome(A, m, Says(B)))
    BY <1>2, <1>3, OutcomeJoins
  <2> QED BY <1>5, <2>1, <2>3, <2>4
<1>9. ASSUME NEW q \in Latest(A, m), r <= q
      PROVE  /\ \A b \in C : b.base = r
             /\ q # r => \A b \in C : b.conflict
  <2>1. q \in A /\ About(m, q)
    BY DEF Latest
  <2>2. log[q].rev = r /\ (q = r \/ log[q].kind = "conflict")
    BY <1>2, <1>9, <2>1, RevisedLast DEF r
  <2> QED BY <1>5, <2>2
<1>10. ASSUME r \notin T PROVE Stands(C, O, r, v, News(T, m)) /\ Based(C, O, r, v)
  <2>1. CASE r \in A
    <3>1. r # 0 /\ Changes(m, r) /\ About(m, r)
      BY <1>1, <1>2, <2>1 DEF Changes
    <3>2. PICK q \in A : q \in Latest(A, m) /\ About(m, q) /\ \A j \in A : About(m, j) => j <= q
      BY <1>2, <2>1, <3>1, LatestIs
    <3>3. r <= q
      BY <2>1, <3>1, <3>2
    <3>4. \A b \in C : b.base = r
      BY <1>9, <3>2, <3>3
    <3> QED BY <1>8, <2>1, <3>4 DEF Stands, Based
  <2>2. CASE r \notin A
    <3>1. r \notin S
      BY <1>2, <1>10, <2>2
    <3>2. (\A i \in S : ~Changes(m, i)) /\ \A i \in S : r < i
      BY <3>1, NoChange DEF r
    <3>3. \A i \in A : ~Decides(m, i) /\ ~Confirms(m, i)
      BY <1>2, <3>2 DEF Changes, Decides, Confirms
    <3>4. Says(C) = Says(B)
      BY <1>5, <3>3 DEF Outcome, Base, Confirmed
    <3>5. Stands(B, O, r, v, News(S, m)) /\ Based(B, O, r, v)
      BY <1>6, <3>1
    <3>6. CASE \E i \in A : About(m, i)
      <4>1. PICK q \in A : q \in Latest(A, m)
        BY <1>2, <3>6, LatestIs
      <4>2. r < q /\ q \in S
        BY <1>2, <3>2
      <4>3. r <= q /\ q # r
        BY <1>1, <1>2, <4>2
      <4>4. \A b \in C : b.base = r /\ b.conflict
        BY <1>9, <4>1, <4>3
      <4>5. B # {} => C # {}
        BY <3>4 DEF Says
      <4>6. \A a \in B : \E b \in C : b.stage = a.stage
        BY <1>5, <3>3
      <4>7. Stands(C, O, r, v, News(T, m))
        <5>1. B # {} => C # {} /\ \E b \in C : b.conflict
          BY <4>4, <4>5
        <5>2. (\E a \in B : a.stage # "queued") => \E b \in C : b.stage # "queued"
          BY <4>6
        <5> QED BY <3>4, <3>5, <5>1, <5>2 DEF Stands
      <4> QED BY <4>4, <4>7 DEF Based
    <3>7. CASE \A i \in A : ~About(m, i)
      <4>1. C = B
        BY <1>5, <3>7
      <4>2. News(T, m) = News(S, m)
        BY <1>2, <3>7 DEF News
      <4> QED BY <3>5, <4>1, <4>2
    <3> QED BY <3>6, <3>7
  <2> QED BY <2>1, <2>2
<1>11. Waits(C, O, r, v)
  <2> SUFFICES ASSUME NEW b \in C, b.stage # "queued", b.base = r
               PROVE  v \subseteq {Plain} \/ Undone(O, r)
    BY DEF Waits
  <2>1. PICK a \in B : a.stage = b.stage
    BY <1>5
  <2>2. \A i \in A : ~Decides(m, i)
    BY <1>5
  <2>3. CASE \A i \in A : ~About(m, i)
    BY <1>5, <1>6, <2>3 DEF Waits
  <2>4. CASE \E i \in A : About(m, i)
    <3>1. PICK q \in A : q \in Latest(A, m) /\ About(m, q) /\ \A j \in A : About(m, j) => j <= q
      BY <1>2, <2>4, LatestIs
    <3>2. log[q].rev = r
      BY <1>5, <3>1
    <3>3. CASE r \in A
      <4>1. r # 0 /\ r \in DOMAIN log /\ Changes(m, r)
        BY <1>1, <1>2, <3>3
      <4>2. Confirms(m, r)
        BY <2>2, <3>3, <4>1 DEF Changes, Decides, Confirms
      <4>3. v = {Plain}
        BY <4>1, <4>2 DEF Confirms, LogPlain, Served, r, v
      <4> QED BY <4>3
    <3>4. CASE r \in T
      <4>1. q < r
        BY <1>3, <3>4
      <4>2. Revised(q) /\ log[q] \in Annotations
        BY <1>1, <1>2 DEF LogInv
      <4>3. log[q].kind \in {"upserted", "deleted", "conflict"}
        BY <4>2 DEF Revised, Annotations
      <4>4. log[q].rev = q \/ log[q].rev < q
        BY <4>2, <4>3 DEF Revised
      <4> QED BY <1>1, <1>2, <3>2, <4>1, <4>4
    <3>5. CASE r \notin S
      <4>1. v = {} \/ Undone(O, r) \/ a.base = r
        BY <1>6, <3>5 DEF Based
      <4>2. a.base = r => v \subseteq {Plain} \/ Undone(O, r)
        BY <1>6, <2>1 DEF Waits
      <4> QED BY <4>1, <4>2
    <3> QED BY <1>2, <3>3, <3>4, <3>5
  <2> QED BY <2>3, <2>4
<1>12. Fits(C, O, r, v, T, News(T, m), Deciders(T, m))
  BY <1>7, <1>10, <1>11 DEF Fits
<1> QED BY <1>12 DEF T, r, v

(* An opening applies the first of what is not yet applied. *)
LEMMA ToApplyIs ==
  ASSUME TypeOK, LogInv, Upper(Remaining)
  PROVE  /\ ToApply(inbox) \subseteq inbox
         /\ Remaining \in SUBSET (DOMAIN log)
         /\ Upper(Remaining \ ToApply(inbox))
<1> DEFINE A == ToApply(inbox)
           Below(n) == {p \in inbox : p < n}
<1>1. /\ DOMAIN log = 1 .. Len(log) /\ Len(log) \in Nat
      /\ cursor \in 0 .. Len(log) /\ inbox \subseteq 1 .. Len(log) /\ MaxApply \in Nat
  BY BookmarkAssumption DEF TypeOK
<1>2. inbox \subseteq DOMAIN log /\ Remaining \in SUBSET (DOMAIN log)
  <2>1. inbox \subseteq 1 .. Len(log)
    BY <1>1
  <2>2. cursor + 1 .. Len(log) \subseteq 1 .. Len(log)
    BY <1>1
  <2> QED BY <1>1, <2>1, <2>2 DEF Remaining
<1>3. \A p \in inbox : log[p].kind # "strange"
  BY <1>2 DEF LogInv, Revised
<1>4. {q \in inbox : \A p \in inbox : p <= q => log[p].kind # "strange"} = inbox
  BY <1>3
<1>5. A = {q \in inbox : Cardinality(Below(q)) < MaxApply}
  BY <1>4 DEF ToApply
<1> HIDE DEF A
<1>6. ASSUME NEW i \in Remaining \ A, NEW j \in A, i < j PROVE FALSE
  <2>1. i \in inbox /\ j \in inbox
    BY <1>1, <1>5, <1>6 DEF Remaining
  <2>2. IsFiniteSet(1 .. Len(log))
    BY <1>1, FS_Interval
  <2>3. Below(j) \subseteq 1 .. Len(log) /\ Below(i) \subseteq Below(j)
    <3>1. i \in Nat /\ j \in Nat /\ \A p \in inbox : p \in Nat
      BY <1>1, <2>1
    <3>2. \A p \in inbox : p < i => p < j
      BY <1>6, <3>1
    <3> QED BY <1>1, <3>2
  <2> HIDE DEF Below
  <2>4. IsFiniteSet(Below(j))
    BY <2>2, <2>3, FS_Subset
  <2>5. IsFiniteSet(Below(i)) /\ Cardinality(Below(i)) <= Cardinality(Below(j))
    BY <2>3, <2>4, FS_Subset
  <2>6. Cardinality(Below(i)) \in Nat /\ Cardinality(Below(j)) \in Nat
    BY <2>4, <2>5, FS_CardinalityType
  <2>7. ~(Cardinality(Below(i)) < MaxApply) /\ Cardinality(Below(j)) < MaxApply
    BY <1>5, <2>1
  <2> QED BY <1>1, <2>5, <2>6, <2>7
<1>7. Upper(Remaining \ A)
  BY <1>6 DEF Upper
<1>8. A \subseteq inbox
  BY <1>5
<1> QED BY <1>2, <1>7, <1>8 DEF A


(* An opening leaves the list fitting what is not applied. *)
LEMMA LoadFits ==
  ASSUME TypeOK, LogInv, LogPlain, Upper(Remaining), Kept(card, Remaining),
         NEW L, \A m : Told(ToApply(inbox), m, Copy(card, m), Copy(L, m))
  PROVE  Kept(L, Remaining \ ToApply(inbox))
<1> DEFINE A == ToApply(inbox)
           S == Remaining
<1>1. A \subseteq inbox /\ S \in SUBSET (DOMAIN log) /\ Upper(S \ A)
  BY ToApplyIs
<1>2. A \in SUBSET S
  BY <1>1 DEF Remaining
<1> HIDE DEF A, S
<1> SUFFICES ASSUME NEW m \in Marks
             PROVE  Fits(Copy(L, m), Open(m), Revision(m), Served(m), S \ A, News(S \ A, m), Deciders(S \ A, m))
  BY DEF Kept, A, S
<1>3. Told(A, m, Copy(card, m), Copy(L, m)) /\ Upper(S)
  BY DEF A, S
<1>4. Fits(Copy(card, m), Open(m), Revision(m), Served(m), S, News(S, m), Deciders(S, m))
  BY DEF Kept, S
<1> QED BY <1>1, <1>2, <1>3, <1>4, ApplyFits

-----------------------------------------------------------------------------
(* The server takes a step. *)

RevisionOf(lg, m) ==
    LET changes == {i \in DOMAIN lg : lg[i].mark = m /\ lg[i].kind \in {"upserted", "deleted"}}
    IN  IF changes = {} THEN 0 ELSE Max(changes)

(* The last change of m in any log. *)
LEMMA RevisionOfIs ==
  ASSUME NEW lg \in Seq(Annotations), NEW m, NEW x \in 0 .. Len(lg),
         x # 0 => lg[x].mark = m /\ lg[x].kind \in {"upserted", "deleted"},
         \A i \in DOMAIN lg : lg[i].mark = m /\ lg[i].kind \in {"upserted", "deleted"} => i <= x
  PROVE  RevisionOf(lg, m) = x
<1> DEFINE changes == {i \in DOMAIN lg : lg[i].mark = m /\ lg[i].kind \in {"upserted", "deleted"}}
<1>1. RevisionOf(lg, m) = IF changes = {} THEN 0 ELSE Max(changes)
  BY DEF RevisionOf
<1>2. Len(lg) \in Nat /\ DOMAIN lg = 1 .. Len(lg) /\ changes \in SUBSET (0 .. Len(lg))
  OBVIOUS
<1>3. x # 0 => x \in changes
  BY <1>2
<1>4. \A i \in changes : i <= x /\ i # 0
  BY <1>2
<1> HIDE DEF changes
<1>5. CASE changes = {}
  BY <1>1, <1>3, <1>5
<1>6. CASE changes # {}
  <2>1. Max(changes) \in changes /\ \A n \in changes : n <= Max(changes)
    BY <1>2, <1>6, MaxIs
  <2>2. x # 0
    <3>1. PICK i \in changes : TRUE
      BY <1>6
    <3>2. i <= x /\ i # 0 /\ i \in Nat
      BY <1>2, <1>4, <3>1
    <3> QED BY <3>2
  <2>3. x <= Max(changes) /\ Max(changes) <= x
    BY <1>3, <1>4, <2>1, <2>2
  <2>4. Max(changes) \in Nat
    BY <1>2, <2>1
  <2>5. Max(changes) = x
    BY <2>3, <2>4
  <2> QED BY <1>1, <1>6, <2>5
<1> QED BY <1>5, <1>6

(* Without a new annotation the server says what it said. *)
LEMMA SameLog ==
  ASSUME log' = log
  PROVE  /\ \A m : Revision(m)' = Revision(m) /\ Served(m)' = Served(m)
         /\ \A m, i : /\ About(m, i)' <=> About(m, i)
                      /\ Decides(m, i)' <=> Decides(m, i)
                      /\ Confirms(m, i)' <=> Confirms(m, i)
                      /\ Changes(m, i)' <=> Changes(m, i)
<1>1. \A m : Revision(m)' = Revision(m)
  BY DEF Revision
<1>2. \A m : Served(m)' = Served(m)
  BY <1>1 DEF Served
<1> QED BY <1>1, <1>2 DEF About, Decides, Confirms, Changes

(* One more annotation, the n-th: nothing else is said of the others; a change of
   its mark is the new revision. *)
Adds(m, kind, content, own, rev, n) ==
    /\ DOMAIN log' = DOMAIN log \cup {n} /\ DOMAIN log = 1 .. n - 1 /\ n \in Nat \ {0}
    /\ Len(log') = n
    /\ log'[n] = Annotation(m, kind, content, own, rev)
    /\ \A i \in DOMAIN log : log'[i] = log[i]
    /\ \A x, i : i \in DOMAIN log =>
          /\ About(x, i)' <=> About(x, i)
          /\ Decides(x, i)' <=> Decides(x, i)
          /\ Confirms(x, i)' <=> Confirms(x, i)
          /\ Changes(x, i)' <=> Changes(x, i)
    /\ \A x : About(x, n)' <=> x = m
    /\ \A x : Changes(x, n)' <=> x = m /\ kind # "conflict"
    /\ \A x : x # m \/ kind = "conflict" => Revision(x)' = Revision(x) /\ Served(x)' = Served(x)
    /\ kind # "conflict" =>
          Revision(m)' = n /\ Served(m)' = IF kind = "upserted" THEN {content} ELSE {}

(* Publish adds the next annotation. *)
LEMMA Published ==
  ASSUME TypeOK, NEW m \in Marks, NEW kind \in {"upserted", "deleted", "conflict"},
         NEW content \in Contents, NEW own \in BOOLEAN,
         NEW rev \in 0 .. Len(log) + 1, Publish(Annotation(m, kind, content, own, rev)),
         NEW n, n = Len(log) + 1
  PROVE  Adds(m, kind, content, own, rev, n)
<1>1. /\ log \in Seq(Annotations) /\ Len(log) \in Nat /\ DOMAIN log = 1 .. Len(log)
  BY DEF TypeOK
<1>2. /\ log' \in Seq(Annotations) /\ Len(log') = n /\ DOMAIN log' = 1 .. n
      /\ log'[n] = Annotation(m, kind, content, own, rev)
      /\ \A i \in DOMAIN log : log'[i] = log[i]
  BY PublishTypes
<1>3. /\ DOMAIN log' = DOMAIN log \cup {n} /\ DOMAIN log = 1 .. n - 1 /\ n \in Nat \ {0}
  BY <1>1, <1>2
<1>4. log'[n].mark = m /\ log'[n].kind = kind /\ log'[n].content = content
  BY <1>2 DEF Annotation
<1>5. ASSUME NEW x, NEW i, i \in DOMAIN log
      PROVE  /\ About(x, i)' <=> About(x, i)
             /\ Decides(x, i)' <=> Decides(x, i)
             /\ Confirms(x, i)' <=> Confirms(x, i)
             /\ Changes(x, i)' <=> Changes(x, i)
  <2>1. log'[i] = log[i]
    BY <1>2, <1>5
  <2> QED BY <2>1 DEF About, Decides, Confirms, Changes
<1>6. \A x : (About(x, n)' <=> x = m) /\ (Changes(x, n)' <=> x = m /\ kind # "conflict")
  BY <1>4 DEF About, Changes
<1>7. \A x : Revision(x)' = RevisionOf(log', x)
  BY DEF Revision, RevisionOf
<1>8. ASSUME NEW x, x # m \/ kind = "conflict"
      PROVE  Revision(x)' = Revision(x) /\ Served(x)' = Served(x)
  <2>1. /\ Revision(x) \in 0 .. Len(log)
        /\ Revision(x) # 0 => Revision(x) \in DOMAIN log /\ Changes(x, Revision(x))
        /\ \A i \in DOMAIN log : Changes(x, i) => i <= Revision(x)
    BY <1>1, RevisionIs
  <2> DEFINE r == Revision(x)
  <2>2. r \in 0 .. Len(log')
    BY <1>1, <1>2, <2>1
  <2>3. r # 0 => log'[r].mark = x /\ log'[r].kind \in {"upserted", "deleted"}
    BY <1>2, <2>1 DEF Changes, About
  <2>4. ASSUME NEW i \in DOMAIN log', log'[i].mark = x, log'[i].kind \in {"upserted", "deleted"}
        PROVE  i <= r
    <3>1. i # n
      BY <1>4, <1>8, <2>4
    <3>2. i \in DOMAIN log /\ log[i] = log'[i]
      BY <1>2, <1>3, <3>1
    <3>3. Changes(x, i)
      BY <2>4, <3>2 DEF Changes, About
    <3> QED BY <2>1, <3>2, <3>3
  <2> HIDE DEF r
  <2>5. RevisionOf(log', x) = r
    BY <1>2, <2>2, <2>3, <2>4, RevisionOfIs
  <2>6. Revision(x)' = Revision(x)
    BY <1>7, <2>5 DEF r
  <2>7. Revision(x) # 0 => log'[Revision(x)] = log[Revision(x)]
    BY <1>2, <2>1
  <2>8. Served(x)' = Served(x)
    BY <2>6, <2>7 DEF Served
  <2> QED BY <2>6, <2>8
<1>9. ASSUME kind # "conflict"
      PROVE  Revision(m)' = n /\ Served(m)' = IF kind = "upserted" THEN {content} ELSE {}
  <2>1. n \in 0 .. Len(log') /\ n # 0
    BY <1>2, <1>3
  <2>2. \A i \in DOMAIN log' : i <= n
    BY <1>2, <1>3
  <2>3. log'[n].mark = m /\ log'[n].kind \in {"upserted", "deleted"}
    BY <1>4, <1>9
  <2>4. RevisionOf(log', m) = n
    BY <1>2, <2>1, <2>2, <2>3, RevisionOfIs
  <2>5. Revision(m)' = n
    BY <1>7, <2>4
  <2> QED BY <1>4, <2>1, <2>5 DEF Served
<1> QED BY <1>2, <1>3, <1>5, <1>6, <1>8, <1>9 DEF Adds

(* The server's log stays well formed: a change is its own revision, a conflict
   names the one it was refused for, and an upsert of this device comes where
   nothing else is shown. *)
LEMMA PublishLog ==
  ASSUME TypeOK, LogInv, NEW m \in Marks, NEW kind \in {"upserted", "deleted", "conflict"},
         NEW content \in Contents, NEW own \in BOOLEAN,
         NEW rev \in 0 .. Len(log) + 1, Publish(Annotation(m, kind, content, own, rev)),
         kind # "conflict" => rev = Len(log) + 1,
         kind = "conflict" => rev = Revision(m),
         kind = "upserted" /\ own => Served(m) \subseteq {Plain}
  PROVE  LogInv'
<1>0. PICK n : n = Len(log) + 1
  OBVIOUS
<1>1. /\ log \in Seq(Annotations) /\ Len(log) \in Nat /\ DOMAIN log = 1 .. Len(log)
  BY DEF TypeOK
<1>2. /\ DOMAIN log' = DOMAIN log \cup {n} /\ DOMAIN log = 1 .. n - 1 /\ n \in Nat \ {0}
      /\ Len(log') = n
      /\ log'[n] = Annotation(m, kind, content, own, rev)
      /\ \A i \in DOMAIN log : log'[i] = log[i]
      /\ \A x, i : i \in DOMAIN log =>
            /\ About(x, i)' <=> About(x, i)
            /\ Decides(x, i)' <=> Decides(x, i)
            /\ Confirms(x, i)' <=> Confirms(x, i)
            /\ Changes(x, i)' <=> Changes(x, i)
  <2>1. Adds(m, kind, content, own, rev, n)
    BY <1>0, Published
  <2> QED BY <2>1 DEF Adds
<1>3. /\ \A j \in DOMAIN log : Changes(m, j) => j <= Revision(m)
      /\ Revision(m) # 0 => Revision(m) \in DOMAIN log /\ Changes(m, Revision(m))
      /\ Revision(m) \in 0 .. n - 1
  BY <1>0, <1>1, RevisionIs
<1>4. ASSUME NEW i \in DOMAIN log PROVE Revised(i)' /\ (Confirms(log[i].mark, i) => Overwrites(i))'
  <2>1. Revised(i) /\ (Confirms(log[i].mark, i) => Overwrites(i)) /\ log'[i] = log[i] /\ i \in 1 .. n - 1
    BY <1>2 DEF LogInv
  <2>2. \A j \in DOMAIN log' : j < i => j \in DOMAIN log
    BY <1>2, <2>1
  <2>3. log[i] \in Annotations
    BY <1>1
  <2>4. log[i].rev # 0 /\ log[i].rev < i => log[i].rev \in DOMAIN log
    BY <1>1, <1>2, <2>1, <2>3 DEF Annotations
  <2>5. Revised(i)'
    BY <1>2, <2>1, <2>2, <2>4 DEF Revised
  <2>6. ASSUME Confirms(log[i].mark, i)' PROVE Overwrites(i)'
    <3>1. Overwrites(i)
      BY <1>2, <2>1, <2>6
    <3> SUFFICES ASSUME NEW d \in DOMAIN log', d < i, Decides(log[i].mark, d)',
                        log'[d].kind = "upserted", log'[d].content # Plain
                 PROVE  \E e \in DOMAIN log' : d < e /\ e < i /\ Decides(log[i].mark, e)'
      BY DEF Overwrites
    <3>2. d \in DOMAIN log /\ log'[d] = log[d] /\ Decides(log[i].mark, d)
      BY <1>2, <2>1, <2>2
    <3>3. PICK e \in DOMAIN log : d < e /\ e < i /\ Decides(log[i].mark, e)
      BY <3>1, <3>2 DEF Overwrites
    <3>4. e \in DOMAIN log' /\ Decides(log[i].mark, e)'
      BY <1>2, <2>1, <3>3
    <3> QED BY <3>3, <3>4
  <2> QED BY <2>5, <2>6
<1>5. Revised(n)'
  <2>1. /\ log'[n].kind = kind /\ log'[n].rev = rev /\ log'[n].mark = m
    BY <1>2 DEF Annotation
  <2>2. kind # "strange" /\ (kind # "conflict" => rev = n)
    BY <1>0
  <2>3. ASSUME kind = "conflict"
        PROVE  /\ rev < n
               /\ \A j \in DOMAIN log' : j < n /\ Changes(m, j)' => j <= rev
               /\ rev # 0 => Changes(m, rev)'
    <3>1. rev = Revision(m)
      BY <2>3
    <3>2. rev < n
      BY <1>2, <1>3, <3>1
    <3>3. \A j \in DOMAIN log' : j < n => j \in DOMAIN log
      BY <1>2
    <3> QED BY <1>2, <1>3, <3>1, <3>2, <3>3
  <2> QED BY <2>1, <2>2, <2>3 DEF Revised
<1>6. ASSUME Confirms(log[n].mark, n)' PROVE Overwrites(n)'
  <2>1. log'[n].kind = kind /\ log'[n].own = own /\ log'[n].mark = m
    BY <1>2 DEF Annotation
  <2>2. Served(m) \subseteq {Plain}
    BY <1>6, <2>1 DEF Confirms, About
  <2> SUFFICES ASSUME NEW d \in DOMAIN log', d < n, Decides(m, d)',
                      log'[d].kind = "upserted", log'[d].content # Plain
               PROVE  \E e \in DOMAIN log' : d < e /\ e < n /\ Decides(m, e)'
    BY <2>1 DEF Overwrites
  <2>3. d \in DOMAIN log /\ log'[d] = log[d] /\ Decides(m, d)
    BY <1>2
  <2> DEFINE r == Revision(m)
  <2>4. d <= r /\ r # 0 /\ r \in DOMAIN log /\ Changes(m, r)
    <3>1. Changes(m, d)
      BY <2>3 DEF Decides, Changes
    <3>2. d <= r
      BY <1>3, <2>3, <3>1
    <3>3. d \in 1 .. n - 1
      BY <1>2, <2>3
    <3> QED BY <1>3, <3>2, <3>3
  <2> HIDE DEF r
  <2>5. d # r
    BY <2>2, <2>3, <2>4 DEF Served, r
  <2>6. d < r /\ r < n
    BY <1>2, <2>3, <2>4, <2>5
  <2>7. CASE Decides(m, r)
    BY <1>2, <2>4, <2>6, <2>7
  <2>8. CASE ~Decides(m, r)
    <3>1. Confirms(m, r) /\ log[r].mark = m
      BY <2>4, <2>8 DEF Changes, Decides, Confirms, About
    <3>2. Overwrites(r)
      BY <2>4, <3>1 DEF LogInv
    <3>3. PICK e \in DOMAIN log : d < e /\ e < r /\ Decides(m, e)
      BY <2>3, <2>6, <3>1, <3>2 DEF Overwrites
    <3>4. e \in DOMAIN log' /\ Decides(m, e)' /\ e < n
      BY <1>2, <2>6, <3>3
    <3> QED BY <3>3, <3>4
  <2> QED BY <2>7, <2>8
<1>7. \A i \in DOMAIN log' : Revised(i)' /\ (Confirms(log[i].mark, i) => Overwrites(i))'
  BY <1>2, <1>4, <1>5, <1>6
<1> QED BY <1>7 DEF LogInv

(* A longer log leaves what is said of the outbox and of bookmarks. *)
LEMMA LongerLog ==
  ASSUME Len(log) \in Nat, Len(log') \in Nat, Len(log) <= Len(log'),
         \A b \in Bookmarks : b.base \in Nat,
         out' = out, nextId' = nextId,
         NEW L \in Seq(Bookmarks), L \in {card, list}, Books(L)
  PROVE  \A k \in DOMAIN L : Book(L[k])'
<1> SUFFICES ASSUME NEW k \in DOMAIN L PROVE Book(L[k])'
  OBVIOUS
<1>1. Book(L[k]) /\ L[k] \in Bookmarks /\ L[k].base \in Nat
  BY DEF Books
<1> QED BY <1>1 DEF Book
(* What is told of the annotations when none is published. *)
LEMMA QuietLog ==
  ASSUME log' = log, LogInv
  PROVE  LogInv'
<1>1. \A m, i : /\ Decides(m, i)' <=> Decides(m, i)
                /\ Confirms(m, i)' <=> Confirms(m, i)
                /\ Changes(m, i)' <=> Changes(m, i)
  BY SameLog
<1>2. \A i : Revised(i)' <=> Revised(i)
  BY <1>1 DEF Revised
<1>3. \A i : Overwrites(i)' <=> Overwrites(i)
  BY <1>1 DEF Overwrites
<1> QED BY <1>1, <1>2, <1>3 DEF LogInv

(* The mail, when the server publishes. *)
LEMMA PublishMail ==
  ASSUME TypeOK, MailInv, pc = "closed", pc' = "closed", applied = {}, applied' = {},
         paired' = paired, inbox' = inbox, cursor' = cursor,
         NEW m, NEW kind, NEW content, NEW own, NEW rev, NEW n, Adds(m, kind, content, own, rev, n)
  PROVE  /\ MailInv' /\ Remaining' = Remaining \cup {n} /\ Rest' = Remaining'
         /\ Remaining \in SUBSET (DOMAIN log) /\ n \notin DOMAIN log
<1>1. /\ DOMAIN log = 1 .. n - 1 /\ n \in Nat \ {0} /\ Len(log') = n
      /\ DOMAIN log' = DOMAIN log \cup {n} /\ Len(log) \in Nat
  BY DEF Adds, TypeOK
<1>2. Len(log) = n - 1
  <2>1. DOMAIN log = 1 .. Len(log)
    BY DEF TypeOK
  <2> QED BY <1>1, <2>1
<1>3. /\ cursor \in 0 .. n - 1 /\ inbox \subseteq 1 .. n - 1
  BY <1>2 DEF TypeOK
<1>4. Remaining' = Remaining \cup {n}
  <2>1. cursor + 1 .. n = (cursor + 1 .. n - 1) \cup {n}
    BY <1>1, <1>3
  <2>2. /\ Remaining' = inbox \cup {i \in cursor + 1 .. n : \A j \in inbox : j < i}
        /\ Remaining = inbox \cup {i \in cursor + 1 .. n - 1 : \A j \in inbox : j < i}
    BY <1>1, <1>2 DEF Remaining
  <2>3. \A j \in inbox : j < n
    BY <1>1, <1>3
  <2> QED BY <2>1, <2>2, <2>3
<1>5. Remaining \in SUBSET (DOMAIN log) /\ n \notin DOMAIN log
  <2>1. inbox \subseteq 1 .. n - 1 /\ (cursor + 1 .. n - 1) \subseteq 1 .. n - 1
    BY <1>1, <1>3
  <2>2. Remaining \subseteq inbox \cup (cursor + 1 .. n - 1)
    BY <1>2 DEF Remaining
  <2>3. n \notin 1 .. n - 1
    BY <1>1
  <2> QED BY <1>1, <2>1, <2>2, <2>3
<1>6. Upper(Remaining)'
  <2> SUFFICES ASSUME NEW i \in Remaining', NEW j \in DOMAIN log', i < j PROVE j \in Remaining'
    BY DEF Upper
  <2>1. CASE j = n
    BY <1>4, <2>1
  <2>2. CASE j # n
    <3>1. j \in DOMAIN log /\ i # n
      BY <1>1, <1>4, <1>5, <2>2
    <3>2. i \in Remaining /\ Upper(Remaining)
      BY <1>4, <3>1 DEF MailInv
    <3> QED BY <1>4, <3>1, <3>2 DEF Upper
  <2> QED BY <2>1, <2>2
<1>7. Rest' = Remaining'
  BY DEF Rest
<1>8. Upper(Rest)'
  BY <1>6, <1>7 DEF Upper
<1>9. MailInv'
  BY <1>6, <1>8 DEF MailInv
<1> QED BY <1>4, <1>5, <1>7, <1>9

(* A mark of which nothing is published. *)
LEMMA OtherFits ==
  ASSUME card' = card, Kept(card, Remaining), Remaining \in SUBSET (DOMAIN log),
         NEW m, NEW kind, NEW content, NEW own, NEW rev, NEW n, Adds(m, kind, content, own, rev, n),
         Remaining' = Remaining \cup {n}, NEW x \in Marks, x # m, Open(x)' = Open(x)
  PROVE  Fits(Copy(card, x), Open(x), Revision(x), Served(x), Remaining,
              News(Remaining, x), Deciders(Remaining, x))'
<1>1. Fits(Copy(card, x), Open(x), Revision(x), Served(x), Remaining,
           News(Remaining, x), Deciders(Remaining, x))
  BY DEF Kept
<1>2. \A i \in Remaining : (About(x, i)' <=> About(x, i)) /\ (Decides(x, i)' <=> Decides(x, i))
  BY DEF Adds
<1>3. /\ News(Remaining, x) \subseteq News(Remaining, x)'
      /\ Deciders(Remaining, x) \subseteq Deciders(Remaining, x)'
      /\ Remaining \subseteq Remaining'
  BY <1>2 DEF News, Deciders
<1>4. Fits(Copy(card, x), Open(x), Revision(x), Served(x), Remaining',
           News(Remaining, x)', Deciders(Remaining, x)')
  BY <1>1, <1>3, FitsWider
<1>5. /\ Revision(x)' = Revision(x) /\ Served(x)' = Served(x)
      /\ Copy(card, x)' = Copy(card, x)
  BY DEF Adds, Copy
<1> QED BY <1>4, <1>5

(* The mark of a change. *)
LEMMA ChangeFits ==
  ASSUME TypeOK, card' = card, Kept(card, Remaining), Books(card), Remaining \in SUBSET (DOMAIN log),
         NEW m \in Marks, NEW kind \in {"upserted", "deleted"}, NEW content, NEW own \in BOOLEAN, NEW rev, NEW n,
         Adds(m, kind, content, own, rev, n), Remaining' = Remaining \cup {n},
         kind = "upserted" /\ own => content = Plain /\ Served(m) \subseteq {Plain}
  PROVE  Fits(Copy(card, m), Open(m), Revision(m), Served(m), Remaining,
              News(Remaining, m), Deciders(Remaining, m))'
<1>1. /\ Revision(m)' = n /\ n \in Remaining' /\ n \in Nat
      /\ Served(m)' = IF kind = "upserted" THEN {content} ELSE {}
  BY DEF Adds
<1>2. Copy(card, m)' = Copy(card, m)
  BY DEF Copy
<1>3. ASSUME Deciders(Remaining, m)' = {} PROVE Says(Copy(card, m)) \subseteq {Plain} \cup Served(m)'
  <2>1. ~Decides(m, n)'
    BY <1>1, <1>3 DEF Deciders
  <2>2. log'[n].mark = m /\ log'[n].kind = kind /\ log'[n].own = own
    BY DEF Adds, Annotation
  <2>3. kind = "upserted" /\ own
    BY <2>1, <2>2 DEF Decides, About
  <2>4. \A i \in Remaining : Decides(m, i)' <=> Decides(m, i)
    BY DEF Adds
  <2>5. Deciders(Remaining, m) = {}
    BY <1>3, <2>4 DEF Deciders
  <2>6. Says(Copy(card, m)) \subseteq {Plain} \cup Served(m)
    BY <2>5 DEF Kept, Fits
  <2> QED BY <2>3, <2>6
<1>4. Waits(Copy(card, m), Open(m)', n, Served(m)')
  <2>1. \A b \in Copy(card, m) : b.base <= Len(log) /\ b.base \in Nat
    <3>1. \A k \in DOMAIN card : card[k].base <= Len(log)
      BY DEF Books, Book
    <3>2. card \in Seq(Bookmarks)
      BY DEF TypeOK
    <3>3. \A k \in DOMAIN card : card[k] \in Bookmarks
      BY <3>2
    <3>4. \A b \in Bookmarks : b.base \in 0 .. MaxLog
      BY DEF Bookmarks
    <3> QED BY <3>1, <3>3, <3>4, BookmarkAssumption DEF Copy
  <2>2. Len(log) \in Nat /\ Len(log) < n
    <3>1. Len(log) \in Nat /\ DOMAIN log = 1 .. Len(log)
      BY DEF TypeOK
    <3>2. DOMAIN log = 1 .. n - 1 /\ n # 0
      BY DEF Adds
    <3> QED BY <1>1, <3>1, <3>2
  <2>3. \A b \in Copy(card, m) : b.base # n
    BY <1>1, <2>1, <2>2
  <2> QED BY <2>3 DEF Waits
<1>5. Fits(Copy(card, m), Open(m)', n, Served(m)', Remaining',
           News(Remaining, m)', Deciders(Remaining, m)')
  BY <1>1, <1>3, <1>4 DEF Fits
<1> QED BY <1>1, <1>2, <1>5
(* The bookmarks and the outbox, when the log grows. *)
LEMMA LongerBooks ==
  ASSUME TypeOK, Len(log') \in Nat, Len(log) <= Len(log'), out' = out, nextId' = nextId,
         card' = card, list' = list, Books(card), Books(list)
  PROVE  Books(card)' /\ Books(list)'
<1>1. card \in Seq(Bookmarks) /\ list \in Seq(Bookmarks) /\ Len(log) \in Nat
  BY DEF TypeOK
<1>2. \A b \in Bookmarks : b.base \in Nat
  <2>1. \A b \in Bookmarks : b.base \in 0 .. MaxLog
    BY DEF Bookmarks
  <2> QED BY <2>1, BookmarkAssumption
<1>3. \A k \in DOMAIN card : Book(card[k])'
  BY <1>1, <1>2, LongerLog
<1>4. \A k \in DOMAIN list : Book(list[k])'
  BY <1>1, <1>2, LongerLog
<1> QED BY <1>3, <1>4 DEF Books

(* A change is published while no reader is open. *)
LEMMA ChangeSettled ==
  ASSUME TypeOK, SettledParts, pc = "closed", pc' = "closed", applied = {}, applied' = {},
         UNCHANGED <<paired, card, list, out, nextId, inbox, cursor>>,
         NEW m \in Marks, NEW kind \in {"upserted", "deleted"}, NEW content, NEW own \in BOOLEAN,
         NEW rev, NEW n, Adds(m, kind, content, own, rev, n),
         kind = "upserted" /\ own => content = Plain /\ Served(m) \subseteq {Plain},
         LogInv', OutInv', \A x \in Marks : x # m => Open(x)' = Open(x),
         \A x \in Marks : \A e \in Open(x)' : e \in Open(x)
  PROVE  SettledParts'
<1>1. /\ MailInv' /\ Remaining' = Remaining \cup {n} /\ Rest' = Remaining'
      /\ Remaining \in SUBSET (DOMAIN log) /\ n \notin DOMAIN log
  BY PublishMail DEF SettledParts
<1>2. /\ Books(card) /\ Books(list) /\ Kept(card, Remaining) /\ Cares /\ OutInv
  BY DEF SettledParts
<1>3. Len(log') = n /\ Len(log) \in Nat /\ Len(log) < n /\ n \in Nat
  <2>1. Len(log) \in Nat /\ DOMAIN log = 1 .. Len(log)
    BY DEF TypeOK
  <2>2. DOMAIN log = 1 .. n - 1 /\ n \in Nat \ {0} /\ Len(log') = n
    BY DEF Adds
  <2> QED BY <2>1, <2>2
<1>4. Books(card)' /\ Books(list)'
  BY <1>2, <1>3, LongerBooks
<1>5. Kept(card, Remaining)'
  <2>1. ASSUME NEW x \in Marks
        PROVE  Fits(Copy(card, x), Open(x), Revision(x), Served(x), Remaining,
                    News(Remaining, x), Deciders(Remaining, x))'
    <3>1. CASE x = m
      <4>1. Fits(Copy(card, m), Open(m), Revision(m), Served(m), Remaining,
                 News(Remaining, m), Deciders(Remaining, m))'
        BY <1>1, <1>2, ChangeFits
      <4> QED BY <3>1, <4>1
    <3>2. CASE x # m
      BY <1>1, <1>2, <3>2, OtherFits
    <3> QED BY <3>1, <3>2
  <2> QED BY <2>1 DEF Kept
<1>6. Cares'
  <2> SUFFICES ASSUME NEW x \in Marks PROVE Careful(Open(x), Revision(x), Served(x))'
    BY DEF Cares
  <2>1. CASE x = m
    <3>1. \A e \in Open(m)' : e.base # n
      <4>1. \A e \in Open(m) : e.base <= Len(log)
        BY <1>2 DEF Open, OutInv
      <4>2. \A e \in Open(m) : e.base \in Nat
        <5>1. \A k \in DOMAIN out : out[k] \in Events
          BY DEF TypeOK
        <5>2. \A e \in Events : e.base \in 0 .. MaxLog
          BY DEF Events
        <5> QED BY <5>1, <5>2, BookmarkAssumption DEF Open
      <4> QED BY <1>3, <4>1, <4>2
    <3>2. Revision(m)' = n
      BY DEF Adds
    <3> QED BY <2>1, <3>1, <3>2 DEF Careful
  <2>2. CASE x # m
    <3>1. Revision(x)' = Revision(x) /\ Served(x)' = Served(x) /\ Open(x)' = Open(x)
      BY <2>2 DEF Adds
    <3>2. Careful(Open(x), Revision(x), Served(x))
      BY <1>2 DEF Cares
    <3> QED BY <3>1, <3>2
  <2> QED BY <2>1, <2>2
<1> QED BY <1>1, <1>4, <1>5, <1>6 DEF SettledParts

(* Another device publishes one. *)
LEMMA RemoteSettled ==
  ASSUME TypeOK, SavedParts, SettledParts, NEW m \in Marks, NEW kind \in {"upserted", "deleted"},
         NEW c \in Contents, Remote(m, kind, c)
  PROVE  SettledParts'
<1>1. PICK n : n = Len(log) + 1
  OBVIOUS
<1>2. Len(log) \in Nat /\ n \in 0 .. Len(log) + 1 /\ FALSE \in BOOLEAN
  BY <1>1 DEF TypeOK
<1>3. /\ pc = "closed" /\ pc' = "closed"
      /\ UNCHANGED <<paired, card, list, out, sent, nextId, inbox, cursor, taken, applied>>
      /\ Publish(Annotation(m, kind, c, FALSE, n))
  BY <1>1 DEF Remote, outbox, mail, loop
<1>4. Adds(m, kind, c, FALSE, n, n)
  BY <1>1, <1>2, <1>3, Published
<1>5. LogInv'
  BY <1>1, <1>2, <1>3, PublishLog DEF SettledParts
<1>6. applied = {} /\ applied' = {}
  BY <1>3 DEF SavedParts, Resolvable, Busy
<1>7. OutInv'
  <2>1. Len(log') = n /\ OutInv
    BY <1>4 DEF Adds, SettledParts
  <2>2. \A i \in DOMAIN out : out[i].base \in Nat
    <3>1. \A k \in DOMAIN out : out[k] \in Events
      BY DEF TypeOK
    <3>2. \A e \in Events : e.base \in 0 .. MaxLog
      BY DEF Events
    <3> QED BY <3>1, <3>2, BookmarkAssumption
  <2>3. \A i \in DOMAIN out : out[i].base <= Len(log')
    BY <1>1, <1>2, <2>1, <2>2 DEF OutInv
  <2> QED BY <1>3, <2>1, <2>3 DEF OutInv
<1>8. \A x \in Marks : Open(x)' = Open(x)
  BY <1>3 DEF Open
<1> QED BY <1>2, <1>3, <1>4, <1>5, <1>6, <1>7, <1>8, ChangeSettled
(* Its oldest open event may be taken: nothing else is shown where it would be
   fresh, since what it waits for would have to be taken before. *)
LEMMA TakenWaits ==
  ASSUME TypeOK, SavedParts, SettledParts, NEW k \in 1 .. sent,
         out[k].id \notin taken, \A j \in 1 .. k - 1 : out[j].id \in taken,
         out[k].kind = "upserted", out[k].base = Revision(out[k].mark)
  PROVE  Served(out[k].mark) \subseteq {Plain}
<1>1. /\ out \in Seq(Events) /\ sent \in 0 .. Len(out) /\ DOMAIN out = 1 .. Len(out) /\ Len(out) \in Nat
  <2>1. out \in Seq(Events) /\ sent \in 0 .. Len(out)
    BY DEF TypeOK
  <2> QED BY <2>1
<1>2. k \in DOMAIN out /\ out[k] \in Events
  BY <1>1
<1>3. out[k] \in Open(out[k].mark) /\ out[k].mark \in Marks
  BY <1>2 DEF Open, Events
<1>4. Careful(Open(out[k].mark), Revision(out[k].mark), Served(out[k].mark))
  BY <1>3 DEF SettledParts, Cares
<1>5. ASSUME NEW d \in Open(out[k].mark), d.id < out[k].id PROVE FALSE
  <2>1. PICK j \in DOMAIN out : d = out[j] /\ out[j].id \notin taken
    BY DEF Open
  <2>2. ~(k < j) /\ j # k
    <3>1. k < j => out[k].id < out[j].id
      BY <1>2 DEF SettledParts, OutInv
    <3>2. out[k].id \in Nat /\ out[j].id \in Nat
      <4>1. out[j] \in Events
        BY <1>1
      <4>2. \A x \in Events : x.id \in Nat
        BY BookmarkAssumption DEF Events
      <4> QED BY <1>2, <4>1, <4>2
    <3> QED BY <1>5, <2>1, <3>1, <3>2
  <2>3. j \in 1 .. k - 1
    BY <1>1, <2>2
  <2> QED BY <2>1, <2>3
<1> QED BY <1>3, <1>4, <1>5 DEF Careful

(* An event of this device is refused: a conflict is published. *)
LEMMA ConflictSettled ==
  ASSUME TypeOK, SettledParts, pc = "closed", pc' = "closed", applied = {}, applied' = {},
         UNCHANGED <<paired, card, list, out, nextId, inbox, cursor>>,
         NEW m \in Marks, NEW content, NEW own, NEW rev, NEW n, Adds(m, "conflict", content, own, rev, n),
         LogInv', OutInv', \A x \in Marks : x # m => Open(x)' = Open(x),
         NEW e, e.base # Revision(m), Open(m)' = Open(m) \ {e}
  PROVE  SettledParts'
<1>1. /\ MailInv' /\ Remaining' = Remaining \cup {n} /\ Rest' = Remaining'
      /\ Remaining \in SUBSET (DOMAIN log) /\ n \notin DOMAIN log
  BY PublishMail DEF SettledParts
<1>2. /\ Books(card) /\ Books(list) /\ Kept(card, Remaining) /\ Cares
  BY DEF SettledParts
<1>3. Len(log') = n /\ Len(log) \in Nat /\ Len(log) < n /\ n \in Nat
  <2>1. Len(log) \in Nat /\ DOMAIN log = 1 .. Len(log)
    BY DEF TypeOK
  <2>2. DOMAIN log = 1 .. n - 1 /\ n \in Nat \ {0} /\ Len(log') = n
    BY DEF Adds
  <2> QED BY <2>1, <2>2
<1>4. Books(card)' /\ Books(list)'
  BY <1>2, <1>3, LongerBooks
<1>5. \A x : Revision(x)' = Revision(x) /\ Served(x)' = Served(x)
  BY DEF Adds
<1> DEFINE O == Open(m)
           r == Revision(m)
           v == Served(m)
           C == Copy(card, m)
<1>6. Undone(O, r) => Undone(O \ {e}, r)
  BY DEF Undone
<1>7. Fits(C, O, r, v, Remaining, News(Remaining, m), Deciders(Remaining, m))
  BY <1>2 DEF Kept
<1>8. /\ Deciders(Remaining, m) \subseteq Deciders(Remaining, m)'
      /\ n \in News(Remaining, m)'
      /\ News(Remaining, m) \subseteq News(Remaining, m)'
  <2>1. \A i \in Remaining : (About(m, i)' <=> About(m, i)) /\ (Decides(m, i)' <=> Decides(m, i))
    BY <1>1 DEF Adds
  <2>2. About(m, n)'
    BY DEF Adds
  <2> QED BY <1>1, <2>1, <2>2 DEF News, Deciders
<1>9. Fits(C, O \ {e}, r, v, Remaining', News(Remaining, m)', Deciders(Remaining, m)')
  <2> HIDE DEF C, O, r, v
  <2>1. Deciders(Remaining, m)' = {} => Says(C) \subseteq {Plain} \cup v
    BY <1>7, <1>8 DEF Fits
  <2>2. Waits(C, O \ {e}, r, v)
    BY <1>6, <1>7 DEF Fits, Waits
  <2>3. ASSUME r \notin Remaining'
        PROVE  Stands(C, O \ {e}, r, v, News(Remaining, m)') /\ Based(C, O \ {e}, r, v)
    <3>1. Stands(C, O, r, v, News(Remaining, m)) /\ Based(C, O, r, v)
      BY <1>1, <1>7, <2>3 DEF Fits
    <3>2. Based(C, O \ {e}, r, v)
      BY <1>6, <3>1 DEF Based
    <3>3. C = {} => Says(C) = {}
      BY DEF Says
    <3>4. News(Remaining, m)' # {}
      BY <1>8
    <3>5. Undone(O, r) \/ Says(C) = v \/ C # {} \/ v = {}
      BY <3>1 DEF Stands
    <3> QED BY <1>6, <3>2, <3>3, <3>4, <3>5 DEF Stands
  <2> QED BY <2>1, <2>2, <2>3 DEF Fits
<1>10. Kept(card, Remaining)'
  <2>1. ASSUME NEW x \in Marks
        PROVE  Fits(Copy(card, x), Open(x), Revision(x), Served(x), Remaining,
                    News(Remaining, x), Deciders(Remaining, x))'
    <3>1. CASE x = m
      <4>1. Copy(card, m)' = C /\ Open(m)' = O \ {e} /\ Revision(m)' = r /\ Served(m)' = v
        BY <1>5 DEF Copy
      <4> QED BY <1>9, <3>1, <4>1
    <3>2. CASE x # m
      BY <1>1, <1>2, <3>2, OtherFits
    <3> QED BY <3>1, <3>2
  <2> QED BY <2>1 DEF Kept
<1>11. Cares'
  <2> SUFFICES ASSUME NEW x \in Marks PROVE Careful(Open(x)', Revision(x), Served(x))
    BY <1>5 DEF Cares
  <2>1. Careful(Open(x), Revision(x), Served(x))
    BY <1>2 DEF Cares
  <2>2. CASE x = m
    <3>1. Open(x)' = Open(x) \ {e} /\ e.base # Revision(x)
      BY <2>2
    <3> QED BY <2>1, <3>1 DEF Careful
  <2>3. CASE x # m
    BY <2>1, <2>3
  <2> QED BY <2>2, <2>3
<1> QED BY <1>1, <1>4, <1>10, <1>11 DEF SettledParts

(* An event of this device is taken: published as a change, or as a conflict. *)
LEMMA TakesSettled ==
  ASSUME TypeOK, SavedParts, SettledParts, NEW k, ServerTakes(k)
  PROVE  SettledParts'
<1>1. PICK n : n = Len(log) + 1
  OBVIOUS
<1>2. Len(log) \in Nat /\ n \in 0 .. Len(log) + 1 /\ TRUE \in BOOLEAN /\ log \in Seq(Annotations)
  BY <1>1 DEF TypeOK
<1>3. /\ pc = "closed" /\ pc' = "closed" /\ k \in 1 .. sent
      /\ UNCHANGED <<paired, card, list, out, sent, nextId, inbox, cursor, applied>>
      /\ out[k].id \notin taken /\ taken' = taken \cup {out[k].id}
      /\ \A j \in 1 .. k - 1 : out[j].id \in taken
  BY DEF ServerTakes, outbox, mail, loop
<1>4. out \in Seq(Events) /\ sent \in 0 .. Len(out) /\ DOMAIN out = 1 .. Len(out) /\ Len(out) \in Nat
  <2>1. out \in Seq(Events) /\ sent \in 0 .. Len(out)
    BY DEF TypeOK
  <2> QED BY <2>1
<1>5. PICK e \in Events : e = out[k] /\ k \in DOMAIN out
  BY <1>3, <1>4
<1>6. PICK m \in Marks : m = e.mark
  BY DEF Events
<1>7. PICK r : r = Revision(m)
  OBVIOUS
<1>8. /\ e.kind \in {"upserted", "deleted"} /\ e.content \in Contents /\ Plain \in Contents
      /\ e.kind = "upserted" => e.content = Plain
  BY <1>5, BookmarkAssumption DEF Events, SavedParts, OutPlain
<1>9. applied = {} /\ applied' = {}
  BY <1>3 DEF SavedParts, Resolvable, Busy
<1>10. /\ \A i, j \in DOMAIN out : i < j => out[i].id < out[j].id
       /\ \A i \in DOMAIN out : out[i].id \in Nat /\ out[i].base \in Nat
  <2>1. \A i \in DOMAIN out : out[i] \in Events
    BY <1>4
  <2> QED BY <2>1, BookmarkAssumption DEF SettledParts, OutInv, Events
<1>11. \A i \in DOMAIN out : out[i].id = e.id => i = k
  BY <1>4, <1>5, <1>10
<1>12. ASSUME NEW x \in Marks PROVE Open(x)' = Open(x) \ {e}
  <2>1. \A i \in DOMAIN out : out[i].id \notin taken' <=> out[i].id \notin taken /\ i # k
    BY <1>3, <1>5, <1>11
  <2>2. \A i \in DOMAIN out : out[i] = e <=> i = k
    BY <1>5, <1>11
  <2>3. Open(x)' = {d \in {out[i] : i \in DOMAIN out} : d.mark = x /\ d.id \notin taken'}
    BY <1>3 DEF Open
  <2> QED BY <2>1, <2>2, <2>3 DEF Open
<1>13. \A x \in Marks : x # m => Open(x)' = Open(x)
  <2>1. \A x \in Marks : x # m => e \notin Open(x)
    BY <1>6 DEF Open
  <2> QED BY <1>12, <2>1
<1>14. ASSUME Len(log') = n PROVE OutInv'
  <2>1. OutInv
    BY DEF SettledParts
  <2>2. \A i \in DOMAIN out : out[i].base <= Len(log')
    BY <1>1, <1>2, <1>10, <1>14, <2>1 DEF OutInv
  <2>3. \A i \in DOMAIN out : i > sent => out[i].id \notin taken'
    <3>1. \A i \in DOMAIN out : i > sent => i # k
      BY <1>3, <1>4
    <3> QED BY <1>3, <1>5, <1>11, <2>1, <3>1 DEF OutInv
  <2>4. \A i \in taken' : i < nextId
    BY <1>3, <1>5, <2>1 DEF OutInv
  <2> QED BY <1>3, <2>1, <2>2, <2>3, <2>4 DEF OutInv
<1>15. CASE /\ e.base = r \/ Served(m) \in {{}, Wanted(e)}
            /\ Publish(Annotation(m, e.kind, e.content, TRUE, n))
  <2>1. PICK kind \in {"upserted", "deleted"}, c \in Contents : kind = e.kind /\ c = e.content
    BY <1>8
  <2>2. Adds(m, kind, c, TRUE, n, n)
    BY <1>1, <1>2, <1>15, <2>1, Published
  <2>3. kind = "upserted" => Served(m) \subseteq {Plain}
    <3>1. kind = "upserted" /\ e.base = r => Served(m) \subseteq {Plain}
      BY <1>3, <1>5, <1>6, <1>7, <2>1, TakenWaits
    <3>2. kind = "upserted" => Wanted(e) = {Plain}
      BY <1>8, <2>1 DEF Wanted
    <3> QED BY <1>15, <3>1, <3>2
  <2>4. LogInv'
    BY <1>1, <1>2, <1>15, <2>1, <2>3, PublishLog DEF SettledParts
  <2>5. OutInv'
    BY <1>14, <2>2 DEF Adds
  <2>6. \A x \in Marks : \A d \in Open(x)' : d \in Open(x)
    BY <1>12
  <2>7. kind = "upserted" => c = Plain
    BY <1>8, <2>1
  <2> QED BY <1>2, <1>3, <1>9, <1>13, <2>2, <2>3, <2>4, <2>5, <2>6, <2>7, ChangeSettled
<1>16. CASE e.base # r /\ Publish(Annotation(m, "conflict", Plain, TRUE, r))
  <2>1. r \in 0 .. Len(log) + 1
    BY <1>2, <1>7, RevisionIs
  <2>2. Adds(m, "conflict", Plain, TRUE, r, n)
    BY <1>1, <1>2, <1>8, <1>16, <2>1, Published
  <2>3. LogInv'
    BY <1>1, <1>2, <1>7, <1>8, <1>16, <2>1, PublishLog DEF SettledParts
  <2>4. OutInv'
    BY <1>14, <2>2 DEF Adds
  <2>5. Open(m)' = Open(m) \ {e} /\ e.base # Revision(m)
    BY <1>7, <1>12, <1>16
  <2> QED BY <1>3, <1>9, <1>13, <2>2, <2>3, <2>4, <2>5, ConflictSettled
<1> QED BY <1>1, <1>5, <1>6, <1>7, <1>15, <1>16 DEF ServerTakes
(* How the file and the list fit after a step that publishes nothing. *)
LEMMA KeptCard ==
  ASSUME log' = log, NEW L, NEW S, card' = L, Remaining' = S,
         \A m \in Marks : Fits(Copy(L, m), Open(m)', Revision(m), Served(m), S, News(S, m), Deciders(S, m))
  PROVE  Kept(card, Remaining)'
<1> SUFFICES ASSUME NEW m \in Marks
             PROVE  Fits(Copy(card, m), Open(m), Revision(m), Served(m), Remaining,
                         News(Remaining, m), Deciders(Remaining, m))'
  BY DEF Kept
<1>1. Revision(m)' = Revision(m) /\ Served(m)' = Served(m)
  BY SameLog
<1>2. News(Remaining, m)' = News(S, m) /\ Deciders(Remaining, m)' = Deciders(S, m)
  BY SameLog DEF News, Deciders
<1>3. Copy(card, m)' = Copy(L, m)
  BY DEF Copy
<1>4. Fits(Copy(L, m), Open(m)', Revision(m), Served(m), S, News(S, m), Deciders(S, m))
  OBVIOUS
<1> QED BY <1>1, <1>2, <1>3, <1>4

(* The same of the list. *)
LEMMA KeptList ==
  ASSUME log' = log, NEW L, NEW S, list' = L, Rest' = S,
         \A m \in Marks : Fits(Copy(L, m), Open(m)', Revision(m), Served(m), S, News(S, m), Deciders(S, m))
  PROVE  Kept(list, Rest)'
<1> SUFFICES ASSUME NEW m \in Marks
             PROVE  Fits(Copy(list, m), Open(m), Revision(m), Served(m), Rest,
                         News(Rest, m), Deciders(Rest, m))'
  BY DEF Kept
<1>1. Revision(m)' = Revision(m) /\ Served(m)' = Served(m)
  BY SameLog
<1>2. News(Rest, m)' = News(S, m) /\ Deciders(Rest, m)' = Deciders(S, m)
  BY SameLog DEF News, Deciders
<1>3. Copy(list, m)' = Copy(L, m)
  BY DEF Copy
<1>4. Fits(Copy(L, m), Open(m)', Revision(m), Served(m), S, News(S, m), Deciders(S, m))
  OBVIOUS
<1> QED BY <1>1, <1>2, <1>3, <1>4

(* With as many open events. *)
LEMMA CardMore ==
  ASSUME log' = log, NEW L, NEW S, card' = L, Remaining' = S, Kept(L, S),
         \A m \in Marks : More(Open(m), Open(m)')
  PROVE  Kept(card, Remaining)'
<1>1. ASSUME NEW m \in Marks
      PROVE  Fits(Copy(L, m), Open(m)', Revision(m), Served(m), S, News(S, m), Deciders(S, m))
  <2>1. Fits(Copy(L, m), Open(m), Revision(m), Served(m), S, News(S, m), Deciders(S, m))
    BY DEF Kept
  <2>2. More(Open(m), Open(m)')
    OBVIOUS
  <2> QED BY <2>1, <2>2, FitsMore
<1> QED BY <1>1, KeptCard

(* The same of the list. *)
LEMMA ListMore ==
  ASSUME log' = log, NEW L, NEW S, list' = L, Rest' = S, Kept(L, S),
         \A m \in Marks : More(Open(m), Open(m)')
  PROVE  Kept(list, Rest)'
<1>1. ASSUME NEW m \in Marks
      PROVE  Fits(Copy(L, m), Open(m)', Revision(m), Served(m), S, News(S, m), Deciders(S, m))
  <2>1. Fits(Copy(L, m), Open(m), Revision(m), Served(m), S, News(S, m), Deciders(S, m))
    BY DEF Kept
  <2>2. More(Open(m), Open(m)')
    OBVIOUS
  <2> QED BY <2>1, <2>2, FitsMore
<1> QED BY <1>1, KeptList

(* The same events are as many. *)
LEMMA SameMore ==
  ASSUME NEW O PROVE More(O, O)
BY DEF More

(* Steps that leave the log and the outbox; what was attempted may grow. *)
LEMMA QuietOut ==
  ASSUME OutInv, Cares, LogInv, log' = log, out' = out, taken' = taken, nextId' = nextId,
         sent \in Int, sent' \in Int, sent <= sent', \A i \in DOMAIN out : i \in Int
  PROVE  OutInv' /\ Cares' /\ LogInv' /\ \A m : Open(m)' = Open(m)
<1>1. \A m : Open(m)' = Open(m)
  BY DEF Open
<1>2. Cares'
  BY <1>1, SameLog DEF Cares
<1>3. OutInv'
  BY DEF OutInv
<1> QED BY <1>1, <1>2, <1>3, QuietLog

(* They leave what is known of bookmarks. *)
LEMMA QuietBooks ==
  ASSUME log' = log, out' = out, nextId' = nextId, NEW L, Books(L),
         NEW E, \A k \in DOMAIN E : \E j \in DOMAIN L : E[k] = L[j]
  PROVE  \A k \in DOMAIN E : Book(E[k])'
<1>1. \A b : Book(b)' <=> Book(b)
  BY DEF Book
<1> QED BY <1>1 DEF Books
(* The client's steps while no reader is open. *)
LEMMA ClosedSettled ==
  ASSUME TypeOK, SavedParts, SettledParts, pc = "closed", pc' = "closed",
         UNCHANGED <<card, list, applied, todo, doomed, log, taken, nextId>>,
         OutInv', \A m \in Marks : Open(m)' = Open(m),
         Books(card)', Books(list)',
         Remaining \subseteq Remaining', Upper(Remaining'), ~paired' => cursor' = 0 /\ inbox' = {}
  PROVE  SettledParts'
<1>1. applied = {} /\ applied' = {}
  BY DEF SavedParts, Resolvable, Busy
<1>2. LogInv'
  BY QuietLog DEF SettledParts
<1>3. Cares'
  BY SameLog DEF SettledParts, Cares
<1>4. Kept(card, Remaining)'
  <2>1. Kept(card, Remaining)
    BY DEF SettledParts
  <2>2. \A m \in Marks : More(Open(m), Open(m)')
    BY SameMore
  <2>3. Kept(card, Remaining')
    BY <2>1, KeptWider
  <2> QED BY <2>2, <2>3, CardMore
<1>5. MailInv'
  <2>1. Rest' = Remaining'
    BY <1>1 DEF Rest
  <2>2. Upper(Remaining)' /\ Upper(Rest)'
    BY <2>1 DEF Upper
  <2> QED BY <1>1, <2>2 DEF MailInv
<1> QED BY <1>2, <1>3, <1>4, <1>5 DEF SettledParts

(* More events were attempted, or the device was paired. *)
LEMMA AttemptSettled ==
  ASSUME TypeOK, TypeOK', SavedParts, SettledParts, NEW k, MarkAttempted(k) \/ Pair
  PROVE  SettledParts'
<1>1. /\ pc = "closed" /\ pc' = "closed" /\ paired'
      /\ UNCHANGED <<card, list, applied, todo, doomed, log, taken, nextId, out, inbox, cursor>>
      /\ sent' = sent \/ (k \in sent + 1 .. Len(out) /\ sent' = k)
  BY DEF MarkAttempted, Pair, outbox, mail, server, loop
<1>2. /\ sent \in Int /\ sent' \in Int /\ sent <= sent' /\ \A i \in DOMAIN out : i \in Int
  <2>1. out \in Seq(Events) /\ sent \in 0 .. Len(out) /\ Len(out) \in Nat
    BY DEF TypeOK
  <2> QED BY <1>1, <2>1
<1>3. OutInv' /\ \A m : Open(m)' = Open(m)
  BY <1>1, <1>2, QuietOut DEF SettledParts
<1>4. Books(card)' /\ Books(list)'
  <2>1. \A k_1 \in DOMAIN card : Book(card[k_1])'
    BY <1>1, QuietBooks DEF SettledParts
  <2>2. \A k_1 \in DOMAIN list : Book(list[k_1])'
    BY <1>1, QuietBooks DEF SettledParts
  <2> QED BY <1>1, <2>1, <2>2 DEF Books
<1>5. Remaining' = Remaining /\ Upper(Remaining)
  BY <1>1 DEF Remaining, SettledParts, MailInv
<1> QED BY <1>1, <1>3, <1>4, <1>5, ClosedSettled

(* A page is pulled into the inbox.  What of it was not applied before still is
   not; the rest of it is to be applied again. *)
LEMMA DeferSettled ==
  ASSUME TypeOK, SavedParts, SettledParts, rare' = {}, NEW n, DeferPulled(n)
  PROVE  SettledParts'
<1>1. /\ pc = "closed" /\ pc' = "closed" /\ paired' /\ n \in cursor + 1 .. Len(log)
      /\ cursor' \in {cursor, n} /\ inbox' = inbox \cup (cursor + 1 .. n)
      /\ UNCHANGED <<card, list, applied, todo, doomed, log, taken, nextId, out, sent>>
  BY DEF DeferPulled, outbox, server, loop, SettledParts, MailInv
<1>2. /\ sent \in Int /\ \A i \in DOMAIN out : i \in Int
      /\ cursor \in 0 .. Len(log) /\ Len(log) \in Nat
  BY DEF TypeOK
<1>3. OutInv' /\ \A m : Open(m)' = Open(m)
  BY <1>1, <1>2, QuietOut DEF SettledParts
<1>4. Books(card)' /\ Books(list)'
  <2>1. \A k_1 \in DOMAIN card : Book(card[k_1])'
    BY <1>1, QuietBooks DEF SettledParts
  <2>2. \A k_1 \in DOMAIN list : Book(list[k_1])'
    BY <1>1, QuietBooks DEF SettledParts
  <2> QED BY <1>1, <2>1, <2>2 DEF Books
<1>0. \A j \in inbox : \A i \in n + 1 .. j : i \in inbox
  <2>1. Happen(IF LeavesGap(n) THEN {"gap"} ELSE {})
    BY DEF DeferPulled
  <2>2. ~LeavesGap(n)
    BY <2>1 DEF Happen
  <2> QED BY <2>2 DEF LeavesGap
<1>5. inbox \subseteq 1 .. Len(log) /\ DOMAIN log = 1 .. Len(log) /\ Upper(Remaining)
  BY DEF TypeOK, SettledParts, MailInv
<1>6. ASSUME NEW i \in DOMAIN log
      PROVE  i \in Remaining' <=> i \in inbox \/ (i > cursor /\ (i <= n \/ \A j \in inbox : j < i))
  <2>1. i \in Remaining' <=> \/ i \in inbox \/ i \in cursor + 1 .. n
                            \/ /\ i \in cursor' + 1 .. Len(log)
                               /\ \A j \in inbox \cup (cursor + 1 .. n) : j < i
    BY <1>1 DEF Remaining
  <2>2. i \in 1 .. Len(log) /\ cursor' \in Nat /\ n \in Nat /\ n > cursor
    BY <1>1, <1>2, <1>5
  <2>3. CASE i <= n
    BY <1>1, <1>2, <2>1, <2>2, <2>3
  <2>4. CASE i > n
    <3>1. \A j \in cursor + 1 .. n : j < i
      BY <1>1, <1>2, <2>2, <2>4
    <3>2. i \in cursor' + 1 .. Len(log) /\ i \notin cursor + 1 .. n /\ i > cursor
      BY <1>1, <1>2, <2>2, <2>4
    <3>3. ~(i <= n)
      BY <1>2, <2>2, <2>4
    <3>4. (\A j \in inbox \cup (cursor + 1 .. n) : j < i) <=> (\A j \in inbox : j < i)
      BY <3>1
    <3> QED BY <2>1, <3>2, <3>3, <3>4
  <2> QED BY <2>2, <2>3, <2>4
<1>7. ASSUME NEW i \in DOMAIN log
      PROVE  i \in Remaining <=> i \in inbox \/ (i > cursor /\ \A j \in inbox : j < i)
  BY <1>2, <1>5 DEF Remaining
<1>8. Remaining \subseteq DOMAIN log /\ Remaining' \subseteq DOMAIN log
  <2>1. Remaining \subseteq inbox \cup (cursor + 1 .. Len(log))
    BY DEF Remaining
  <2>2. Remaining' \subseteq inbox \cup (cursor + 1 .. n) \cup (cursor' + 1 .. Len(log))
    BY <1>1 DEF Remaining
  <2>3. /\ cursor + 1 .. Len(log) \subseteq 1 .. Len(log)
        /\ cursor + 1 .. n \subseteq 1 .. Len(log)
    BY <1>1, <1>2
  <2>4. cursor' + 1 .. Len(log) \subseteq 1 .. Len(log)
    <3>1. cursor' \in Nat
      BY <1>1, <1>2
    <3> QED BY <1>2, <3>1
  <2> QED BY <1>5, <2>1, <2>2, <2>3, <2>4
<1>9. Remaining \subseteq Remaining'
  BY <1>6, <1>7, <1>8
<1>10. Upper(Remaining')
  <2> SUFFICES ASSUME NEW i \in Remaining', NEW j \in DOMAIN log, i < j PROVE j \in Remaining'
    BY DEF Upper
  <2>1. i \in DOMAIN log /\ i \in Nat /\ j \in Nat
    BY <1>5, <1>8
  <2>2. CASE i \in Remaining
    <3>1. j \in Remaining
      BY <1>5, <2>2 DEF Upper
    <3> QED BY <1>9, <3>1
  <2>3. CASE i \notin Remaining
    <3>1. i > cursor /\ i <= n
      BY <1>6, <1>7, <2>1, <2>3
    <3>2. CASE j <= n
      BY <1>2, <1>6, <2>1, <3>1, <3>2
    <3>3. CASE j > n /\ j \in Remaining
      BY <1>9, <3>3
    <3>4. CASE j > n /\ j \notin Remaining
      <4>1. PICK x \in inbox : ~(x < j)
        BY <1>1, <1>2, <1>7, <2>1, <3>1, <3>4
      <4>2. j \in n + 1 .. x
        BY <1>1, <1>2, <1>5, <2>1, <3>4, <4>1
      <4> QED BY <1>0, <1>7, <3>4, <4>2
    <3> QED BY <1>1, <1>2, <2>1, <3>2, <3>3, <3>4
  <2> QED BY <2>2, <2>3
<1> QED BY <1>1, <1>3, <1>4, <1>9, <1>10, ClosedSettled

(* An event the server has taken leaves the outbox. *)
LEMMA RetireSettled ==
  ASSUME TypeOK, SavedParts, SettledParts, NEW k, RetireAcknowledged(k)
  PROVE  SettledParts'
<1>1. /\ pc = "closed" /\ pc' = "closed" /\ paired' = paired
      /\ k \in 1 .. sent /\ out[k].id \in taken
      /\ out' = RemoveAt(out, k) /\ sent' = sent - 1
      /\ UNCHANGED <<card, list, applied, todo, doomed, log, taken, nextId, inbox, cursor>>
  BY DEF RetireAcknowledged, mail, server, loop
<1>2. out \in Seq(Events) /\ sent \in 0 .. Len(out) /\ DOMAIN out = 1 .. Len(out) /\ Len(out) \in Nat
  <2>1. out \in Seq(Events) /\ sent \in 0 .. Len(out)
    BY DEF TypeOK
  <2> QED BY <2>1
<1>3. k \in 1 .. Len(out)
  BY <1>1, <1>2
<1>4. /\ out' \in Seq(Events) /\ Len(out') = Len(out) - 1
      /\ \A i \in 1 .. Len(out) - 1 : out'[i] = IF i < k THEN out[i] ELSE out[i + 1]
  BY <1>1, <1>2, <1>3, RemoveAtIs
<1>5. DOMAIN out' = 1 .. Len(out) - 1
  BY <1>2, <1>4
<1> DEFINE at(i) == IF i < k THEN i ELSE i + 1
<1>6. /\ \A i \in DOMAIN out' : at(i) \in DOMAIN out /\ out'[i] = out[at(i)]
      /\ \A i, j \in DOMAIN out' : i < j => at(i) < at(j)
      /\ \A i \in DOMAIN out' : i > sent' => at(i) > sent
  BY <1>1, <1>2, <1>3, <1>4, <1>5
<1>7. \A j \in DOMAIN out : j = k \/ \E i \in DOMAIN out' : j = at(i)
  <2> SUFFICES ASSUME NEW j \in DOMAIN out, j # k PROVE \E i \in DOMAIN out' : j = at(i)
    OBVIOUS
  <2>1. CASE j < k
    <3>1. j \in DOMAIN out' /\ at(j) = j
      BY <1>2, <1>3, <1>5, <2>1
    <3> QED BY <3>1
  <2>2. CASE j > k
    <3>1. j - 1 \in DOMAIN out' /\ at(j - 1) = j
      BY <1>2, <1>3, <1>5, <2>2
    <3> QED BY <3>1
  <2> QED BY <1>2, <1>3, <2>1, <2>2
<1> HIDE DEF at
<1>8. OutInv'
  <2>1. OutInv
    BY DEF SettledParts
  <2> QED BY <1>1, <1>6, <2>1 DEF OutInv
<1>9. ASSUME NEW m \in Marks PROVE Open(m)' = Open(m)
  <2>1. \A i \in DOMAIN out' : \E j \in DOMAIN out : out'[i] = out[j]
    BY <1>6
  <2>2. \A j \in DOMAIN out : j # k => \E i \in DOMAIN out' : out'[i] = out[j]
    BY <1>6, <1>7
  <2> QED BY <1>1, <2>1, <2>2 DEF Open
<1>10. Books(card)' /\ Books(list)'
  <2>1. \A b : Book(b) => Book(b)'
    BY <1>1, <1>6 DEF Book
  <2> QED BY <1>1, <2>1 DEF SettledParts, Books
<1>11. Remaining' = Remaining /\ Upper(Remaining) /\ (~paired' => cursor' = 0 /\ inbox' = {})
  BY <1>1 DEF Remaining, SettledParts, MailInv
<1> QED BY <1>1, <1>8, <1>9, <1>10, <1>11, ClosedSettled
(* The reader's steps that queue nothing. *)
LEMMA ReaderSettled ==
  ASSUME TypeOK, SettledParts, UNCHANGED <<log, taken, out, sent, nextId>>,
         NEW L, NEW E, card' = L, list' = E,
         \A k \in DOMAIN L : \/ \E j \in DOMAIN card : L[k] = card[j]
                             \/ \E j \in DOMAIN list : L[k] = list[j],
         Books(E), MailInv',
         NEW S, NEW T, Remaining' = S, Rest' = T, Kept(L, S), pc' # "closed" => Kept(E, T)
  PROVE  SettledParts'
<1>1. sent \in Int /\ \A i \in DOMAIN out : i \in Int
  BY DEF TypeOK
<1>2. OutInv' /\ Cares' /\ LogInv' /\ \A m : Open(m)' = Open(m)
  BY <1>1, QuietOut DEF SettledParts
<1>3. \A b : Book(b)' <=> Book(b)
  BY DEF Book
<1>4. Books(card)' /\ Books(list)'
  BY <1>3 DEF SettledParts, Books
<1>5. \A m \in Marks : More(Open(m), Open(m)')
  BY <1>2, SameMore
<1>6. Kept(card, Remaining)'
  BY <1>5, CardMore
<1>7. pc' # "closed" => Kept(list, Rest)'
  BY <1>5, ListMore
<1> QED BY <1>2, <1>4, <1>6, <1>7 DEF SettledParts

(* The reader closes, or power is lost: the list and what was applied to it are
   gone, and the file is as it was. *)
LEMMA CloseSettled ==
  ASSUME TypeOK, SavedParts, SettledParts, rare' = {}, Close \/ PowerLoss
  PROVE  SettledParts'
<1>1. /\ UNCHANGED <<paired, log, taken, out, sent, nextId, inbox, cursor>>
      /\ card' = card /\ list' = <<>> /\ pc' = "closed"
  BY DEF Close, PowerLoss, Happen, outbox, mail, server, loop
<1>2. applied' = {}
  BY DEF Close, PowerLoss, SavedParts, Resolvable, Busy, loop
<1>3. Remaining' = Remaining /\ Rest' = Remaining
  BY <1>1, <1>2 DEF Remaining, Rest
<1>4. MailInv'
  <2>1. Upper(Remaining)
    BY DEF SettledParts, MailInv
  <2>2. Upper(Remaining)' /\ Upper(Rest)'
    BY <1>1, <1>3, <2>1 DEF Upper
  <2> QED BY <1>1, <1>2, <2>2 DEF SettledParts, MailInv
<1>5. Books(<<>>) /\ Kept(card, Remaining)
  BY DEF Books, SettledParts
<1> QED BY <1>1, <1>3, <1>4, <1>5, ReaderSettled

(* The file is loaded, and nothing is applied. *)
LEMMA LoadOnlySettled ==
  ASSUME TypeOK, SavedParts, SettledParts, LoadOnly
  PROVE  SettledParts'
<1>1. /\ UNCHANGED <<paired, log, taken, out, sent, nextId, inbox, cursor>>
      /\ card' = card /\ list' = card /\ pc' = "open"
  BY DEF LoadOnly, outbox, mail, server, loop
<1>2. applied' = {} /\ applied = {}
  BY DEF LoadOnly, SavedParts, Resolvable, Busy, loop
<1>3. Remaining' = Remaining /\ Rest' = Remaining
  BY <1>1, <1>2 DEF Remaining, Rest
<1>4. MailInv'
  <2>1. Upper(Remaining)
    BY DEF SettledParts, MailInv
  <2>2. Upper(Remaining)' /\ Upper(Rest)'
    BY <1>1, <1>3, <2>1 DEF Upper
  <2> QED BY <1>1, <1>2, <2>2 DEF SettledParts, MailInv
<1>5. Books(card) /\ Kept(card, Remaining)
  BY DEF SettledParts
<1> QED BY <1>1, <1>3, <1>4, <1>5, ReaderSettled

(* The list is saved, so that the file fits what the list fitted; or it is not,
   and nothing will be retired. *)
LEMMA SaveSettled ==
  ASSUME TypeOK, SavedParts, SettledParts, rare' = {}, Save
  PROVE  SettledParts'
<1>1. /\ UNCHANGED <<paired, log, taken, out, sent, nextId, inbox, cursor, todo, doomed>>
      /\ list' = list /\ pc = "saving"
      /\ \/ /\ card' = list /\ applied' = applied
            /\ pc' = IF applied = {} THEN "open" ELSE "resolving"
         \/ card' = card /\ applied' = {} /\ pc' = "open"
  BY DEF Save, AfterFailure, Happen, outbox, mail, server
<1>2. Remaining' = Remaining
  BY <1>1 DEF Remaining
<1>3. /\ Upper(Remaining) /\ Upper(Rest) /\ Books(list) /\ Books(card) /\ MailInv
      /\ Kept(card, Remaining) /\ Kept(list, Rest)
  BY <1>1 DEF SettledParts, MailInv
<1>4. Kept(list, Remaining)
  BY <1>3, KeptWider DEF Rest
<1>5. CASE /\ card' = list /\ applied' = applied
           /\ pc' = IF applied = {} THEN "open" ELSE "resolving"
  <2>1. Rest' = Rest
    BY <1>2, <1>5 DEF Rest
  <2>2. Upper(Remaining)' /\ Upper(Rest)'
    BY <1>1, <1>2, <1>3, <2>1 DEF Upper
  <2>3. MailInv'
    BY <1>1, <1>3, <1>5, <2>2 DEF MailInv
  <2> QED BY <1>1, <1>2, <1>3, <1>4, <1>5, <2>1, <2>3, ReaderSettled
<1>6. CASE card' = card /\ applied' = {} /\ pc' = "open"
  <2>1. Rest' = Remaining
    BY <1>2, <1>6 DEF Rest
  <2>2. Upper(Remaining)' /\ Upper(Rest)'
    BY <1>1, <1>2, <1>3, <2>1 DEF Upper
  <2>3. MailInv'
    BY <1>1, <1>3, <1>6, <2>2 DEF MailInv
  <2> QED BY <1>1, <1>2, <1>3, <1>4, <1>6, <2>1, <2>3, ReaderSettled
<1> QED BY <1>1, <1>5, <1>6

(* What was applied and saved is retired, the oldest first. *)
LEMMA ResolveSettled ==
  ASSUME TypeOK, SavedParts, SettledParts, ResolveInbox
  PROVE  SettledParts'
<1>1. /\ UNCHANGED <<paired, log, taken, out, sent, nextId, cursor, todo, doomed>>
      /\ list' = list /\ card' = card /\ pc = "resolving"
      /\ pc' = IF applied' = {} THEN "open" ELSE "resolving"
      /\ \/ inbox' = inbox \ {Min(applied)} /\ applied' = applied \ {Min(applied)}
         \/ inbox' = inbox /\ applied' = {}
  BY DEF ResolveInbox, outbox, server
<1>2. /\ Upper(Remaining) /\ Upper(Rest) /\ Books(list) /\ Books(card) /\ MailInv
      /\ Kept(card, Remaining) /\ Kept(list, Rest)
  BY <1>1 DEF SettledParts, MailInv
<1>3. list = card
  BY <1>1 DEF SavedParts, Written
<1>4. CASE inbox' = inbox \ {Min(applied)} /\ applied' = applied \ {Min(applied)}
  <2>1. /\ applied \in SUBSET Nat /\ applied # {} /\ inbox \in SUBSET Nat /\ applied \subseteq inbox
        /\ cursor \in Nat /\ Len(log) \in Nat /\ DOMAIN log = 1 .. Len(log)
    <3>1. /\ inbox \subseteq 1 .. Len(log) /\ cursor \in 0 .. Len(log) /\ Len(log) \in Nat
          /\ DOMAIN log = 1 .. Len(log)
      BY DEF TypeOK
    <3> QED BY <1>1, <1>2, <3>1 DEF MailInv
  <2>2. PICK q : q = Min(applied)
    OBVIOUS
  <2>3. q \in applied /\ \A i \in applied : q <= i
    BY <2>1, <2>2, MinIs
  <2>4. inbox' = inbox \ {q} /\ applied' = applied \ {q} /\ q \in inbox /\ q \in Nat
    BY <1>4, <2>1, <2>2, <2>3
  <2>5. Remaining \in SUBSET Nat
    <3>1. cursor + 1 .. Len(log) \subseteq Nat
      BY <2>1
    <3> QED BY <2>1, <3>1 DEF Remaining
  <2>6. Upper(Remaining \ {q})
    <3> SUFFICES ASSUME NEW i \in Remaining \ {q}, NEW j \in DOMAIN log, i < j PROVE j \in Remaining \ {q}
      BY DEF Upper
    <3>1. j \in Remaining
      BY <1>2 DEF Upper
    <3>2. j # q
      <4>1. ASSUME j = q PROVE FALSE
        <5>1. i \notin applied
          BY <2>1, <2>3, <2>5, <4>1
        <5>2. i \in Rest
          BY <5>1 DEF Rest
        <5>3. j \in Rest
          BY <1>2, <5>2 DEF Upper
        <5> QED BY <2>3, <4>1, <5>3 DEF Rest
      <4> QED BY <4>1
    <3> QED BY <3>1, <3>2
  <2>7. \A i : i \in Remaining \ {q} => i \in Remaining'
    BY <1>1, <2>4 DEF Remaining
  <2>8. Kept(card, Remaining')
    <3>1. Rest \subseteq Remaining'
      BY <2>3, <2>7 DEF Rest
    <3> QED BY <1>2, <1>3, <3>1, KeptWider
  <2>9. CASE inbox' = {}
    <3>1. Remaining' = cursor + 1 .. Len(log) /\ applied' = {}
      BY <1>1, <2>1, <2>4, <2>9 DEF Remaining
    <3>2. Rest' = Remaining'
      BY <3>1 DEF Rest
    <3>3. Upper(Remaining')
      BY <2>1, <3>1 DEF Upper
    <3>4. Upper(Remaining)' /\ Upper(Rest)'
      BY <1>1, <3>2, <3>3 DEF Upper
    <3>5. MailInv'
      BY <1>1, <1>2, <2>4, <3>1, <3>4 DEF MailInv
    <3> QED BY <1>1, <1>2, <1>3, <2>8, <3>2, <3>5, ReaderSettled
  <2>10. CASE inbox' # {}
    <3>1. PICK x \in inbox : x > q
      <4>1. PICK x \in inbox : x # q
        BY <2>4, <2>10
      <4>2. CASE x > q
        BY <4>2
      <4>3. CASE ~(x > q)
        <5>1. x < q /\ x \notin applied
          BY <2>1, <2>3, <2>4, <4>1, <4>3
        <5>2. x \in Rest
          BY <4>1, <5>1 DEF Rest, Remaining
        <5>3. q \in DOMAIN log
          BY <2>4 DEF TypeOK
        <5>4. q \in Rest
          BY <1>2, <5>1, <5>2, <5>3 DEF Upper
        <5> QED BY <2>3, <5>4 DEF Rest
      <4> QED BY <4>2, <4>3
    <3>2. Remaining' = Remaining \ {q}
      <4>1. ASSUME NEW i \in Remaining' PROVE i \in Remaining \ {q}
        <5>1. CASE i \in inbox'
          BY <2>4, <5>1 DEF Remaining
        <5>2. CASE i \notin inbox'
          <6>1. i \in cursor + 1 .. Len(log) /\ \A j \in inbox \ {q} : j < i
            BY <1>1, <2>4, <5>2 DEF Remaining
          <6>2. x \in inbox \ {q} /\ x \in Nat
            BY <2>1, <2>4, <3>1
          <6>3. q < i
            BY <2>1, <2>4, <3>1, <6>1, <6>2
          <6> QED BY <2>4, <6>1, <6>3 DEF Remaining
        <5> QED BY <5>1, <5>2
      <4> QED BY <2>7, <4>1
    <3>3. Rest' = Rest
      BY <2>3, <2>4, <3>2 DEF Rest
    <3>4. Upper(Remaining)' /\ Upper(Rest)'
      BY <1>1, <1>2, <2>6, <3>2, <3>3 DEF Upper
    <3>5. MailInv'
      BY <1>1, <1>2, <2>1, <2>4, <3>4 DEF MailInv
    <3> QED BY <1>1, <1>2, <2>8, <3>3, <3>5, ReaderSettled
  <2> QED BY <2>9, <2>10
<1>5. CASE inbox' = inbox /\ applied' = {}
  <2>1. Remaining' = Remaining
    BY <1>1, <1>5 DEF Remaining
  <2>2. Rest' = Remaining
    BY <1>5, <2>1 DEF Rest
  <2>3. Upper(Remaining)' /\ Upper(Rest)'
    BY <1>1, <1>2, <2>1, <2>2 DEF Upper
  <2>4. MailInv'
    BY <1>1, <1>2, <1>5, <2>3 DEF MailInv
  <2> QED BY <1>1, <1>2, <1>3, <2>1, <2>2, <2>4, ReaderSettled
<1> QED BY <1>1, <1>4, <1>5
(* An opening. *)
LEMMA LoadSettled ==
  ASSUME TypeOK, TypeOK', SavedParts, SettledParts, rare' = {}, Load
  PROVE  SettledParts'
<1> DEFINE S == ToApply(inbox)
           L == Replay(card, S).list
<1>1. /\ UNCHANGED <<paired, log, taken, out, sent, nextId, inbox, cursor, card, doomed>>
      /\ pc' \in {"queueing", "saving", "resolving", "open"}
      /\ pc' = "resolving" => applied' # {}
  BY DEF Load, Queued, outbox, mail, server
<1>2. /\ applied' = S
      /\ list' = IF paired THEN [k \in DOMAIN L |-> Named(L[k])] ELSE L
      /\ ~Unfound(card, ToApply(inbox))
  <2>1. PICK loaded \in {card, <<>>}, items \in SUBSET inbox :
           LET result == Replay(loaded, ToApply(items))
               odd == {r \in Rare : \/ (r = "unreadable" /\ loaded # card)
                                   \/ (r = "scan" /\ items # inbox)
                                   \/ (r = "twin" /\ Unfound(loaded, ToApply(items)))}
           IN  /\ rare' = rare \cup odd
               /\ applied' = ToApply(items)
               /\ list' = IF paired THEN [k \in DOMAIN result.list |-> Named(result.list[k])]
                          ELSE result.list
    BY DEF Load, Happen
  <2>2. {r \in Rare : \/ (r = "unreadable" /\ loaded # card)
                      \/ (r = "scan" /\ items # inbox)
                      \/ (r = "twin" /\ Unfound(loaded, ToApply(items)))} = {}
    BY <2>1
  <2>3. loaded = card /\ items = inbox /\ ~Unfound(card, ToApply(inbox))
    BY <2>2 DEF Rare
  <2> QED BY <2>1, <2>3
<1>3. /\ LogInv /\ LogPlain /\ Books(card) /\ Kept(card, Remaining) /\ Upper(Remaining) /\ MailInv
      /\ Unique(card) /\ Local(card)
  BY DEF SettledParts, SavedParts, MailInv
<1>4. /\ L \in Seq(Bookmarks)
      /\ \A m : Told(S, m, Copy(card, m), Copy(L, m))
      /\ \A q \in S : \A b \in Copy(L, log[q].mark) : b.stage # "new"
  BY <1>2, <1>3, LoadTold
<1>5. S \subseteq inbox /\ Remaining \in SUBSET (DOMAIN log) /\ Upper(Remaining \ S)
  BY <1>3, ToApplyIs
<1>6. Kept(L, Remaining \ S)
  BY <1>3, <1>4, LoadFits
<1>7. S \in SUBSET (DOMAIN log)
  BY <1>5 DEF Remaining
<1> HIDE DEF S, L
<1>8. \A m : Copy(list', m) = IF paired THEN {Named(b) : b \in Copy(L, m)} ELSE Copy(L, m)
  BY <1>2, <1>4, NamedCopies
<1>9. \A m : Copy(L, m) \in SUBSET Bookmarks
  BY <1>4 DEF Copy
<1>10. Remaining' = Remaining /\ Rest' = Remaining \ S
  BY <1>1, <1>2 DEF Remaining, Rest
<1>11. \A m \in Marks : More(Open(m), Open(m)') /\ Open(m)' = Open(m)
  BY <1>1, SameMore DEF Open
<1>12. Kept(card, Remaining)'
  BY <1>1, <1>3, <1>10, <1>11, CardMore
<1>13. Kept(list, Rest)'
  <2>1. ASSUME NEW m \in Marks
        PROVE  Fits(Copy(list', m), Open(m)', Revision(m), Served(m), Remaining \ S,
                    News(Remaining \ S, m), Deciders(Remaining \ S, m))
    <3> DEFINE T == Remaining \ S
    <3>1. Fits(Copy(L, m), Open(m), Revision(m), Served(m), T, News(T, m), Deciders(T, m))
      BY <1>6 DEF Kept
    <3> HIDE DEF T
    <3>2. Fits({Named(b) : b \in Copy(L, m)}, Open(m), Revision(m), Served(m), T, News(T, m), Deciders(T, m))
      BY <1>9, <3>1, FitsNamed
    <3>3. Open(m)' = Open(m) /\ Copy(list', m) \in {Copy(L, m), {Named(b) : b \in Copy(L, m)}}
      BY <1>8, <1>11
    <3>4. Fits(Copy(list', m), Open(m)', Revision(m), Served(m), T, News(T, m), Deciders(T, m))
      BY <3>1, <3>2, <3>3
    <3> QED BY <3>4 DEF T
  <2> QED BY <1>1, <1>10, <2>1, KeptList
<1>14. MailInv'
  <2>1. Upper(Remaining)' /\ Upper(Rest)'
    BY <1>1, <1>3, <1>5, <1>10 DEF Upper
  <2> QED BY <1>1, <1>2, <1>3, <1>5, <2>1 DEF MailInv
<1>15. \A b : Book(b)' <=> Book(b)
  BY <1>1 DEF Book
<1>16. Books(card)'
  BY <1>1, <1>3, <1>15 DEF Books
<1>17. ASSUME NEW x, NEW b \in Copy(L, x) PROVE Book(b)
  <2>1. Told(S, x, Copy(card, x), Copy(L, x)) /\ b \in Bookmarks
    BY <1>4, <1>9
  <2>2. CASE \A i \in S : ~About(x, i)
    <3>1. b \in Copy(card, x)
      BY <2>1, <2>2 DEF Told
    <3> QED BY <1>3, <3>1 DEF Copy, Books
  <2>3. CASE \E i \in S : About(x, i)
    <3>1. PICK q \in S : q \in Latest(S, x) /\ About(x, q)
      BY <1>7, <2>3, LatestIs
    <3>2. b.event = 0 /\ b.base = log[q].rev /\ b.stage # "new"
      BY <1>4, <2>1, <3>1 DEF Told, About
    <3>3. log[q].rev <= Len(log)
      <4>1. Revised(q) /\ log[q] \in Annotations /\ q \in 1 .. Len(log) /\ Len(log) \in Nat
        BY <1>3, <1>7 DEF LogInv, TypeOK
      <4>2. log[q].kind \in {"upserted", "deleted", "conflict"} /\ log[q].rev \in Nat
        BY <4>1, BookmarkAssumption DEF Revised, Annotations
      <4>3. log[q].rev <= q
        BY <4>1, <4>2 DEF Revised
      <4> QED BY <4>1, <4>2, <4>3
    <3>4. 0 < nextId /\ \A k \in DOMAIN out : out[k].id # 0
      <4>1. nextId \in 1 .. MaxId + 1
        BY DEF TypeOK
      <4>2. \A k \in DOMAIN out : out[k] \in Events
        BY DEF TypeOK
      <4>3. \A e \in Events : e.id # 0
        BY BookmarkAssumption DEF Events
      <4> QED BY <4>1, <4>2, <4>3, BookmarkAssumption
    <3> QED BY <3>2, <3>3, <3>4 DEF Book
  <2> QED BY <2>2, <2>3
<1>18. \A b \in Bookmarks : Book(b) => Book(Named(b))
  <2> SUFFICES ASSUME NEW b \in Bookmarks, Book(b) PROVE Book(Named(b))
    OBVIOUS
  <2>1. /\ Named(b).event = b.event /\ Named(b).base = b.base /\ Named(b).mark = b.mark
        /\ Named(b).stage # "new" /\ (Named(b).stage # "queued" => b.stage # "queued")
    BY DEF Named, Bookmarks
  <2> QED BY <2>1 DEF Book
<1>19. Books(list)'
  <2>1. ASSUME NEW k \in DOMAIN list' PROVE Book(list'[k])
    <3>1. PICK x : x = list'[k].mark
      OBVIOUS
    <3>2. list'[k] \in Copy(list', x)
      BY <3>1 DEF Copy
    <3>3. list'[k] \in Copy(L, x) \/ \E b \in Copy(L, x) : list'[k] = Named(b)
      BY <1>8, <3>2
    <3> QED BY <1>9, <1>17, <1>18, <3>3
  <2> QED BY <1>15, <2>1 DEF Books
<1>20. OutInv' /\ Cares' /\ LogInv'
  <2>1. sent \in Int /\ \A i \in DOMAIN out : i \in Int
    BY DEF TypeOK
  <2> QED BY <1>1, <2>1, QuietOut DEF SettledParts
<1> QED BY <1>12, <1>13, <1>14, <1>16, <1>19, <1>20 DEF SettledParts
(* Queueing an event of a bookmark keeps the outbox in order, and loses no open
   event; an upsert is queued where nothing else is shown, or after a deletion. *)
LEMMA QueueSettled ==
  ASSUME TypeOK, OutInv, Cares, LogInv, log' = log, taken' = taken,
         NEW b \in Bookmarks, Book(b), NEW kind \in {"upserted", "deleted"}, NEW id \in 0 .. MaxId,
         Queues(b, kind, id),
         kind = "upserted" =>
            /\ b.event = 0
            /\ b.base = Revision(b.mark) =>
                  Served(b.mark) \subseteq {Plain} \/ Undone(Open(b.mark), Revision(b.mark))
  PROVE  /\ OutInv' /\ Cares' /\ LogInv'
         /\ \A m : More(Open(m), Open(m)')
         /\ \A c \in Bookmarks : Book(c) => Book(c)'
         /\ id = 0 => out' = out /\ sent' = sent /\ nextId' = nextId
         /\ id # 0 => EventOf(b, kind, id) \in Open(b.mark)'
         /\ kind = "upserted" /\ id # 0 => id = nextId /\ nextId' = nextId + 1
         /\ \A i \in DOMAIN out' : id # 0 /\ out'[i].id = id => out'[i] = EventOf(b, kind, id)
<1> DEFINE e == EventOf(b, kind, id)
<1>1. /\ out \in Seq(Events) /\ sent \in 0 .. Len(out) /\ DOMAIN out = 1 .. Len(out) /\ Len(out) \in Nat
      /\ nextId \in Nat \ {0} /\ Len(log) \in Nat
      /\ \A i \in DOMAIN out : out[i].id \in Nat \ {0} /\ out[i].base \in Nat
  <2>1. out \in Seq(Events) /\ sent \in 0 .. Len(out)
    BY DEF TypeOK
  <2>2. nextId \in 1 .. MaxId + 1 /\ Len(log) \in Nat
    BY DEF TypeOK
  <2>3. \A i \in DOMAIN out : out[i] \in Events
    BY <2>1
  <2>4. \A x \in Events : x.id \in Nat \ {0} /\ x.base \in Nat
    BY BookmarkAssumption DEF Events
  <2> QED BY <2>1, <2>2, <2>3, <2>4, BookmarkAssumption
<1>2. e.id = id /\ e.mark = b.mark /\ e.base = b.base /\ e.kind = kind
  BY DEF EventOf
<1>3. LogInv' /\ \A m : Revision(m)' = Revision(m) /\ Served(m)' = Served(m)
  BY QuietLog, SameLog
<1>4. CASE id = 0
  <2>1. out' = out /\ sent' = sent /\ nextId' = nextId
    <3>1. ~Replaces(b, kind, id) /\ ~Appends(b, kind, id)
      BY <1>1, <1>4 DEF Replaces, Appends
    <3> QED BY <3>1, QueuesIs
  <2>2. OutInv' /\ Cares' /\ LogInv' /\ \A m : Open(m)' = Open(m)
    <3>1. sent \in Int /\ sent' \in Int /\ sent <= sent' /\ \A i \in DOMAIN out : i \in Int
      BY <1>1, <2>1
    <3> QED BY <2>1, <3>1, QuietOut
  <2>3. \A m : More(Open(m), Open(m)')
    BY <2>2, SameMore
  <2>4. \A c \in Bookmarks : Book(c) => Book(c)'
    BY <2>1 DEF Book
  <2> QED BY <1>4, <2>1, <2>2, <2>3, <2>4
<1>5. ASSUME Replaces(b, kind, id)
      PROVE  /\ id # 0 /\ kind = "deleted"
             /\ OutInv' /\ Cares'
             /\ \A m : More(Open(m), Open(m)')
             /\ \A c \in Bookmarks : Book(c) => Book(c)'
             /\ e \in Open(b.mark)'
             /\ \A i \in DOMAIN out' : out'[i].id = id => out'[i] = e
  <2>1. PICK k \in sent + 1 .. Len(out) : out[k].id = id /\ out' = [out EXCEPT ![k] = e]
    BY <1>5 DEF Replaces
  <2>2. id # 0 /\ id = b.event /\ sent' = sent /\ nextId' = nextId
    BY <1>5 DEF Replaces
  <2>3. kind = "deleted"
    BY <2>2
  <2>4. k \in DOMAIN out /\ k > sent
    BY <1>1, <2>1
  <2>5. out[k].mark = b.mark /\ out[k].base = b.base
    BY <2>1, <2>2, <2>4 DEF Book
  <2>6. DOMAIN out' = DOMAIN out /\ out'[k] = e /\ \A i \in DOMAIN out : i # k => out'[i] = out[i]
    BY <1>1, <2>1, <2>4
  <2> HIDE DEF e
  <2>7. \A i \in DOMAIN out : out'[i].id = out[i].id /\ out'[i].mark = out[i].mark /\ out'[i].base = out[i].base
    BY <1>2, <2>1, <2>5, <2>6
  <2>8. \A i \in DOMAIN out : out[i].kind = "deleted" => out'[i].kind = "deleted"
    BY <1>2, <2>3, <2>6
  <2>9. OutInv'
    BY <2>2, <2>6, <2>7 DEF OutInv
  <2>10. \A c \in Bookmarks : Book(c) => Book(c)'
    BY <2>2, <2>6, <2>7 DEF Book
  <2>11. \A i \in DOMAIN out : out'[i].id = id => i = k
    <3> SUFFICES ASSUME NEW i \in DOMAIN out, out'[i].id = id, i # k PROVE FALSE
      OBVIOUS
    <3>1. out[i].id = out[k].id /\ out[i].id \in Nat
      BY <1>1, <2>1, <2>7
    <3>2. i < k \/ k < i
      BY <1>1, <2>4
    <3> QED BY <2>4, <3>1, <3>2 DEF OutInv
  <2>12. \A i \in DOMAIN out' : out'[i].id = id => out'[i] = e
    BY <2>6, <2>11
  <2>13. e \in Open(b.mark)'
    <3>1. out[k].id \notin taken
      BY <2>4 DEF OutInv
    <3> QED BY <1>2, <2>1, <2>4, <2>6, <3>1 DEF Open
  <2>14. ASSUME NEW m PROVE More(Open(m), Open(m)')
    <3> SUFFICES ASSUME NEW d \in Open(m)
                 PROVE  \E f \in Open(m)' : f.id = d.id /\ f.base = d.base /\ (d.kind = "deleted" => f.kind = "deleted")
      BY DEF More
    <3>1. PICK i \in DOMAIN out : d = out[i] /\ out[i].mark = m /\ out[i].id \notin taken
      BY DEF Open
    <3>2. out'[i] \in Open(m)'
      BY <2>6, <2>7, <3>1 DEF Open
    <3> QED BY <2>7, <2>8, <3>1, <3>2
  <2>15. Cares'
    <3> SUFFICES ASSUME NEW m \in Marks, NEW f \in Open(m)', f.kind = "upserted", f.base = Revision(m)
                 PROVE  \/ Served(m) \subseteq {Plain}
                        \/ \E d \in Open(m)' : d.id < f.id /\ d.kind = "deleted" /\ d.base = Revision(m)
      BY <1>3 DEF Cares, Careful
    <3>1. PICK i \in DOMAIN out' : f = out'[i] /\ out'[i].mark = m /\ out'[i].id \notin taken
      BY DEF Open
    <3>2. i # k
      BY <1>2, <2>3, <2>6, <3>1
    <3>3. f \in Open(m)
      BY <2>6, <3>1, <3>2 DEF Open
    <3>4. Careful(Open(m), Revision(m), Served(m))
      BY DEF Cares
    <3>5. CASE \E d \in Open(m) : d.id < f.id /\ d.kind = "deleted" /\ d.base = Revision(m)
      BY <2>14, <3>5 DEF More
    <3> QED BY <3>3, <3>4, <3>5 DEF Careful
  <2> QED BY <2>2, <2>3, <2>9, <2>10, <2>12, <2>13, <2>14, <2>15
<1>6. ASSUME Appends(b, kind, id)
      PROVE  /\ id # 0 /\ id = nextId /\ nextId' = nextId + 1
             /\ OutInv' /\ Cares'
             /\ \A m : More(Open(m), Open(m)')
             /\ \A c \in Bookmarks : Book(c) => Book(c)'
             /\ e \in Open(b.mark)'
             /\ \A i \in DOMAIN out' : out'[i].id = id => out'[i] = e
  <2>1. id = nextId /\ nextId' = nextId + 1 /\ sent' = sent /\ out' = Append(out, e) /\ id # 0
    BY <1>1, <1>6 DEF Appends
  <2>2. PICK n : n = Len(out) + 1
    OBVIOUS
  <2> HIDE DEF e
  <2>3. /\ DOMAIN out' = DOMAIN out \cup {n} /\ n \notin DOMAIN out /\ out'[n] = e
        /\ \A i \in DOMAIN out : out'[i] = out[i] /\ i < n
        /\ \A i \in DOMAIN out' : i <= n
    BY <1>1, <2>1, <2>2
  <2>4. \A i \in DOMAIN out : out[i].id < id /\ out[i].id # id
    BY <1>1, <2>1 DEF OutInv
  <2>5. OutInv'
    <3>1. \A i, j \in DOMAIN out' : i < j => out'[i].id < out'[j].id
      <4> SUFFICES ASSUME NEW i \in DOMAIN out', NEW j \in DOMAIN out', i < j PROVE out'[i].id < out'[j].id
        OBVIOUS
      <4>1. i \in DOMAIN out
        BY <1>1, <2>2, <2>3
      <4>2. CASE j = n
        BY <1>2, <2>3, <2>4, <4>1, <4>2
      <4>3. CASE j # n
        BY <2>3, <4>1, <4>3 DEF OutInv
      <4> QED BY <4>2, <4>3
    <3>2. \A i \in DOMAIN out' : out'[i].id < nextId'
      BY <1>1, <1>2, <2>1, <2>3, <2>4
    <3>3. id \notin taken
      BY <1>1, <2>1 DEF OutInv
    <3>4. \A i \in DOMAIN out' : i > sent' => out'[i].id \notin taken'
      BY <1>2, <2>1, <2>3, <3>3 DEF OutInv
    <3>5. \A i \in DOMAIN out' : out'[i].base <= Len(log')
      BY <1>2, <2>3 DEF OutInv, Book
    <3>6. \A i \in taken' : i < nextId'
      <4>1. \A i \in taken : i \in Nat /\ i < nextId
        BY BookmarkAssumption DEF OutInv, TypeOK
      <4> QED BY <1>1, <2>1, <4>1
    <3> QED BY <3>1, <3>2, <3>4, <3>5, <3>6 DEF OutInv
  <2>6. \A m : \A d \in Open(m) : d \in Open(m)'
    BY <2>3 DEF Open
  <2>7. \A m : More(Open(m), Open(m)')
    BY <2>6 DEF More
  <2>8. e \in Open(b.mark)'
    <3>1. id \notin taken
      BY <1>1, <2>1 DEF OutInv
    <3> QED BY <1>2, <2>3, <3>1 DEF Open
  <2>9. \A i \in DOMAIN out' : out'[i].id = id => out'[i] = e
    BY <2>3, <2>4
  <2>10. ASSUME NEW c \in Bookmarks, Book(c) PROVE Book(c)'
    <3>1. c.event \in Nat /\ c.event < nextId
      BY <2>10, BookmarkAssumption DEF Book, Bookmarks
    <3>2. c.event < nextId' /\ c.event # id
      BY <1>1, <2>1, <3>1
    <3>3. \A i \in DOMAIN out' : out'[i].id = c.event => i \in DOMAIN out /\ out'[i] = out[i]
      BY <1>2, <2>3, <3>2
    <3> QED BY <2>10, <3>2, <3>3 DEF Book
  <2>11. Cares'
    <3> SUFFICES ASSUME NEW m \in Marks, NEW f \in Open(m)', f.kind = "upserted", f.base = Revision(m)
                 PROVE  \/ Served(m) \subseteq {Plain}
                        \/ \E d \in Open(m)' : d.id < f.id /\ d.kind = "deleted" /\ d.base = Revision(m)
      BY <1>3 DEF Cares, Careful
    <3>1. PICK i \in DOMAIN out' : f = out'[i] /\ out'[i].mark = m /\ out'[i].id \notin taken
      BY DEF Open
    <3>2. CASE i = n
      <4>1. f = e /\ m = b.mark /\ b.base = Revision(m) /\ kind = "upserted"
        BY <1>2, <2>3, <3>1, <3>2
      <4>2. Served(m) \subseteq {Plain} \/ Undone(Open(m), Revision(m))
        BY <4>1
      <4>3. ASSUME NEW d \in Open(m) PROVE d.id < f.id
        BY <1>2, <2>4, <4>1 DEF Open
      <4> QED BY <2>6, <4>2, <4>3 DEF Undone
    <3>3. CASE i # n
      <4>1. f \in Open(m)
        BY <2>3, <3>1, <3>3 DEF Open
      <4>2. Careful(Open(m), Revision(m), Served(m))
        BY DEF Cares
      <4> QED BY <2>6, <4>1, <4>2 DEF Careful
    <3> QED BY <3>2, <3>3
  <2> QED BY <2>1, <2>5, <2>7, <2>8, <2>9, <2>10, <2>11
<1>7. CASE Replaces(b, kind, id)
  BY <1>3, <1>5, <1>7
<1>8. CASE Appends(b, kind, id)
  BY <1>3, <1>6, <1>8
<1> HIDE DEF e
<1> QED BY <1>4, <1>7, <1>8, QueuesIs DEF e
(* A bookmark whose upsert was queued. *)
LEMMA UpsertedFits ==
  ASSUME NEW b \in Bookmarks, b.stage # "queued", b.content = Plain, NEW id, NEW O, NEW O2, NEW r, NEW v,
         NEW S, NEW news, NEW deciders,
         More(O, O2), id # 0 => O2 # {},
         Fits({b}, O, r, v, S, news, deciders)
  PROVE  Fits({Upserted(b, id)}, O2, r, v, S, news, deciders)
<1> DEFINE c == Upserted(b, id)
<1>1. /\ c.content = Plain /\ c.base = b.base
      /\ (id = 0 => c.conflict = b.conflict /\ c.stage # "queued")
      /\ (id # 0 => c.stage = "queued")
  BY DEF Upserted, Named, Bookmarks
<1> HIDE DEF c
<1>2. Fits({b}, O2, r, v, S, news, deciders)
  BY FitsMore
<1>3. Says({c}) = {Plain} /\ Says({b}) = {Plain}
  BY <1>1 DEF Says
<1>4. Waits({c}, O2, r, v)
  BY <1>1, <1>2 DEF Fits, Waits
<1>5. deciders = {} => Says({c}) \subseteq {Plain} \cup v
  BY <1>3
<1>6. ASSUME r \notin S PROVE Stands({c}, O2, r, v, news) /\ Based({c}, O2, r, v)
  <2>1. Stands({b}, O2, r, v, news) /\ Based({b}, O2, r, v) /\ Waits({b}, O2, r, v)
    BY <1>2, <1>6 DEF Fits
  <2>2. Based({c}, O2, r, v)
    BY <1>1, <2>1 DEF Based
  <2>3. CASE id = 0
    BY <1>1, <1>3, <2>1, <2>2, <2>3 DEF Stands
  <2>4. CASE id # 0
    <3>1. CASE v = {}
      BY <2>2, <2>4, <3>1 DEF Stands
    <3>2. CASE v # {}
      <4>1. Undone(O2, r) \/ b.base = r
        BY <2>1, <3>2 DEF Based
      <4>2. Undone(O2, r) \/ v \subseteq {Plain}
        BY <2>1, <4>1 DEF Waits
      <4>3. Undone(O2, r) \/ Says({c}) = v
        BY <1>3, <3>2, <4>2
      <4> QED BY <2>2, <4>3 DEF Stands
    <3> QED BY <3>1, <3>2
  <2> QED BY <2>3, <2>4
<1> QED BY <1>4, <1>5, <1>6 DEF Fits, c

(* And what is known of it. *)
LEMMA UpsertedBook ==
  ASSUME TypeOK, NEW b \in Bookmarks, Book(b), b.stage # "queued", NEW id \in 0 .. MaxId,
         Queues(b, "upserted", id), log' = log,
         Book(b) => Book(b)',
         id # 0 => id = nextId /\ nextId' = nextId + 1,
         \A i \in DOMAIN out' : id # 0 /\ out'[i].id = id => out'[i] = EventOf(b, "upserted", id)
  PROVE  Book(Upserted(b, id))'
<1>1. PICK c : c = Upserted(b, id)
  OBVIOUS
<1>2. Book(b)'
  OBVIOUS
<1>3. CASE id = 0
  <2>1. /\ c.event = b.event /\ c.base = b.base /\ c.mark = b.mark /\ c.stage # "new" /\ c.stage # "queued"
    BY <1>1, <1>3 DEF Upserted, Named, Bookmarks
  <2>2. Book(c)'
    BY <1>2, <2>1 DEF Book
  <2> QED BY <1>1, <2>2
<1>4. CASE id # 0
  <2>1. /\ c.event = id /\ c.base = b.base /\ c.mark = b.mark /\ c.stage = "queued"
    BY <1>1, <1>4 DEF Upserted, Bookmarks
  <2>2. id < nextId'
    <3>1. nextId \in Nat
      BY BookmarkAssumption DEF TypeOK
    <3> QED BY <1>4, <3>1
  <2>3. \A i \in DOMAIN out' : out'[i].id = id => out'[i].mark = b.mark /\ out'[i].base = b.base
    BY <1>4 DEF EventOf
  <2>4. Book(c)'
    BY <1>2, <2>1, <2>2, <2>3 DEF Book
  <2> QED BY <1>1, <2>4
<1> QED BY <1>3, <1>4

(* The mail, when the reader queues. *)
LEMMA ReaderMail ==
  ASSUME MailInv, UNCHANGED <<log, paired, inbox, cursor, applied>>,
         pc' = "resolving" => applied' # {}, pc' # "deleting"
  PROVE  MailInv' /\ Remaining' = Remaining /\ Rest' = Rest
<1>1. Remaining' = Remaining /\ Rest' = Rest
  BY DEF Remaining, Rest
<1>2. Upper(Remaining)' /\ Upper(Rest)'
  BY <1>1 DEF MailInv, Upper
<1>3. MailInv'
  BY <1>2 DEF MailInv
<1> QED BY <1>1, <1>3

(* A bookmark without a fingerprint is queued, or stays for the next opening. *)
LEMMA UpsertSettled ==
  ASSUME TypeOK, SavedParts, SettledParts, NEW k, EnqueueUpsert(k)
  PROVE  SettledParts'
<1>1. PICK id \in 0 .. MaxId :
         /\ Queues(list[k], "upserted", id)
         /\ list' = [list EXCEPT ![k] = Upserted(list[k], id)]
  BY DEF EnqueueUpsert
<1>2. /\ pc = "queueing" /\ k \in todo /\ todo \subseteq DOMAIN list
      /\ pc' # "deleting" /\ (pc' = "resolving" => applied' # {})
      /\ UNCHANGED <<paired, card, inbox, cursor, log, taken, applied>>
  BY DEF EnqueueUpsert, Queued, mail, server, TypeOK
<1>3. /\ list \in Seq(Bookmarks) /\ card \in Seq(Bookmarks) /\ k \in DOMAIN list
      /\ \A j \in DOMAIN list : list[j] \in Bookmarks
      /\ \A j \in DOMAIN card : card[j] \in Bookmarks
  <2>1. list \in Seq(Bookmarks) /\ card \in Seq(Bookmarks)
    BY DEF TypeOK
  <2> QED BY <1>2, <2>1
<1>4. PICK b \in Bookmarks : b = list[k] /\ b.stage = "named"
  BY <1>2, <1>3 DEF SavedParts, Queueing
<1>5. PICK c : c = Upserted(b, id)
  OBVIOUS
<1>6. c \in Bookmarks /\ c.mark = b.mark
  BY <1>4, <1>5 DEF Upserted, Named, Bookmarks
<1>7. /\ DOMAIN list' = DOMAIN list /\ Copy(list, b.mark) = {b}
      /\ Alters(list, list', b.mark, {c})
      /\ list'[k] = c /\ \A j \in DOMAIN list : j # k => list'[j] = list[j]
  <2>1. list' = [list EXCEPT ![k] = c] /\ c.mark = list[k].mark /\ Unique(list)
    BY <1>1, <1>4, <1>5, <1>6 DEF SavedParts
  <2>2. /\ DOMAIN list' = DOMAIN list
        /\ Copy(list, c.mark) = {list[k]} /\ Alters(list, list', c.mark, {c})
    BY <1>3, <1>6, <2>1, ExceptCopies
  <2>3. list'[k] = c /\ \A j \in DOMAIN list : j # k => list'[j] = list[j]
    BY <1>3, <2>1
  <2> QED BY <1>4, <1>6, <2>2, <2>3
<1>8. b \in Copy(list, b.mark) /\ b.content = Plain /\ b.mark \in Marks
  BY <1>4, <1>7 DEF SavedParts, Local, Bookmarks
<1>9. /\ OutInv /\ Cares /\ LogInv /\ MailInv /\ Kept(card, Remaining) /\ Kept(list, Rest)
      /\ Books(card) /\ Books(list) /\ Book(b)
  BY <1>2, <1>3, <1>4 DEF SettledParts, Books
<1>10. b.base = Revision(b.mark) =>
          Served(b.mark) \subseteq {Plain} \/ Undone(Open(b.mark), Revision(b.mark))
  <2>1. Waits(Copy(list, b.mark), Open(b.mark), Revision(b.mark), Served(b.mark))
    BY <1>8, <1>9 DEF Kept, Fits
  <2> QED BY <1>4, <1>8, <2>1 DEF Waits
<1>11. b.event = 0 /\ Queues(b, "upserted", id)
  BY <1>1, <1>4, <1>9 DEF Book
<1>12. /\ OutInv' /\ Cares' /\ LogInv'
       /\ \A m : More(Open(m), Open(m)')
       /\ \A d \in Bookmarks : Book(d) => Book(d)'
       /\ id # 0 => EventOf(b, "upserted", id) \in Open(b.mark)'
       /\ id # 0 => id = nextId /\ nextId' = nextId + 1
       /\ \A i \in DOMAIN out' : id # 0 /\ out'[i].id = id => out'[i] = EventOf(b, "upserted", id)
  BY <1>2, <1>9, <1>10, <1>11, QueueSettled
<1>13. Book(c)'
  BY <1>2, <1>4, <1>5, <1>9, <1>11, <1>12, UpsertedBook
<1>14. Books(card)' /\ Books(list)'
  <2>1. Books(card)'
    BY <1>2, <1>3, <1>9, <1>12 DEF Books
  <2>2. ASSUME NEW j \in DOMAIN list' PROVE Book(list[j])'
    <3>1. CASE j = k
      BY <1>7, <1>13, <3>1
    <3>2. CASE j # k
      <4>1. Book(list[j]) /\ list[j] \in Bookmarks /\ list'[j] = list[j]
        BY <1>3, <1>7, <1>9, <3>2 DEF Books
      <4>2. PICK d \in Bookmarks : d = list[j]
        BY <4>1
      <4> QED BY <1>12, <4>1, <4>2
    <3> QED BY <3>1, <3>2
  <2> QED BY <2>1, <2>2 DEF Books
<1>15. MailInv' /\ Remaining' = Remaining /\ Rest' = Rest
  BY <1>2, <1>9, ReaderMail
<1>16. Kept(card, Remaining)'
  BY <1>2, <1>9, <1>12, <1>15, CardMore
<1>17. Kept(list, Rest)'
  <2>1. ASSUME NEW m \in Marks
        PROVE  Fits(Copy(list', m), Open(m)', Revision(m), Served(m), Rest, News(Rest, m), Deciders(Rest, m))
    <3>1. Fits(Copy(list, m), Open(m), Revision(m), Served(m), Rest, News(Rest, m), Deciders(Rest, m))
      BY <1>9 DEF Kept
    <3>2. More(Open(m), Open(m)')
      BY <1>12
    <3>3. CASE m = b.mark
      <4>1. Copy(list, m) = {b} /\ Copy(list', m) = {c}
        BY <1>7, <3>3 DEF Alters
      <4>2. id # 0 => Open(m)' # {}
        BY <1>12, <3>3
      <4>3. Fits({Upserted(b, id)}, Open(m)', Revision(m), Served(m), Rest, News(Rest, m), Deciders(Rest, m))
        BY <1>4, <1>8, <3>1, <3>2, <4>1, <4>2, UpsertedFits
      <4> QED BY <1>5, <4>1, <4>3
    <3>4. CASE m # b.mark
      <4>1. Copy(list', m) = Copy(list, m)
        BY <1>7, <3>4 DEF Alters
      <4>2. Fits(Copy(list, m), Open(m)', Revision(m), Served(m), Rest, News(Rest, m), Deciders(Rest, m))
        BY <3>1, <3>2, FitsMore
      <4> QED BY <4>1, <4>2
    <3> QED BY <3>3, <3>4
  <2> QED BY <1>2, <1>15, <2>1, KeptList
<1> QED BY <1>12, <1>14, <1>15, <1>16, <1>17 DEF SettledParts
(* A new bookmark where there was none: it was not shown by the server either,
   or what it showed is about to be deleted. *)
LEMMA AddedFits ==
  ASSUME NEW b, b.content = Plain, NEW O, NEW O2, NEW r, NEW v, NEW S, NEW news, NEW deciders,
         b.base = 0, r = 0 => v = {}, b.stage # "queued" \/ O2 # {},
         More(O, O2),
         Fits({}, O, r, v, S, news, deciders)
  PROVE  Fits({b}, O2, r, v, S, news, deciders)
<1>1. Fits({}, O2, r, v, S, news, deciders)
  BY FitsMore
<1>2. Says({b}) = {Plain} /\ Says({}) = {}
  BY DEF Says
<1>3. Waits({b}, O2, r, v)
  BY DEF Waits
<1>4. ASSUME r \notin S PROVE Stands({b}, O2, r, v, news) /\ Based({b}, O2, r, v)
  <2>1. Undone(O2, r) \/ v = {}
    BY <1>1, <1>2, <1>4 DEF Fits, Stands
  <2> QED BY <2>1 DEF Stands, Based
<1> QED BY <1>2, <1>3, <1>4 DEF Fits

(* A bookmark is added where there was none. *)
LEMMA AddSettled ==
  ASSUME TypeOK, SavedParts, SettledParts, NEW m \in Marks, AddBookmark(m)
  PROVE  SettledParts'
<1>1. PICK fresh :
         fresh = [mark |-> m, content |-> Plain, stage |-> "new", event |-> 0, base |-> 0, conflict |-> FALSE]
  OBVIOUS
<1>2. /\ pc = "open" /\ pc' = "saving" /\ Matching(m) = {}
      /\ UNCHANGED <<paired, card, inbox, cursor, log, taken, applied, todo, doomed>>
  BY DEF AddBookmark, mail, server, loop
<1>3. /\ list \in Seq(Bookmarks) /\ card \in Seq(Bookmarks)
      /\ \A j \in DOMAIN list : list[j] \in Bookmarks
      /\ \A j \in DOMAIN card : card[j] \in Bookmarks
  <2>1. list \in Seq(Bookmarks) /\ card \in Seq(Bookmarks)
    BY DEF TypeOK
  <2> QED BY <2>1
<1>4. /\ fresh \in Bookmarks /\ fresh.mark = m /\ fresh.content = Plain /\ fresh.event = 0
      /\ fresh.stage = "new" /\ fresh.base = 0
  BY <1>1, BookmarkAssumption DEF Bookmarks
<1>5a. PICK id \in 0 .. MaxId :
          /\ Queues(fresh, "upserted", id)
          /\ \E c : /\ c = Upserted(fresh, id) \/ (c = fresh /\ id = 0)
                   /\ list' = <<c>> \o list
  <2>1. \/ list' = <<fresh>> \o list /\ UNCHANGED outbox
        \/ \E id \in 0 .. MaxId :
              /\ Queues(fresh, "upserted", id)
              /\ list' = <<Upserted(fresh, id)>> \o list
    BY <1>1 DEF AddBookmark
  <2>2. UNCHANGED outbox => Queues(fresh, "upserted", 0) /\ 0 \in 0 .. MaxId
    BY BookmarkAssumption DEF Queues
  <2> QED BY <2>1, <2>2
<1>5. PICK c :
         /\ Queues(fresh, "upserted", id)
         /\ c = Upserted(fresh, id) \/ (c = fresh /\ id = 0)
         /\ list' = <<c>> \o list
  BY <1>5a
<1>6. /\ c \in Bookmarks /\ c.mark = m /\ c.content = Plain /\ c.base = 0
      /\ (c.stage = "queued" => id # 0)
  <2>1. CASE c = fresh /\ id = 0
    BY <1>4, <2>1
  <2>2. CASE c = [fresh EXCEPT !.stage = "named"] /\ id = 0
    BY <1>4, <2>2 DEF Bookmarks
  <2>3. CASE c = [fresh EXCEPT !.stage = "queued", !.event = id, !.conflict = FALSE] /\ id # 0
    BY <1>4, <2>3 DEF Bookmarks
  <2> QED BY <1>4, <1>5, <2>1, <2>2, <2>3 DEF Upserted, Named
<1>7. /\ Copy(list, m) = {} /\ Alters(list, list', m, {c})
  <2>1. Copy(list, m) = {} /\ Unique(list)
    BY <1>2 DEF Matching, Copy, SavedParts
  <2> QED BY <1>3, <1>5, <1>6, <2>1, FrontCopies
<1>8. /\ OutInv /\ Cares /\ LogInv /\ MailInv /\ Kept(card, Remaining) /\ Kept(list, Rest)
      /\ Books(card) /\ Books(list)
  BY <1>2 DEF SettledParts
<1>9. Revision(m) = 0 => Served(m) = {}
  BY DEF Served
<1>10. Book(fresh)
  <2>1. 0 < nextId /\ 0 <= Len(log)
    BY BookmarkAssumption DEF TypeOK
  <2>2. \A k \in DOMAIN out : out[k].id # 0
    <3>1. \A k \in DOMAIN out : out[k] \in Events
      BY DEF TypeOK
    <3>2. \A e \in Events : e.id # 0
      BY BookmarkAssumption DEF Events
    <3> QED BY <3>1, <3>2
  <2> QED BY <1>4, <2>1, <2>2 DEF Book
<1>11. /\ OutInv' /\ Cares' /\ LogInv'
       /\ \A x : More(Open(x), Open(x)')
       /\ \A d \in Bookmarks : Book(d) => Book(d)'
       /\ id # 0 => EventOf(fresh, "upserted", id) \in Open(m)'
       /\ id # 0 => id = nextId /\ nextId' = nextId + 1
       /\ \A i \in DOMAIN out' : id # 0 /\ out'[i].id = id => out'[i] = EventOf(fresh, "upserted", id)
  <2>1. fresh.base = Revision(fresh.mark) =>
          Served(fresh.mark) \subseteq {Plain} \/ Undone(Open(fresh.mark), Revision(fresh.mark))
    BY <1>4, <1>9
  <2> QED BY <1>2, <1>4, <1>5, <1>8, <1>10, <2>1, QueueSettled
<1>12. Book(c)'
  <2>1. Book(Upserted(fresh, id))'
    BY <1>2, <1>4, <1>5, <1>10, <1>11, UpsertedBook
  <2>2. Book(fresh)'
    BY <1>4, <1>10, <1>11
  <2> QED BY <1>5, <2>1, <2>2
<1>13. Books(card)' /\ Books(list)'
  <2>1. Books(card)'
    BY <1>2, <1>3, <1>8, <1>11 DEF Books
  <2>2. ASSUME NEW j \in DOMAIN list' PROVE Book(list[j])'
    <3>1. list'[j] = c \/ \E i \in DOMAIN list : list'[j] = list[i]
      <4>1. /\ DOMAIN list = 1 .. Len(list) /\ Len(list) \in Nat /\ DOMAIN list' = 1 .. Len(list) + 1
            /\ \A i \in 1 .. Len(list) + 1 : list'[i] = IF i = 1 THEN c ELSE list[i - 1]
        BY <1>3, <1>5, <1>6
      <4>2. CASE j = 1
        BY <4>1, <4>2
      <4>3. CASE j # 1
        <5>1. j - 1 \in DOMAIN list /\ list'[j] = list[j - 1]
          BY <4>1, <4>3
        <5> QED BY <5>1
      <4> QED BY <4>2, <4>3
    <3>2. ASSUME NEW i \in DOMAIN list, list'[j] = list[i] PROVE Book(list[j])'
      <4>1. PICK d \in Bookmarks : d = list[i] /\ Book(d)
        BY <1>3, <1>8 DEF Books
      <4>2. Book(d)'
        BY <1>11, <4>1
      <4> QED BY <3>2, <4>1, <4>2
    <3> QED BY <1>12, <3>1, <3>2
  <2> QED BY <2>1, <2>2 DEF Books
<1>14. MailInv' /\ Remaining' = Remaining /\ Rest' = Rest
  BY <1>2, <1>8, ReaderMail
<1>15. Kept(card, Remaining)'
  BY <1>2, <1>8, <1>11, <1>14, CardMore
<1>16. Kept(list, Rest)'
  <2>1. ASSUME NEW x \in Marks
        PROVE  Fits(Copy(list', x), Open(x)', Revision(x), Served(x), Rest, News(Rest, x), Deciders(Rest, x))
    <3>1. Fits(Copy(list, x), Open(x), Revision(x), Served(x), Rest, News(Rest, x), Deciders(Rest, x))
      BY <1>8 DEF Kept
    <3>2. More(Open(x), Open(x)')
      BY <1>11
    <3>3. CASE x = m
      <4>1. Copy(list, x) = {} /\ Copy(list', x) = {c}
        BY <1>7, <3>3 DEF Alters
      <4>2. c.stage # "queued" \/ Open(x)' # {}
        BY <1>6, <1>11, <3>3
      <4>3. Revision(x) = 0 => Served(x) = {}
        BY <1>9, <3>3
      <4> QED BY <1>6, <3>1, <3>2, <4>1, <4>2, <4>3, AddedFits
    <3>4. CASE x # m
      <4>1. Copy(list', x) = Copy(list, x)
        BY <1>7, <3>4 DEF Alters
      <4>2. Fits(Copy(list, x), Open(x)', Revision(x), Served(x), Rest, News(Rest, x), Deciders(Rest, x))
        BY <3>1, <3>2, FitsMore
      <4> QED BY <4>1, <4>2
    <3> QED BY <3>3, <3>4
  <2> QED BY <1>2, <1>14, <2>1, KeptList
<1> QED BY <1>11, <1>13, <1>14, <1>15, <1>16 DEF SettledParts

(* A deletion begins: there is one bookmark of a mark at most. *)
LEMMA DeleteSettled ==
  ASSUME TypeOK, SavedParts, SettledParts, NEW ks, DeleteBookmarks(ks)
  PROVE  SettledParts'
<1>1. /\ UNCHANGED <<paired, card, list, out, sent, nextId, inbox, cursor, log, taken, applied>>
      /\ pc = "open" /\ pc' = "deleting" /\ todo' = ks /\ doomed' = ks /\ ks # {}
      /\ \E m \in Marks : ks = Matching(m) \/ \E k \in Matching(m) : ks = {k}
  BY DEF DeleteBookmarks, outbox, mail, server
<1>2. \E k \in ks : ks = {k}
  <2>1. PICK m \in Marks : ks = Matching(m) \/ \E k \in Matching(m) : ks = {k}
    BY <1>1
  <2>2. \A i, j \in Matching(m) : i = j
    BY DEF Matching, SavedParts, Unique
  <2> QED BY <1>1, <2>1, <2>2
<1>3. Remaining' = Remaining /\ Rest' = Rest
  BY <1>1 DEF Remaining, Rest
<1>4. MailInv'
  <2>1. Upper(Remaining)' /\ Upper(Rest)'
    BY <1>1, <1>3 DEF SettledParts, MailInv, Upper
  <2> QED BY <1>1, <1>2, <2>1 DEF SettledParts, MailInv
<1>5. Kept(card, Remaining) /\ Kept(list, Rest) /\ Books(list)
  BY <1>1 DEF SettledParts
<1> QED BY <1>1, <1>3, <1>4, <1>5, ReaderSettled
(* A bookmark is gone: its deletion was queued, or the server does not show it. *)
LEMMA GoneFits ==
  ASSUME NEW b, NEW O, NEW O2, NEW r, NEW v, NEW S, NEW news, NEW deciders,
         More(O, O2), r \notin S => v = {} \/ (b.base = r => Undone(O2, r)),
         Fits({b}, O, r, v, S, news, deciders)
  PROVE  Fits({}, O2, r, v, S, news, deciders)
<1>1. Fits({b}, O2, r, v, S, news, deciders)
  BY FitsMore
<1>2. Says({}) = {}
  BY DEF Says
<1>3. Waits({}, O2, r, v) /\ Based({}, O2, r, v)
  BY DEF Waits, Based
<1>4. ASSUME r \notin S PROVE Stands({}, O2, r, v, news)
  <2>1. v # {} => Undone(O2, r) \/ b.base = r
    BY <1>1, <1>4 DEF Fits, Based
  <2>2. v = {} \/ Undone(O2, r)
    BY <1>4, <2>1
  <2> QED BY <1>2, <2>2 DEF Stands
<1> QED BY <1>2, <1>3, <1>4 DEF Fits

(* A bookmark is erased after its deletion was queued, or when none is due. *)
LEMMA EraseSettled ==
  ASSUME TypeOK, TypeInv, SavedParts, SettledParts, NEW k, EnqueueDelete(k)
  PROVE  SettledParts'
<1>1. /\ pc = "deleting" /\ k \in todo
      /\ UNCHANGED <<paired, card, inbox, cursor, log, taken, applied>>
      /\ todo' = todo \ {k}
  BY DEF EnqueueDelete, mail, server
<1>2. /\ OutInv /\ Cares /\ LogInv /\ MailInv /\ Kept(card, Remaining) /\ Kept(list, Rest)
      /\ Books(card) /\ Books(list) /\ Unique(list)
  BY <1>1 DEF SettledParts, SavedParts
<1>3. todo = {k} /\ doomed = {k} /\ todo' = {}
  BY <1>1, <1>2 DEF MailInv
<1>4. /\ list \in Seq(Bookmarks) /\ card \in Seq(Bookmarks) /\ k \in DOMAIN list
      /\ \A j \in DOMAIN list : list[j] \in Bookmarks
      /\ \A j \in DOMAIN card : card[j] \in Bookmarks
  <2>1. list \in Seq(Bookmarks) /\ card \in Seq(Bookmarks) /\ todo \subseteq DOMAIN list
    BY DEF TypeOK
  <2> QED BY <1>3, <2>1
<1>5. PICK b \in Bookmarks : b = list[k] /\ Book(b)
  BY <1>2, <1>4 DEF Books
<1>6. PICK id \in 0 .. MaxId, erase \in {{}, {k}} :
         /\ Queues(b, "deleted", id)
         /\ \/ (~paired \/ b.stage = "new") /\ erase = {k} /\ id = 0
            \/ erase = IF id = 0 THEN {} ELSE {k}
         /\ list' = Without(erase)
         /\ pc' = IF erase = {} THEN "open" ELSE "saving"
  <2>1. PICK erase \in {{}, doomed} :
          /\ IF ~paired \/ list[k].stage = "new"
             THEN erase = doomed /\ UNCHANGED outbox
             ELSE \E id \in 0 .. MaxId : Queues(list[k], "deleted", id) /\ erase = StillToErase(id)
          /\ list' = Without(erase)
          /\ pc' = IF erase = {} THEN "open" ELSE "saving"
    BY <1>3 DEF EnqueueDelete
  <2>2. CASE ~paired \/ b.stage = "new"
    <3>1. erase = {k} /\ UNCHANGED outbox
      BY <1>3, <1>5, <2>1, <2>2
    <3>2. Queues(b, "deleted", 0) /\ 0 \in 0 .. MaxId
      BY <3>1, BookmarkAssumption DEF Queues
    <3> QED BY <2>1, <2>2, <3>1, <3>2
  <2>3. CASE ~(~paired \/ b.stage = "new")
    <3>1. PICK id \in 0 .. MaxId : Queues(b, "deleted", id) /\ erase = StillToErase(id)
      BY <1>5, <2>1, <2>3
    <3>2. erase = IF id = 0 THEN {} ELSE {k}
      BY <1>3, <3>1 DEF StillToErase
    <3> QED BY <2>1, <3>1, <3>2
  <2> QED BY <2>2, <2>3
<1>7. /\ OutInv' /\ Cares' /\ LogInv'
      /\ \A x : More(Open(x), Open(x)')
      /\ \A d \in Bookmarks : Book(d) => Book(d)'
      /\ id # 0 => EventOf(b, "deleted", id) \in Open(b.mark)'
  BY <1>1, <1>2, <1>5, <1>6, QueueSettled
<1>8. \A m : Copy(list', m) = {list[i] : i \in {j \in DOMAIN list : j \notin erase /\ list[j].mark = m}}
  BY <1>4, <1>6, WithoutCopies
<1>9. ASSUME NEW m PROVE Copy(list', m) = IF m = b.mark /\ erase = {k} THEN {} ELSE Copy(list, m)
  <2>1. CASE erase = {}
    BY <1>8, <2>1 DEF Copy
  <2>2. CASE erase = {k} /\ m = b.mark
    <3>1. \A j \in DOMAIN list : list[j].mark = m => j = k
      BY <1>2, <1>4, <1>5, <2>2 DEF Unique
    <3>2. {j \in DOMAIN list : j \notin erase /\ list[j].mark = m} = {}
      BY <2>2, <3>1
    <3> QED BY <1>8, <2>2, <3>2
  <2>3. CASE erase = {k} /\ m # b.mark
    <3>1. {j \in DOMAIN list : j \notin erase /\ list[j].mark = m} = {j \in DOMAIN list : list[j].mark = m}
      BY <1>5, <2>3
    <3> QED BY <1>8, <2>3, <3>1 DEF Copy
  <2> QED BY <1>6, <2>1, <2>2, <2>3
<1>10. Copy(list, b.mark) = {b} /\ b.mark \in Marks
  <2>1. \A j \in DOMAIN list : list[j].mark = b.mark <=> j = k
    BY <1>2, <1>4, <1>5 DEF Unique
  <2> QED BY <1>4, <1>5, <2>1 DEF Copy, Bookmarks
<1>11. Books(card)' /\ Books(list)'
  <2>1. Books(card)'
    BY <1>1, <1>2, <1>4, <1>7 DEF Books
  <2>2. ASSUME NEW j \in DOMAIN list' PROVE Book(list[j])'
    <3>1. PICK x : x = list'[j].mark
      OBVIOUS
    <3>2. list'[j] \in Copy(list', x)
      BY <3>1 DEF Copy
    <3>3. PICK i \in DOMAIN list : list'[j] = list[i]
      BY <1>8, <3>2
    <3>4. PICK d \in Bookmarks : d = list[i] /\ Book(d)
      BY <1>2, <1>4 DEF Books
    <3>5. Book(d)'
      BY <1>7, <3>4
    <3> QED BY <3>3, <3>4, <3>5
  <2> QED BY <2>1, <2>2 DEF Books
<1>12. MailInv' /\ Remaining' = Remaining /\ Rest' = Rest
  BY <1>1, <1>2, <1>6, ReaderMail
<1>13. Kept(card, Remaining)'
  BY <1>1, <1>2, <1>7, <1>12, CardMore
<1>14. ASSUME erase = {k}, Revision(b.mark) \notin Rest
       PROVE  \/ Served(b.mark) = {}
              \/ b.base = Revision(b.mark) => Undone(Open(b.mark)', Revision(b.mark))
  <2>1. Revision(b.mark) = 0 => Served(b.mark) = {}
    BY DEF Served
  <2>2. CASE id # 0
    <3>1. EventOf(b, "deleted", id) \in Open(b.mark)'
      BY <1>7, <2>2
    <3>2. EventOf(b, "deleted", id).kind = "deleted" /\ EventOf(b, "deleted", id).base = b.base
      BY DEF EventOf
    <3>3. b.base = Revision(b.mark) => Undone(Open(b.mark)', Revision(b.mark))
      BY <3>1, <3>2 DEF Undone
    <3> QED BY <3>3
  <2>3. CASE b.stage = "new"
    BY <1>5, <2>1, <2>3 DEF Book
  <2>4. CASE ~paired
    <3>1. applied = {}
      BY <1>1 DEF SavedParts, Resolvable, Busy
    <3>2. cursor = 0 /\ inbox = {} /\ Rest = Remaining
      BY <1>2, <2>4, <3>1 DEF MailInv, Rest
    <3>3. \A i \in 1 .. Len(log) : i \in Rest
      BY <3>2 DEF Remaining
    <3>4. Revision(b.mark) \in 0 .. Len(log)
      <4>1. log \in Seq(Annotations)
        BY DEF TypeOK
      <4> QED BY <4>1, RevisionIs
    <3>5. Revision(b.mark) = 0
      <4>1. Len(log) \in Nat
        BY DEF TypeOK
      <4> QED BY <1>14, <3>3, <3>4, <4>1
    <3> QED BY <2>1, <3>5
  <2> QED BY <1>4, <1>6, <1>14, <2>2, <2>3, <2>4
<1>15. Kept(list, Rest)'
  <2>1. ASSUME NEW x \in Marks
        PROVE  Fits(Copy(list', x), Open(x)', Revision(x), Served(x), Rest, News(Rest, x), Deciders(Rest, x))
    <3>1. Fits(Copy(list, x), Open(x), Revision(x), Served(x), Rest, News(Rest, x), Deciders(Rest, x))
      BY <1>2 DEF Kept
    <3>2. More(Open(x), Open(x)')
      BY <1>7
    <3>3. CASE x = b.mark /\ erase = {k}
      <4>1. Copy(list, x) = {b} /\ Copy(list', x) = {}
        BY <1>9, <1>10, <3>3
      <4>2. Revision(x) \notin Rest => Served(x) = {} \/ (b.base = Revision(x) => Undone(Open(x)', Revision(x)))
        BY <1>14, <3>3
      <4> QED BY <3>1, <3>2, <4>1, <4>2, GoneFits
    <3>4. CASE ~(x = b.mark /\ erase = {k})
      <4>1. Copy(list', x) = Copy(list, x)
        BY <1>9, <3>4
      <4>2. Fits(Copy(list, x), Open(x)', Revision(x), Served(x), Rest, News(Rest, x), Deciders(Rest, x))
        BY <3>1, <3>2, FitsMore
      <4> QED BY <4>1, <4>2
    <3> QED BY <3>3, <3>4
  <2> QED BY <1>1, <1>12, <2>1, KeptList
<1> QED BY <1>7, <1>11, <1>12, <1>13, <1>15 DEF SettledParts

(* The inductive invariant. *)
LEMMA SettledStep == SettledInv /\ [Next]_vars => SettledInv'
<1> SUFFICES ASSUME SettledInv, [Next]_vars PROVE SettledInv'
  OBVIOUS
<1>1. SavedInv /\ SavedInv' /\ TypeInv
  BY SavedStep DEF SettledInv, SavedInv
<1> SUFFICES ASSUME rare' = {} PROVE SettledParts'
  BY <1>1 DEF SettledInv
<1>2. rare = {}
  BY <1>1, RareGrows
<1>3. SavedParts /\ SettledParts /\ TypeOK /\ TypeOK'
  BY <1>1, <1>2 DEF SettledInv, SavedInv, Usual, TypeInv
<1>4. ASSUME NEW m \in Marks, NEW c \in Contents, NEW kind \in {"upserted", "deleted"}, Remote(m, kind, c)
      PROVE  SettledParts'
  BY <1>3, <1>4, RemoteSettled
<1>5. ASSUME NEW m \in Marks, Remote(m, "strange", Plain) PROVE SettledParts'
  BY <1>5 DEF Remote, Happen
<1>6. ASSUME NEW k, ServerTakes(k) PROVE SettledParts'
  BY <1>3, <1>6, TakesSettled
<1>7. ASSUME NEW k, MarkAttempted(k) \/ Pair PROVE SettledParts'
  BY <1>3, <1>7, AttemptSettled
<1>8. ASSUME NEW k, RetireAcknowledged(k) PROVE SettledParts'
  BY <1>3, <1>8, RetireSettled
<1>9. ASSUME NEW n, DeferPulled(n) PROVE SettledParts'
  BY <1>3, <1>9, DeferSettled
<1>10. ASSUME Load PROVE SettledParts'
  BY <1>3, <1>10, LoadSettled
<1>11. ASSUME LoadOnly PROVE SettledParts'
  BY <1>3, <1>11, LoadOnlySettled
<1>12. ASSUME NEW k, EnqueueUpsert(k) PROVE SettledParts'
  BY <1>3, <1>12, UpsertSettled
<1>13. ASSUME Save PROVE SettledParts'
  BY <1>3, <1>13, SaveSettled
<1>14. ASSUME ResolveInbox PROVE SettledParts'
  BY <1>3, <1>14, ResolveSettled
<1>15. ASSUME Close \/ PowerLoss PROVE SettledParts'
  BY <1>3, <1>15, CloseSettled
<1>16. ASSUME NEW m \in Marks, AddBookmark(m) PROVE SettledParts'
  BY <1>3, <1>16, AddSettled
<1>17. ASSUME NEW ks, DeleteBookmarks(ks) PROVE SettledParts'
  BY <1>3, <1>17, DeleteSettled
<1>18. ASSUME NEW k, EnqueueDelete(k) PROVE SettledParts'
  BY <1>1, <1>3, <1>18, EraseSettled
<1>19. ASSUME NEW k, ServerRefuses(k) PROVE SettledParts'
  BY <1>19 DEF ServerRefuses, Happen
<1>20. CASE UNCHANGED vars
  <2>1. /\ UNCHANGED <<paired, card, list, out, sent, nextId, inbox, cursor, log, taken, pc, todo, doomed, applied>>
    BY <1>20 DEF vars, outbox, mail, server, loop
  <2>2. Remaining' = Remaining /\ Rest' = Rest
    BY <2>1 DEF Remaining, Rest
  <2>3. MailInv'
    <3>1. Upper(Remaining)' /\ Upper(Rest)'
      BY <1>3, <2>1, <2>2 DEF SettledParts, MailInv, Upper
    <3> QED BY <1>3, <2>1, <3>1 DEF SettledParts, MailInv
  <2>4. Kept(card, Remaining) /\ (pc' # "closed" => Kept(list, Rest)) /\ Books(list)
    BY <1>3, <2>1 DEF SettledParts
  <2> QED BY <1>3, <2>1, <2>2, <2>3, <2>4, ReaderSettled
<1> QED
  BY <1>4, <1>5, <1>6, <1>7, <1>8, <1>9, <1>10, <1>11, <1>12, <1>13, <1>14, <1>15, <1>16, <1>17,
     <1>18, <1>19, <1>20, BookmarkAssumption DEF Next

(* At the start device and server agree that there is nothing. *)
LEMMA SettledInit == Init => SettledInv
<1> SUFFICES ASSUME Init PROVE SettledInv
  OBVIOUS
<1>1. SavedInv
  BY SavedInit
<1>2. /\ paired = FALSE /\ card = <<>> /\ list = <<>> /\ out = <<>> /\ taken = {} /\ log = <<>>
      /\ pc = "closed" /\ applied = {} /\ cursor = 0 /\ inbox = {}
  BY DEF Init
<1>3. DOMAIN card = {} /\ DOMAIN list = {} /\ DOMAIN out = {} /\ DOMAIN log = {} /\ Len(log) = 0
  BY <1>2
<1>4. LogInv /\ OutInv /\ Books(card) /\ Books(list)
  BY <1>2, <1>3 DEF LogInv, OutInv, Books
<1>5. Remaining = {} /\ Rest = {}
  BY <1>2, <1>3 DEF Remaining, Rest
<1>6. MailInv
  BY <1>2, <1>3, <1>5 DEF MailInv, Upper
<1>7. ASSUME NEW m PROVE Revision(m) = 0 /\ Served(m) = {} /\ Open(m) = {} /\ Copy(card, m) = {}
  <2>1. Revision(m) = 0
    BY <1>3 DEF Revision
  <2>2. Open(m) = {} /\ Copy(card, m) = {}
    BY <1>3 DEF Open, Copy
  <2> QED BY <2>1, <2>2 DEF Served
<1>8. Cares
  BY <1>7 DEF Cares, Careful
<1>9. Kept(card, Remaining)
  <2> SUFFICES ASSUME NEW m \in Marks
               PROVE  Fits(Copy(card, m), Open(m), Revision(m), Served(m), Remaining,
                           News(Remaining, m), Deciders(Remaining, m))
    BY DEF Kept
  <2>1. Fits({}, {}, 0, {}, {}, News(Remaining, m), Deciders(Remaining, m))
    BY DEF Fits, Says, Stands, Based, Waits
  <2> QED BY <1>5, <1>7, <2>1
<1> QED BY <1>1, <1>2, <1>4, <1>6, <1>8, <1>9 DEF SettledInv, SettledParts

(* Once everything is delivered, pulled and applied, the device shows what the
   server has, or shows a conflict. *)
THEOREM SettledSame == Spec => []SettledMeansSame
<1>1. SettledInv => SettledMeansSame
  <2> SUFFICES ASSUME SettledInv, Settled, rare = {}, NEW m \in Marks, ~Flagged(m)
               PROVE  Shown(card, m) = Served(m)
    BY DEF SettledMeansSame
  <2>1. SettledParts /\ SavedParts
    BY DEF SettledInv, SavedInv, Usual
  <2>2. Open(m) = {}
    BY DEF Settled, Open
  <2>3. Remaining = {}
    <3>1. Len(log) \in Nat
      BY DEF SettledInv, SavedInv, TypeInv, TypeOK
    <3> QED BY <3>1 DEF Settled, Remaining
  <2>4. Fits(Copy(card, m), Open(m), Revision(m), Served(m), Remaining,
             News(Remaining, m), Deciders(Remaining, m))
    BY <2>1 DEF SettledParts, Kept
  <2>5. News(Remaining, m) = {}
    BY <2>3 DEF News
  <2>6. Stands(Copy(card, m), {}, Revision(m), Served(m), {})
    BY <2>2, <2>3, <2>4, <2>5 DEF Fits
  <2>7. \A b \in Copy(card, m) : b.stage = "queued" /\ ~b.conflict
    BY DEF Copy, Settled, Flagged
  <2>8. Says(Copy(card, m)) = Served(m)
    BY <2>6, <2>7 DEF Stands, Undone
  <2> QED BY <2>8, ShownIs
<1> QED BY SettledInit, SettledStep, <1>1, PTL DEF Spec
=============================================================================
