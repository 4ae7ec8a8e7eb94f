-------------------------- MODULE KeyboardProofs --------------------------
(***************************************************************************)
(* For any keyboards, keys and key codes: the presses and releases a       *)
(* program is told add up to the driver's last report, and to the keys     *)
(* that are down as long as the reports are the whole truth.               *)
(***************************************************************************)
EXTENDS Keyboard, SequenceTheorems, FiniteSetTheorems, WellFoundedInduction, TLAPS

-----------------------------------------------------------------------------
(* Numbers: a set of them has a least one. *)

\* The order of the numbers as the library has it.
LEMMA LessThan == OpToRel(<, Nat) = {ss \in Nat \X Nat : ss[1] < ss[2]}
BY DEF OpToRel

\* A set of numbers that is not empty has a least one.
LEMMA LeastNumber ==
    ASSUME NEW S \in SUBSET Nat, S # {}
    PROVE  \E m \in S : \A k \in S : m <= k
<1>1. IsWellFoundedOn({ss \in Nat \X Nat : ss[1] < ss[2]}, Nat)
  BY NatLessThanWellFounded, LessThan, Zenon
<1>2. PICK m \in S : \A k \in S : ~(<<k, m>> \in {ss \in Nat \X Nat : ss[1] < ss[2]})
  BY <1>1, WFMin, Zenon
<1>3. ASSUME NEW k \in S, k < m
      PROVE  FALSE
  <2>1. <<k, m>> \in {ss \in Nat \X Nat : ss[1] < ss[2]}
    BY <1>3
  <2> QED
    BY <1>2, <2>1
<1> QED
  BY <1>3

\* A set that has 0 and with each number below n the next one has all up to n.
LEMMA UpTo ==
    ASSUME NEW n \in Nat, NEW S, 0 \in S,
           \A k \in 1..n : k - 1 \in S => k \in S
    PROVE  0..n \subseteq S
<1> DEFINE B == {k \in 0..n : k \notin S}
<1>1. ASSUME B # {} PROVE FALSE
  <2>1. PICK m \in B : \A k \in B : m <= k
    <3>1. B \in SUBSET Nat
      OBVIOUS
    <3> HIDE DEF B
    <3> QED
      BY <1>1, <3>1, LeastNumber
  <2>2. m \in 1..n /\ m - 1 \in 0..n /\ m - 1 < m
    BY <2>1
  <2>3. m - 1 \in S
    BY <2>1, <2>2
  <2> QED
    BY <2>1, <2>2, <2>3
<1> QED
  BY <1>1

-----------------------------------------------------------------------------
(* Counting *)

Event == [type : {"key", "key_up", "char", "terminate"}, code : Nat, flag : BOOLEAN]

\* The events CountOf counts.
Counts(e, type, c) == e.type = type /\ e.code = c /\ ~ e.flag
Counted(evs, type, c) == {i \in DOMAIN evs : Counts(evs[i], type, c)}

\* CountOf is the size of a finite set.
LEMMA CountIs ==
    ASSUME NEW evs \in Seq(Event), NEW type, NEW c
    PROVE  /\ IsFiniteSet(Counted(evs, type, c))
           /\ Cardinality(Counted(evs, type, c)) \in Nat
           /\ CountOf(evs, type, c) = Cardinality(Counted(evs, type, c))
<1>1. Counted(evs, type, c) \in SUBSET (1..Len(evs)) /\ Len(evs) \in Nat
  BY DEF Counted
<1>2. IsFiniteSet(1..Len(evs))
  BY <1>1, FS_Interval
<1>3. IsFiniteSet(Counted(evs, type, c))
  BY <1>1, <1>2, FS_Subset
<1> QED
  BY <1>3, FS_CardinalityType DEF CountOf, Counted, Counts

\* The events of two sequences are counted one after the other.
LEMMA CountBoth ==
    ASSUME NEW s \in Seq(Event), NEW t \in Seq(Event), NEW type, NEW c
    PROVE  /\ s \o t \in Seq(Event)
           /\ CountOf(s \o t, type, c) = CountOf(s, type, c) + CountOf(t, type, c)
<1> DEFINE A == Counted(s, type, c)
           B == Counted(t, type, c)
           U == Counted(s \o t, type, c)
           M == {Len(s) + j : j \in B}
           f == [j \in B |-> Len(s) + j]
<1>1. s \o t \in Seq(Event)
  OBVIOUS
<1>2. A \subseteq 1..Len(s) /\ B \subseteq 1..Len(t) /\ Len(s) \in Nat /\ Len(t) \in Nat
  BY DEF Counted
<1>3. IsFiniteSet(M) /\ Cardinality(M) = Cardinality(B)
  <2>1. IsFiniteSet(B)
    BY CountIs
  <2>2. f \in [B -> M]
    OBVIOUS
  <2>3. \A a, b \in B : f[a] = f[b] => a = b
    BY <1>2
  <2>4. \A m \in M : \E j \in B : f[j] = m
    OBVIOUS
  <2> HIDE DEF f, B, M
  <2>5. f \in Bijection(B, M)
    BY <2>2, <2>3, <2>4 DEF Bijection, Injection, Surjection, IsInjective
  <2>6. ExistsBijection(B, M)
    BY <2>5 DEF ExistsBijection
  <2> QED
    BY <2>1, <2>6, FS_Bijection
<1>4. U = A \cup M
  <2>1. ASSUME NEW i \in U PROVE i \in A \cup M
    <3>1. CASE i <= Len(s)
      <4>1. i \in DOMAIN s /\ (s \o t)[i] = s[i]
        BY <3>1 DEF Counted
      <4> QED
        BY <4>1 DEF Counted
    <3>2. CASE i > Len(s)
      <4> DEFINE j == i - Len(s)
      <4>1. j \in DOMAIN t /\ (s \o t)[i] = t[j] /\ i = Len(s) + j
        BY <3>2 DEF Counted
      <4>2. j \in B
        BY <4>1 DEF Counted
      <4> QED
        BY <4>1, <4>2
    <3>3. i \in Nat
      BY DEF Counted
    <3> QED
      BY <3>1, <3>2, <3>3
  <2>2. ASSUME NEW i \in A PROVE i \in U
    <3>1. i \in DOMAIN (s \o t) /\ (s \o t)[i] = s[i]
      BY DEF Counted
    <3> QED
      BY <3>1 DEF Counted
  <2>3. ASSUME NEW j \in B PROVE Len(s) + j \in U
    <3>1. Len(s) + j \in DOMAIN (s \o t) /\ (s \o t)[Len(s) + j] = t[j]
      BY DEF Counted
    <3> QED
      BY <3>1 DEF Counted
  <2> HIDE DEF A, B, U
  <2> QED
    BY <2>1, <2>2, <2>3
<1>5. A \cap M = {}
  BY <1>2
<1>6. /\ IsFiniteSet(A) /\ Cardinality(A) \in Nat /\ CountOf(s, type, c) = Cardinality(A)
      /\ IsFiniteSet(B) /\ Cardinality(B) \in Nat /\ CountOf(t, type, c) = Cardinality(B)
      /\ CountOf(s \o t, type, c) = Cardinality(U)
  BY <1>1, CountIs
<1> HIDE DEF A, B, M, U
<1>7. Cardinality(A \cup M) = Cardinality(A) + Cardinality(M) - Cardinality(A \cap M)
  BY <1>3, <1>6, FS_Union
<1>8. Cardinality(A \cap M) = 0
  BY <1>5, FS_EmptySet, Zenon
<1>9. CountOf(s \o t, type, c) = Cardinality(A \cup M)
  BY <1>4, <1>6, Zenon
<1> QED
  BY <1>1, <1>3, <1>6, <1>7, <1>8, <1>9

\* No event, and one event.
LEMMA CountNone ==
    ASSUME NEW type, NEW c
    PROVE  <<>> \in Seq(Event) /\ CountOf(<<>>, type, c) = 0
<1>1. <<>> \in Seq(Event)
  OBVIOUS
<1>2. Counted(<<>>, type, c) = {}
  BY DEF Counted
<1> QED
  BY <1>1, <1>2, CountIs, FS_EmptySet

LEMMA CountOne ==
    ASSUME NEW e \in Event, NEW type, NEW c
    PROVE  /\ <<e>> \in Seq(Event)
           /\ CountOf(<<e>>, type, c) = IF Counts(e, type, c) THEN 1 ELSE 0
<1>1. <<e>> \in Seq(Event)
  OBVIOUS
<1>2. Counted(<<e>>, type, c) = IF Counts(e, type, c) THEN {1} ELSE {}
  BY DEF Counted
<1>3. CountOf(<<e>>, type, c) = Cardinality(Counted(<<e>>, type, c))
  BY <1>1, CountIs
<1>4. Cardinality({1}) = 1 /\ Cardinality({}) = 0
  BY FS_Singleton, FS_EmptySet
<1> QED
  BY <1>1, <1>2, <1>3, <1>4

-----------------------------------------------------------------------------
(* FlattenSeq *)

\* The first pieces, joined one after the other.
IsFlat(ss, w, n) ==
    w = [i \in 1..n |-> IF i = 1 THEN ss[i] ELSE w[i - 1] \o ss[i]]

\* They can be joined for any number of pieces.
LEMMA FlatThere == ASSUME NEW ss PROVE \A n \in Nat : \E w : IsFlat(ss, w, n)
<1> DEFINE N == {n \in Nat : \E w : IsFlat(ss, w, n)}
<1>1. 0 \in N
  <2>1. IsFlat(ss, [i \in 1..0 |-> <<>>], 0)
    BY DEF IsFlat
  <2> QED
    BY <2>1
<1>2. ASSUME NEW n \in Nat \ {0}, n - 1 \in N
      PROVE  n \in N
  <2>1. PICK w : IsFlat(ss, w, n - 1)
    BY <1>2
  <2> DEFINE v == [i \in 1..n |-> IF i \in 1..n - 1 THEN w[i]
                                  ELSE IF i = 1 THEN ss[i] ELSE w[i - 1] \o ss[i]]
  <2>2. \A k \in 1..n - 1 : v[k] = w[k]
    OBVIOUS
  <2>3. \A k \in 1..n - 1 : w[k] = IF k = 1 THEN ss[k] ELSE w[k - 1] \o ss[k]
    BY <2>1 DEF IsFlat
  <2>4. ASSUME NEW i \in 1..n
        PROVE  v[i] = IF i = 1 THEN ss[i] ELSE v[i - 1] \o ss[i]
    <3>1. CASE i \in 1..n - 1
      <4>1. i # 1 => i - 1 \in 1..n - 1
        BY <3>1
      <4> QED
        BY <2>2, <2>3, <3>1, <4>1
    <3>2. CASE i = n
      <4>1. i \notin 1..n - 1 /\ (i # 1 => i - 1 \in 1..n - 1)
        BY <3>2
      <4> QED
        BY <2>2, <4>1
    <3> QED
      BY <3>1, <3>2
  <2>5. IsFlat(ss, v, n)
    BY <2>4 DEF IsFlat
  <2> QED
    BY <2>5
<1>3. ASSUME NEW n \in Nat PROVE n \in N
  <2>1. \A k \in 1..n : k - 1 \in N => k \in N
    BY <1>2
  <2> HIDE DEF N
  <2> QED
    BY <1>1, <2>1, UpTo
<1> QED
  BY <1>3

\* The pieces in I have one event that counts, the others none.
OneEach(ss, type, c, I) ==
    \A i \in DOMAIN ss : CountOf(ss[i], type, c) = IF i \in I THEN 1 ELSE 0

PiecesIn(ss, I) == {i \in DOMAIN ss : i \in I}

\* Where every piece has one event that counts, or none, the pieces joined
\* have as many as there are pieces with one.
LEMMA CountFlat ==
    ASSUME NEW ss \in Seq(Seq(Event)), NEW type, NEW c, NEW I,
           OneEach(ss, type, c, I)
    PROVE  /\ FlattenSeq(ss) \in Seq(Event)
           /\ CountOf(FlattenSeq(ss), type, c) = Cardinality(PiecesIn(ss, I))
<1> DEFINE n == Len(ss)
           In(k) == {i \in 1..k : i \in I}
<1>0. n \in Nat /\ DOMAIN ss = 1..n /\ \A i \in 1..n : ss[i] \in Seq(Event)
  OBVIOUS
<1>1. CASE n = 0
  <2>1. FlattenSeq(ss) = <<>>
    BY <1>1 DEF FlattenSeq
  <2>2. PiecesIn(ss, I) = {}
    BY <1>0, <1>1 DEF PiecesIn
  <2>3. Cardinality(PiecesIn(ss, I)) = 0
    BY <2>2, FS_EmptySet, Zenon
  <2> QED
    BY <2>1, <2>3, CountNone
<1>2. CASE n # 0
  <2> DEFINE w == CHOOSE w : IsFlat(ss, w, n)
  <2>1. FlattenSeq(ss) = w[n]
    BY <1>2 DEF FlattenSeq, IsFlat
  <2>2. IsFlat(ss, w, n)
    BY <1>0, FlatThere
  <2> HIDE DEF w
  <2>3. \A k \in 1..n : w[k] = IF k = 1 THEN ss[k] ELSE w[k - 1] \o ss[k]
    BY <2>2 DEF IsFlat
  <2> DEFINE N == {0} \cup {k \in 1..n : /\ w[k] \in Seq(Event)
                                         /\ CountOf(w[k], type, c) = Cardinality(In(k))}
  <2>4. /\ IsFiniteSet(In(0)) /\ Cardinality(In(0)) = 0
        /\ \A k \in 1..n : /\ IsFiniteSet(In(k)) /\ Cardinality(In(k)) \in Nat
                           /\ IsFiniteSet(In(k - 1)) /\ Cardinality(In(k - 1)) \in Nat
                           /\ Cardinality(In(k)) = Cardinality(In(k - 1))
                                                     + (IF k \in I THEN 1 ELSE 0)
    <3>1. In(0) = {}
      OBVIOUS
    <3>2. IsFiniteSet(In(0)) /\ Cardinality(In(0)) = 0
      BY <3>1, FS_EmptySet, Zenon
    <3>3. ASSUME NEW k \in 0..n PROVE IsFiniteSet(In(k)) /\ Cardinality(In(k)) \in Nat
      <4>1. IsFiniteSet(1..k)
        BY <1>0, FS_Interval
      <4>2. In(k) \in SUBSET (1..k)
        OBVIOUS
      <4> QED
        BY <4>1, <4>2, FS_Subset, FS_CardinalityType
    <3>4. ASSUME NEW k \in 1..n
          PROVE  Cardinality(In(k)) = Cardinality(In(k - 1)) + (IF k \in I THEN 1 ELSE 0)
      <4>1. k \notin In(k - 1) /\ In(k) = IF k \in I THEN In(k - 1) \cup {k} ELSE In(k - 1)
        BY <1>0
      <4>2. IsFiniteSet(In(k - 1)) /\ Cardinality(In(k - 1)) \in Nat
        <5>1. k - 1 \in 0..n
          BY <1>0
        <5> QED
          BY <5>1, <3>3
      <4> HIDE DEF In
      <4>3. Cardinality(In(k - 1) \cup {k}) = Cardinality(In(k - 1)) + 1
        BY <4>1, <4>2, FS_AddElement
      <4> QED
        BY <4>1, <4>2, <4>3
    <3>5. \A k \in 1..n : k \in 0..n /\ k - 1 \in 0..n
      BY <1>0
    <3> HIDE DEF In
    <3> QED
      BY <3>2, <3>3, <3>4, <3>5
  <2>5. ASSUME NEW k \in 1..n, k - 1 \in N
        PROVE  k \in N
    <3>1. /\ CountOf(ss[k], type, c) = IF k \in I THEN 1 ELSE 0
          /\ ss[k] \in Seq(Event)
      BY <1>0 DEF OneEach
    <3>2. CASE k = 1
      <4>1. w[k] = ss[k]
        BY <2>3, <3>2
      <4>2. Cardinality(In(k)) = IF k \in I THEN 1 ELSE 0
        <5>1. In(1 - 1) = In(0)
          OBVIOUS
        <5> HIDE DEF In
        <5>2. Cardinality(In(1)) = Cardinality(In(0)) + (IF 1 \in I THEN 1 ELSE 0)
          BY <2>4, <3>2, <5>1
        <5> QED
          BY <2>4, <3>2, <5>2
      <4> HIDE DEF In
      <4>3. w[k] \in Seq(Event) /\ CountOf(w[k], type, c) = Cardinality(In(k))
        BY <3>1, <4>1, <4>2
      <4> QED
        BY <4>3
    <3>3. CASE k # 1
      <4>0. k - 1 \in 1..n
        BY <1>0, <3>3
      <4>1. w[k] = w[k - 1] \o ss[k]
        BY <2>3, <3>3
      <4>2. w[k - 1] \in Seq(Event) /\ CountOf(w[k - 1], type, c) = Cardinality(In(k - 1))
        BY <2>5, <4>0
      <4> HIDE DEF In
      <4>3. /\ w[k] \in Seq(Event)
            /\ CountOf(w[k], type, c) = Cardinality(In(k - 1)) + CountOf(ss[k], type, c)
        BY <3>1, <4>1, <4>2, CountBoth
      <4> QED
        BY <2>4, <3>1, <4>3
    <3> QED
      BY <3>2, <3>3
  <2>6. n \in N
    <3> HIDE DEF N
    <3>1. 0 \in N
      BY DEF N
    <3>2. 0..n \subseteq N
      BY <1>0, <2>5, <3>1, UpTo
    <3> QED
      BY <1>0, <3>2
  <2>7. In(n) = PiecesIn(ss, I)
    BY <1>0 DEF PiecesIn
  <2>8. /\ w[n] \in Seq(Event)
        /\ CountOf(w[n], type, c) = Cardinality(In(n))
    BY <2>6, <1>2
  <2> HIDE DEF In, N
  <2> QED
    BY <2>1, <2>7, <2>8
<1> QED
  BY <1>1, <1>2

-----------------------------------------------------------------------------
(* Slots *)

\* SetToSeq names each element of a finite set once.
LEMMA SetSeq ==
    ASSUME NEW A, IsFiniteSet(A)
    PROVE  /\ SetToSeq(A) \in Seq(A) /\ Len(SetToSeq(A)) = Cardinality(A)
           /\ IsInjective(SetToSeq(A)) /\ ToSet(SetToSeq(A)) = A
<1> DEFINE n == Cardinality(A)
           g == SetToSeq(A)
<1>1. n \in Nat /\ ExistsBijection(1..n, A)
  BY FS_CardinalityType
<1>2. \E f \in [1..n -> A] : IsInjective(f)
  BY <1>1 DEF ExistsBijection, Bijection, Injection
<1>3. g \in [1..n -> A] /\ IsInjective(g)
  BY <1>2 DEF SetToSeq
<1> HIDE DEF g
<1>4. IsFiniteSet(1..n) /\ Cardinality(1..n) = n
  BY <1>1, FS_Interval
<1>5. g \in Injection(1..n, A)
  BY <1>3 DEF Injection
<1> HIDE DEF n
<1>6. g \in Surjection(1..n, A)
  BY <1>4, <1>5, FS_Injection DEF n
<1>7. g \in Seq(A) /\ Len(g) = n
  BY <1>1, <1>3
<1>8. ToSet(g) = A
  BY <1>3, <1>6 DEF Surjection, ToSet
<1> QED
  BY <1>3, <1>7, <1>8 DEF g, n

\* Some of the values of a sequence without repetition are in as many slots.
LEMMA SlotCard ==
    ASSUME NEW V, NEW s \in Seq(V), IsInjective(s), NEW B \in SUBSET ToSet(s)
    PROVE  /\ IsFiniteSet(B) /\ Cardinality(B) \in Nat
           /\ Cardinality({i \in DOMAIN s : s[i] \in B}) = Cardinality(B)
<1> DEFINE D == {i \in DOMAIN s : s[i] \in B}
           f == [i \in D |-> s[i]]
<1>1. D \in SUBSET (1..Len(s)) /\ Len(s) \in Nat
  OBVIOUS
<1>2. IsFiniteSet(D)
  BY <1>1, FS_Interval, FS_Subset
<1>3. f \in [D -> B]
  OBVIOUS
<1>4. \A i, j \in D : f[i] = f[j] => i = j
  BY DEF IsInjective
<1>5. \A b \in B : \E i \in D : f[i] = b
  BY DEF ToSet
<1> HIDE DEF f, D
<1>6. f \in Bijection(D, B)
  BY <1>3, <1>4, <1>5 DEF Bijection, Injection, Surjection, IsInjective
<1>7. ExistsBijection(D, B)
  BY <1>6 DEF ExistsBijection
<1>8. IsFiniteSet(B) /\ Cardinality(B) = Cardinality(D)
  BY <1>2, <1>7, FS_Bijection
<1> QED
  BY <1>8, FS_CardinalityType DEF D

-----------------------------------------------------------------------------
(* What a report tells the program *)

\* Keys and modifiers with a key code.
With(ks, c) == {k \in ks : Code[k] = c}

\* A key's events are events.
LEMMA KeyEvents ==
    ASSUME NEW k \in AllKeys \cup Mods, NEW upper \in BOOLEAN, NEW repeat \in BOOLEAN
    PROVE  /\ Code[k] \in Nat
           /\ Key(k, repeat) \in Event /\ KeyUp(k) \in Event /\ Char(k, upper) \in Event
<1>1. Code[k] \in Nat
  BY KeysAssumption DEF AllKeys
<1> QED
  BY <1>1 DEF Key, KeyUp, Char, Event

\* A slot of the first loop is one press, if its key is new and has a code.
LEMMA SlotIs ==
    ASSUME NEW keys \in Seq(AllKeys), NEW mods, NEW i \in DOMAIN keys, NEW c \in Codes
    PROVE  /\ SlotEvents(keys, mods, i) \in Seq(Event)
           /\ CountOf(SlotEvents(keys, mods, i), "key_up", c) = 0
           /\ CountOf(SlotEvents(keys, mods, i), "key", c) =
                IF keys[i] \in With(NewKeys(keys), c) THEN 1 ELSE 0
<1> DEFINE k == keys[i]
           upper == PressUpper(mods, CapsAt(keys, i))
           press == Key(k, FALSE)
           text == Char(k, upper)
<1>1. k \in AllKeys
  OBVIOUS
<1>2. upper \in BOOLEAN
  BY DEF PressUpper
<1>3. press \in Event /\ text \in Event
  BY <1>1, <1>2, KeyEvents
<1>4. c # 0
  BY DEF Codes
<1>5. /\ Counts(press, "key", c) <=> Code[k] = c
      /\ ~ Counts(press, "key_up", c)
      /\ ~ Counts(text, "key", c) /\ ~ Counts(text, "key_up", c)
  BY DEF Counts, Key, Char
<1> HIDE DEF press, text, upper
<1>6. CASE k \notin NewKeys(keys) \/ Code[k] = 0
  <2>1. SlotEvents(keys, mods, i) = <<>>
    BY <1>6 DEF SlotEvents
  <2>2. keys[i] \notin With(NewKeys(keys), c)
    BY <1>4, <1>6 DEF With
  <2> QED
    BY <2>1, <2>2, CountNone
<1>7. CASE k \in NewKeys(keys) /\ Code[k] # 0
  <2>1. keys[i] \in With(NewKeys(keys), c) <=> Code[k] = c
    BY <1>7 DEF With
  <2> DEFINE first == <<press>>
  <2>2. /\ first \in Seq(Event) /\ CountOf(first, "key_up", c) = 0
        /\ CountOf(first, "key", c) = IF Code[k] = c THEN 1 ELSE 0
    BY <1>3, <1>5, CountOne
  <2> DEFINE more == IF k \in Prints THEN <<text>> ELSE <<>>
  <2>3. SlotEvents(keys, mods, i) = first \o more
    BY <1>7 DEF SlotEvents, press, text, upper
  <2>4. /\ more \in Seq(Event)
        /\ CountOf(more, "key_up", c) = 0 /\ CountOf(more, "key", c) = 0
    <3>1. CASE k \in Prints
      BY <1>3, <1>5, <3>1, CountOne
    <3>2. CASE k \notin Prints
      BY <3>2, CountNone
    <3> QED
      BY <3>1, <3>2
  <2> HIDE DEF more, first
  <2>5. /\ first \o more \in Seq(Event)
        /\ CountOf(first \o more, "key_up", c) = 0
        /\ CountOf(first \o more, "key", c) = IF Code[k] = c THEN 1 ELSE 0
    BY <2>2, <2>4, CountBoth
  <2> QED
    BY <2>1, <2>3, <2>5
<1> QED
  BY <1>6, <1>7

\* The first loop tells one press of every new key.
LEMMA PressCount ==
    ASSUME NEW keys \in Seq(AllKeys), IsInjective(keys), NEW mods, NEW c \in Codes
    PROVE  /\ PressEvents(keys, mods) \in Seq(Event)
           /\ CountOf(PressEvents(keys, mods), "key_up", c) = 0
           /\ CountOf(PressEvents(keys, mods), "key", c) = Cardinality(With(NewKeys(keys), c))
<1> DEFINE ss == [i \in DOMAIN keys |-> SlotEvents(keys, mods, i)]
           B == With(NewKeys(keys), c)
           I == {i \in DOMAIN keys : keys[i] \in B}
           None == {}
<1>1. ss \in Seq(Seq(Event)) /\ DOMAIN ss = DOMAIN keys
  <2>1. \A i \in 1..Len(keys) : SlotEvents(keys, mods, i) \in Seq(Event)
    BY SlotIs
  <2> QED
    BY <2>1
<1>2. OneEach(ss, "key_up", c, None)
  BY SlotIs DEF OneEach
<1>3. OneEach(ss, "key", c, I)
  BY SlotIs DEF OneEach
<1>4. PressEvents(keys, mods) = FlattenSeq(ss)
  BY DEF PressEvents
<1>5. PiecesIn(ss, None) = {} /\ PiecesIn(ss, I) = I
  BY <1>1 DEF PiecesIn
<1>6. B \in SUBSET ToSet(keys)
  BY DEF With, NewKeys
<1>7. Cardinality(I) = Cardinality(B)
  BY <1>6, SlotCard
<1> HIDE DEF ss, I, B, None
<1>8. /\ FlattenSeq(ss) \in Seq(Event)
      /\ CountOf(FlattenSeq(ss), "key_up", c) = Cardinality(PiecesIn(ss, None))
      /\ CountOf(FlattenSeq(ss), "key", c) = Cardinality(PiecesIn(ss, I))
  <2>1. /\ FlattenSeq(ss) \in Seq(Event)
        /\ CountOf(FlattenSeq(ss), "key_up", c) = Cardinality(PiecesIn(ss, None))
    BY <1>1, <1>2, CountFlat
  <2>2. CountOf(FlattenSeq(ss), "key", c) = Cardinality(PiecesIn(ss, I))
    BY <1>1, <1>3, CountFlat
  <2> QED
    BY <2>1, <2>2
<1>9. Cardinality(PiecesIn(ss, None)) = 0
  BY <1>5, FS_EmptySet, Zenon
<1>10. Cardinality(PiecesIn(ss, I)) = Cardinality(B)
  BY <1>5, <1>7, Zenon
<1> QED
  BY <1>4, <1>8, <1>9, <1>10 DEF B

\* A slot of the third loop is one release, if its key is gone and has a code.
LEMMA UpIs ==
    ASSUME NEW k \in AllKeys, NEW ks, NEW c \in Codes
    PROVE  LET up == IF k \in ks /\ Code[k] # 0 THEN <<KeyUp(k)>> ELSE <<>>
           IN  /\ up \in Seq(Event) /\ CountOf(up, "key", c) = 0
               /\ CountOf(up, "key_up", c) = IF k \in With(ks, c) THEN 1 ELSE 0
<1> DEFINE e == KeyUp(k)
<1>1. e \in Event
  BY KeyEvents
<1>2. c # 0
  BY DEF Codes
<1>3. ~ Counts(e, "key", c) /\ (Counts(e, "key_up", c) <=> Code[k] = c)
  BY DEF Counts, KeyUp
<1> HIDE DEF e
<1>4. /\ <<e>> \in Seq(Event) /\ CountOf(<<e>>, "key", c) = 0
      /\ CountOf(<<e>>, "key_up", c) = IF Code[k] = c THEN 1 ELSE 0
  BY <1>1, <1>3, CountOne
<1>5. CASE k \in ks /\ Code[k] # 0
  <2>1. k \in With(ks, c) <=> Code[k] = c
    BY <1>5 DEF With
  <2> QED
    BY <1>4, <1>5, <2>1 DEF e
<1>6. CASE ~(k \in ks /\ Code[k] # 0)
  <2>1. k \notin With(ks, c)
    BY <1>2, <1>6 DEF With
  <2> QED
    BY <1>6, <2>1, CountNone
<1> QED
  BY <1>5, <1>6

\* The third loop tells one release of every key that is gone.
LEMMA UpCount ==
    ASSUME prev_report.keys \in Seq(AllKeys), IsInjective(prev_report.keys),
           NEW keys, NEW c \in Codes
    PROVE  /\ UpEvents(keys) \in Seq(Event)
           /\ CountOf(UpEvents(keys), "key", c) = 0
           /\ CountOf(UpEvents(keys), "key_up", c) = Cardinality(With(GoneKeys(keys), c))
<1> DEFINE old == prev_report.keys
           ks == GoneKeys(keys)
           up(k) == IF k \in ks /\ Code[k] # 0 THEN <<KeyUp(k)>> ELSE <<>>
           ss == [i \in DOMAIN old |-> up(old[i])]
           B == With(ks, c)
           I == {i \in DOMAIN old : old[i] \in B}
           None == {}
<1>0. \A i \in DOMAIN old : old[i] \in AllKeys
  OBVIOUS
<1>1. \A k \in AllKeys :
         /\ up(k) \in Seq(Event) /\ CountOf(up(k), "key", c) = 0
         /\ CountOf(up(k), "key_up", c) = IF k \in B THEN 1 ELSE 0
  BY UpIs
<1>2. UpEvents(keys) = FlattenSeq(ss)
  BY DEF UpEvents
<1>3. B \in SUBSET ToSet(old)
  BY DEF With, GoneKeys
<1>4. Cardinality(I) = Cardinality(B)
  BY <1>3, SlotCard
<1> HIDE DEF up, B
<1>5. ss \in Seq(Seq(Event)) /\ DOMAIN ss = DOMAIN old
  <2>1. \A i \in 1..Len(old) : up(old[i]) \in Seq(Event)
    BY <1>1
  <2> QED
    BY <2>1
<1>6. OneEach(ss, "key", c, None)
  BY <1>0, <1>1 DEF OneEach
<1>7. OneEach(ss, "key_up", c, I)
  BY <1>0, <1>1 DEF OneEach
<1>8. PiecesIn(ss, None) = {} /\ PiecesIn(ss, I) = I
  BY <1>5 DEF PiecesIn
<1> HIDE DEF ss, I, None
<1>9. /\ FlattenSeq(ss) \in Seq(Event)
      /\ CountOf(FlattenSeq(ss), "key", c) = Cardinality(PiecesIn(ss, None))
  BY <1>5, <1>6, CountFlat
<1>10. CountOf(FlattenSeq(ss), "key_up", c) = Cardinality(PiecesIn(ss, I))
  BY <1>5, <1>7, CountFlat
<1>11. Cardinality(PiecesIn(ss, None)) = 0
  BY <1>8, FS_EmptySet, Zenon
<1>12. Cardinality(PiecesIn(ss, I)) = Cardinality(B)
  BY <1>4, <1>8, Zenon
<1> QED
  BY <1>2, <1>9, <1>10, <1>11, <1>12 DEF B

\* The second loop tells one event of every modifier that changed.
LEMMA ModCount ==
    ASSUME prev_report.mods \in SUBSET Mods, NEW mods \in SUBSET Mods, NEW c \in Codes
    PROVE  /\ ModEvents(mods) \in Seq(Event)
           /\ CountOf(ModEvents(mods), "key", c) =
                Cardinality(With(mods \ prev_report.mods, c))
           /\ CountOf(ModEvents(mods), "key_up", c) =
                Cardinality(With(prev_report.mods \ mods, c))
<1> DEFINE changed == SetToSeq(Changed(mods))
           e(m) == IF m \in mods THEN Key(m, FALSE) ELSE KeyUp(m)
           E == ModEvents(mods)
           In == With(mods \ prev_report.mods, c)
           Out == With(prev_report.mods \ mods, c)
<1>1. Changed(mods) \in SUBSET Mods
  BY DEF Changed
<1>2. IsFiniteSet(Changed(mods))
  BY <1>1, FS_Subset, KeysAssumption
<1>3. /\ changed \in Seq(Changed(mods)) /\ IsInjective(changed)
      /\ ToSet(changed) = Changed(mods)
  BY <1>2, SetSeq
<1>4. E = [i \in DOMAIN changed |-> e(changed[i])]
  BY Zenon DEF ModEvents
<1> HIDE DEF changed, E
<1>5. \A i \in DOMAIN changed : changed[i] \in Changed(mods)
  BY <1>3
<1>6. ASSUME NEW m \in Changed(mods)
      PROVE  /\ e(m) \in Event
             /\ Counts(e(m), "key", c) <=> m \in In
             /\ Counts(e(m), "key_up", c) <=> m \in Out
  <2>1. Key(m, FALSE) \in Event /\ KeyUp(m) \in Event
    BY <1>1, KeyEvents
  <2>2. CASE m \in mods
    BY <2>1, <2>2 DEF Changed, Counts, Key, With
  <2>3. CASE m \notin mods
    BY <2>1, <2>3 DEF Changed, Counts, KeyUp, With
  <2> QED
    BY <2>2, <2>3
<1> HIDE DEF e
<1>7. E \in Seq(Event) /\ DOMAIN E = DOMAIN changed
  <2>1. \A i \in 1..Len(changed) : e(changed[i]) \in Event
    BY <1>3, <1>6
  <2>2. DOMAIN changed = 1..Len(changed) /\ Len(changed) \in Nat
    BY <1>3
  <2> QED
    BY <1>4, <2>1, <2>2
<1>8. In \in SUBSET ToSet(changed) /\ Out \in SUBSET ToSet(changed)
  BY <1>3 DEF With, Changed
<1> HIDE DEF In, Out
<1>9. /\ Counted(E, "key", c) = {i \in DOMAIN changed : changed[i] \in In}
      /\ Counted(E, "key_up", c) = {i \in DOMAIN changed : changed[i] \in Out}
  BY <1>4, <1>5, <1>6, <1>7 DEF Counted
<1>10. /\ CountOf(E, "key", c) = Cardinality(Counted(E, "key", c))
       /\ CountOf(E, "key_up", c) = Cardinality(Counted(E, "key_up", c))
  BY <1>7, CountIs
<1>11. /\ Cardinality({i \in DOMAIN changed : changed[i] \in In}) = Cardinality(In)
       /\ Cardinality({i \in DOMAIN changed : changed[i] \in Out}) = Cardinality(Out)
  BY <1>3, <1>8, SlotCard
<1>12. CountOf(E, "key", c) = Cardinality(In) /\ CountOf(E, "key_up", c) = Cardinality(Out)
  BY <1>9, <1>10, <1>11, Zenon
<1> QED
  BY <1>7, <1>12 DEF E, In, Out

-----------------------------------------------------------------------------
(* The sum of what a report tells is the difference it makes *)

\* Keys and modifiers are finitely many.
LEMMA FiniteWith ==
    ASSUME NEW ks \in SUBSET (AllKeys \cup Mods), NEW c
    PROVE  IsFiniteSet(With(ks, c)) /\ Cardinality(With(ks, c)) \in Nat
<1>1. IsFiniteSet(AllKeys)
  BY FS_AddElement, KeysAssumption DEF AllKeys
<1>2. IsFiniteSet(AllKeys \cup Mods)
  BY <1>1, FS_Union, KeysAssumption
<1>3. With(ks, c) \in SUBSET (AllKeys \cup Mods)
  BY DEF With
<1>4. IsFiniteSet(With(ks, c))
  BY <1>2, <1>3, FS_Subset
<1> QED
  BY <1>4, FS_CardinalityType

\* Two disjoint parts.
LEMMA TwoParts ==
    ASSUME NEW A, NEW B, IsFiniteSet(A), IsFiniteSet(B), A \cap B = {}
    PROVE  IsFiniteSet(A \cup B) /\ Cardinality(A \cup B) = Cardinality(A) + Cardinality(B)
<1>1. /\ IsFiniteSet(A \cup B)
      /\ Cardinality(A \cup B) = Cardinality(A) + Cardinality(B) - Cardinality(A \cap B)
  BY FS_Union
<1>2. Cardinality(A \cap B) = 0
  BY FS_EmptySet, Zenon
<1>3. Cardinality(A) \in Nat /\ Cardinality(B) \in Nat
  BY FS_CardinalityType
<1> QED
  BY <1>1, <1>2, <1>3

\* The keys and modifiers with a key code that are down before and after.
Shared(P, K, M, N, c) == With((P \cap K) \cup (M \cap N), c)

\* Keys K and modifiers N, as those they share with P and M and those that
\* are new: no key and modifier is counted twice.
LEMMA NewAndOld ==
    ASSUME NEW P \in SUBSET AllKeys, NEW K \in SUBSET AllKeys,
           NEW M \in SUBSET Mods, NEW N \in SUBSET Mods, NEW c \in Codes
    PROVE  Cardinality(With(K \cup N, c)) =
             Cardinality(Shared(P, K, M, N, c))
               + Cardinality(With(K \ P, c)) + Cardinality(With(N \ M, c))
<1> DEFINE Both == Shared(P, K, M, N, c)
           X == With(K \ P, c)
           Y == With(N \ M, c)
<1>1. RollOver \notin With(AllKeys, c) /\ Keys \cap Mods = {}
  BY KeysAssumption DEF With, Codes
<1>2. IsFiniteSet(Both) /\ IsFiniteSet(X) /\ IsFiniteSet(Y)
  BY FiniteWith DEF Shared
<1>3. X \cap Y = {}
  BY <1>1 DEF With, AllKeys
<1>4. Both \cap (X \cup Y) = {}
  BY <1>1 DEF With, AllKeys, Shared
<1>5. With(K \cup N, c) = Both \cup (X \cup Y)
  BY DEF With, Shared
<1> HIDE DEF Both, X, Y
<1>6. IsFiniteSet(X \cup Y) /\ Cardinality(X \cup Y) = Cardinality(X) + Cardinality(Y)
  BY <1>2, <1>3, TwoParts
<1>7. Cardinality(Both \cup (X \cup Y)) = Cardinality(Both) + Cardinality(X \cup Y)
  BY <1>2, <1>4, <1>6, TwoParts
<1>8. Cardinality(With(K \cup N, c)) = Cardinality(Both) + Cardinality(X \cup Y)
  BY <1>5, <1>7, Zenon
<1>9. Cardinality(Both) \in Nat /\ Cardinality(X) \in Nat /\ Cardinality(Y) \in Nat
  BY <1>2, FS_CardinalityType
<1> QED
  BY <1>6, <1>8, <1>9 DEF Both, X, Y

\* What changes from P and M to K and N is what is new less what is gone.
LEMMA Difference ==
    ASSUME NEW P \in SUBSET AllKeys, NEW K \in SUBSET AllKeys,
           NEW M \in SUBSET Mods, NEW N \in SUBSET Mods, NEW c \in Codes
    PROVE  DownIn(K, N, c) =
             DownIn(P, M, c)
               + (Cardinality(With(K \ P, c)) + Cardinality(With(N \ M, c)))
               - (Cardinality(With(M \ N, c)) + Cardinality(With(P \ K, c)))
<1>1. Cardinality(With(K \cup N, c)) =
        Cardinality(Shared(P, K, M, N, c)) + Cardinality(With(K \ P, c)) + Cardinality(With(N \ M, c))
  BY NewAndOld
<1>2. Cardinality(With(P \cup M, c)) =
        Cardinality(Shared(P, K, M, N, c)) + Cardinality(With(P \ K, c)) + Cardinality(With(M \ N, c))
  <2>1. Shared(K, P, N, M, c) = Shared(P, K, M, N, c)
    BY DEF With, Shared
  <2>2. Cardinality(With(P \cup M, c)) =
          Cardinality(Shared(K, P, N, M, c))
            + Cardinality(With(P \ K, c)) + Cardinality(With(M \ N, c))
    BY NewAndOld
  <2> QED
    BY <2>1, <2>2, Zenon
<1>3. /\ Cardinality(Shared(P, K, M, N, c)) \in Nat
      /\ Cardinality(With(K \ P, c)) \in Nat /\ Cardinality(With(N \ M, c)) \in Nat
      /\ Cardinality(With(P \ K, c)) \in Nat /\ Cardinality(With(M \ N, c)) \in Nat
  BY FiniteWith DEF Shared
<1>4. /\ DownIn(K, N, c) = Cardinality(With(K \cup N, c))
      /\ DownIn(P, M, c) = Cardinality(With(P \cup M, c))
  BY DEF DownIn, With
<1> QED
  BY <1>1, <1>2, <1>3, <1>4

-----------------------------------------------------------------------------
(* The invariant *)

\* The two memories agree: the keys with a press time are those of the last
\* report, each of them in one slot.
MemoriesAgree ==
    IsInjective(prev_report.keys) /\ pressed = ToSet(prev_report.keys)

\* While the reports are the whole truth, the last one tells what is down on
\* one keyboard, and nothing is down on the others.
LastReportTrue ==
    \/ /\ prev_report = [keys |-> <<>>, mods |-> {}]
       /\ \A b \in Keyboards : held[b] = Nothing
    \/ \E b \in Keyboards :
         /\ held[b] = [keys |-> ToSet(prev_report.keys), mods |-> prev_report.mods]
         /\ \A o \in Keyboards \ {b} : held[o] = Nothing

KeyInv == TypeOK /\ MemoriesAgree /\ Balanced /\ (~ mixed => LastReportTrue)

\* A report names some keys, each once: those that are down, if they fit.
LEMMA SlotsIs ==
    ASSUME NEW ks \in SUBSET Keys
    PROVE  /\ Slots(ks) \in Seq(AllKeys) /\ Len(Slots(ks)) <= MaxKeys
           /\ IsInjective(Slots(ks))
           /\ Cardinality(ks) <= MaxKeys => ToSet(Slots(ks)) = ks
<1>1. IsFiniteSet(ks)
  BY FS_Subset, KeysAssumption
<1>2. CASE Cardinality(ks) <= MaxKeys
  <2>1. Slots(ks) = SetToSeq(ks)
    BY <1>2 DEF Slots
  <2>2. /\ SetToSeq(ks) \in Seq(ks) /\ Len(SetToSeq(ks)) = Cardinality(ks)
        /\ IsInjective(SetToSeq(ks)) /\ ToSet(SetToSeq(ks)) = ks
    BY <1>1, SetSeq
  <2>3. Seq(ks) \subseteq Seq(AllKeys)
    BY DEF AllKeys
  <2> QED
    BY <1>2, <2>1, <2>2, <2>3
<1>3. CASE ~(Cardinality(ks) <= MaxKeys)
  <2>1. Slots(ks) = <<RollOver>>
    BY <1>3 DEF Slots
  <2>2. <<RollOver>> \in Seq(AllKeys) /\ Len(<<RollOver>>) = 1 /\ 1 <= MaxKeys
    BY KeysAssumption DEF AllKeys
  <2>3. IsInjective(<<RollOver>>)
    BY DEF IsInjective
  <2> QED
    BY <1>3, <2>1, <2>2, <2>3
<1> QED
  BY <1>2, <1>3

\* A report tells every difference to the last one, press by press and
\* release by release.
LEMMA ReportTells ==
    ASSUME KeyInv, NEW keys \in Seq(AllKeys), IsInjective(keys), NEW mods \in SUBSET Mods,
           process_kbd_report(keys, mods), NEW c \in Codes
    PROVE  down'[c] = DownIn(ToSet(keys), mods, c) /\ down'[c] \in Int
<1> DEFINE Pr == PressEvents(keys, mods)
           Mo == ModEvents(mods)
           Up == UpEvents(keys)
           P == ToSet(prev_report.keys)
           K == ToSet(keys)
           M == prev_report.mods
<1>1. /\ prev_report.keys \in Seq(AllKeys) /\ IsInjective(prev_report.keys)
      /\ M \in SUBSET Mods /\ pressed = P
  BY DEF KeyInv, TypeOK, MemoriesAgree
<1>2. P \in SUBSET AllKeys /\ K \in SUBSET AllKeys
  BY <1>1 DEF ToSet
<1>3. NewKeys(keys) = K \ P /\ GoneKeys(keys) = P \ K
  BY <1>1 DEF NewKeys, GoneKeys
<1>4. /\ Pr \in Seq(Event) /\ CountOf(Pr, "key_up", c) = 0
      /\ CountOf(Pr, "key", c) = Cardinality(With(K \ P, c))
  BY <1>3, PressCount
<1>5. /\ Mo \in Seq(Event) /\ CountOf(Mo, "key", c) = Cardinality(With(mods \ M, c))
      /\ CountOf(Mo, "key_up", c) = Cardinality(With(M \ mods, c))
  BY <1>1, ModCount
<1>6. /\ Up \in Seq(Event) /\ CountOf(Up, "key", c) = 0
      /\ CountOf(Up, "key_up", c) = Cardinality(With(P \ K, c))
  BY <1>1, <1>3, UpCount
<1>7. down'[c] = down[c] + CountOf(Pr \o Mo \o Up, "key", c)
                         - CountOf(Pr \o Mo \o Up, "key_up", c)
  BY DEF process_kbd_report, Push
<1>8. down[c] = DownIn(P, M, c)
  BY DEF KeyInv, Balanced
<1>9. DownIn(P, M, c) \in Nat
  BY <1>1, <1>2, FiniteWith DEF DownIn, With
<1>10. DownIn(K, mods, c) =
         DownIn(P, M, c)
           + (Cardinality(With(K \ P, c)) + Cardinality(With(mods \ M, c)))
           - (Cardinality(With(M \ mods, c)) + Cardinality(With(P \ K, c)))
  BY <1>1, <1>2, Difference
<1>11. /\ Cardinality(With(K \ P, c)) \in Nat /\ Cardinality(With(P \ K, c)) \in Nat
       /\ Cardinality(With(mods \ M, c)) \in Nat /\ Cardinality(With(M \ mods, c)) \in Nat
  BY <1>1, <1>2, FiniteWith
<1> HIDE DEF Pr, Mo, Up, P, K, M
<1>12. /\ Pr \o Mo \in Seq(Event)
       /\ CountOf(Pr \o Mo, "key", c) = CountOf(Pr, "key", c) + CountOf(Mo, "key", c)
       /\ CountOf(Pr \o Mo, "key_up", c) = CountOf(Pr, "key_up", c) + CountOf(Mo, "key_up", c)
  BY <1>4, <1>5, CountBoth
<1> DEFINE Both == Pr \o Mo
<1> HIDE DEF Both
<1>13. /\ CountOf(Both \o Up, "key", c) =
            CountOf(Both, "key", c) + CountOf(Up, "key", c)
       /\ CountOf(Both \o Up, "key_up", c) =
            CountOf(Both, "key_up", c) + CountOf(Up, "key_up", c)
  <2>1. Both \in Seq(Event)
    BY <1>12 DEF Both
  <2> QED
    BY <1>6, <2>1, CountBoth
<1> QED
  BY <1>4, <1>5, <1>6, <1>7, <1>8, <1>9, <1>10, <1>11, <1>12, <1>13 DEF K, Both

\* Before the first report nothing is down, and nobody was told anything.
LEMMA Initial == Init => KeyInv
<1> SUFFICES ASSUME Init PROVE KeyInv
  OBVIOUS
<1>1. prev_report.keys = <<>> /\ prev_report.mods = {}
  BY DEF Init
<1>2. ToSet(prev_report.keys) = {}
  BY <1>1 DEF ToSet
<1>3. TypeOK
  <2>1. Len(<<>>) <= MaxKeys /\ 0 \in 0..Hold + 1
    BY KeysAssumption
  <2>2. held \in [Keyboards -> [keys : SUBSET Keys, mods : SUBSET Mods]]
    BY DEF Init
  <2>3. age \in [AllKeys -> 0..Hold + 1] /\ down \in [Codes -> Int]
    BY <2>1 DEF Init
  <2>4. /\ prev_report.keys \in Seq(AllKeys) /\ prev_report.mods \subseteq Mods
        /\ Len(prev_report.keys) <= MaxKeys /\ pressed \subseteq AllKeys
    BY <1>1, <2>1 DEF Init
  <2>5. {caps_lock, shift_held, ctrl_held, terminated, mixed} \subseteq BOOLEAN
    BY DEF Init
  <2> QED
    BY <2>2, <2>3, <2>4, <2>5 DEF TypeOK
<1>4. MemoriesAgree
  <2>1. IsInjective(<<>>)
    BY DEF IsInjective
  <2> QED
    BY <1>1, <1>2, <2>1 DEF MemoriesAgree, Init
<1>5. Balanced
  <2>1. ASSUME NEW c \in Codes
        PROVE  down[c] = DownIn(ToSet(prev_report.keys), prev_report.mods, c)
    <3>1. {k \in ToSet(prev_report.keys) \cup prev_report.mods : Code[k] = c} = {}
      BY <1>1, <1>2
    <3>2. DownIn(ToSet(prev_report.keys), prev_report.mods, c) = 0
      BY <3>1, FS_EmptySet, Zenon DEF DownIn
    <3>3. down[c] = 0
      BY DEF Init
    <3> QED
      BY <3>2, <3>3
  <2> QED
    BY <2>1 DEF Balanced
<1>6. LastReportTrue
  BY DEF Init, LastReportTrue, Nothing
<1> QED
  BY <1>3, <1>4, <1>5, <1>6 DEF KeyInv

\* A report leaves the two memories with what it says, and the program told.
LEMMA ReportKeeps ==
    ASSUME KeyInv, NEW b \in Keyboards, NEW ks \in SUBSET Keys, NEW ms \in SUBSET Mods,
           Report(b, ks, ms)
    PROVE  KeyInv'
<1> DEFINE keys == Slots(ks)
<1>1. /\ keys \in Seq(AllKeys) /\ Len(keys) <= MaxKeys /\ IsInjective(keys)
      /\ Cardinality(ks) <= MaxKeys => ToSet(keys) = ks
  BY SlotsIs
<1>2. process_kbd_report(keys, ms)
  BY DEF Report
<1> HIDE DEF keys
<1>3. prev_report' = [keys |-> keys, mods |-> ms]
  BY <1>2 DEF process_kbd_report
<1>4. ToSet(keys) \in SUBSET AllKeys
  BY <1>1 DEF ToSet
<1>5. /\ pressed' = ToSet(keys)
      /\ pressed' \subseteq AllKeys
  <2>1. pressed = ToSet(prev_report.keys)
    BY DEF KeyInv, MemoriesAgree
  <2>2. pressed' = (pressed \cup (ToSet(keys) \ pressed)) \ (pressed \ ToSet(keys))
    BY <1>2, <2>1 DEF process_kbd_report, NewKeys, GoneKeys
  <2> QED
    BY <1>4, <2>2
<1>6. \A c \in Codes : down'[c] = DownIn(ToSet(keys), ms, c) /\ down'[c] \in Int
  BY <1>1, <1>2, ReportTells
<1>7. TypeOK'
  <2>1. held' \in [Keyboards -> [keys : SUBSET Keys, mods : SUBSET Mods]]
    BY DEF Report, KeyInv, TypeOK
  <2>2. /\ prev_report'.keys \in Seq(AllKeys) /\ prev_report'.mods \subseteq Mods
        /\ Len(prev_report'.keys) <= MaxKeys
    BY <1>1, <1>3
  <2>3. age' \in [AllKeys -> 0..Hold + 1]
    <3>1. age \in [AllKeys -> 0..Hold + 1] /\ 0 \in 0..Hold + 1
      BY KeysAssumption DEF KeyInv, TypeOK
    <3>2. age' = [k \in AllKeys |->
                    IF k \in NewKeys(keys) \cup GoneKeys(keys) THEN 0 ELSE age[k]]
      BY <1>2 DEF process_kbd_report
    <3> QED
      BY <3>1, <3>2
  <2>4. down' \in [Codes -> Int]
    <3>1. down' = [c \in Codes |-> down'[c]]
      BY <1>2 DEF process_kbd_report, Push
    <3> QED
      BY <1>6, <3>1
  <2>5. {caps_lock, shift_held, ctrl_held, terminated, mixed}' \subseteq BOOLEAN
    <3>1. /\ caps_lock' \in BOOLEAN /\ shift_held' \in BOOLEAN /\ ctrl_held' \in BOOLEAN
      BY <1>2 DEF process_kbd_report
    <3>2. terminated' \in BOOLEAN /\ mixed' \in BOOLEAN
      BY DEF Report, KeyInv, TypeOK
    <3> QED
      BY <3>1, <3>2
  <2> QED
    BY <1>5, <2>1, <2>2, <2>3, <2>4, <2>5 DEF TypeOK
<1>8. MemoriesAgree'
  BY <1>1, <1>3, <1>5 DEF MemoriesAgree
<1>9. Balanced'
  BY <1>3, <1>6 DEF Balanced
<1>10. ASSUME ~ mixed' PROVE LastReportTrue'
  <2>1. /\ Cardinality(ks) <= MaxKeys
        /\ \A o \in Keyboards \ {b} : held[o] = Nothing
    <3>1. Cardinality(ks) \in Nat /\ MaxKeys \in Nat
      <4>1. IsFiniteSet(ks)
        BY FS_Subset, KeysAssumption
      <4> QED
        BY <4>1, FS_CardinalityType, KeysAssumption
    <3>2. ~(Cardinality(ks) > MaxKeys \/ \E o \in Keyboards \ {b} : held[o] # Nothing)
      BY <1>10 DEF Report
    <3> QED
      BY <3>1, <3>2
  <2>2. held' = [held EXCEPT ![b] = [keys |-> ks, mods |-> ms]] /\ DOMAIN held = Keyboards
    BY DEF Report, KeyInv, TypeOK
  <2>3. held'[b] = [keys |-> ToSet(prev_report'.keys), mods |-> prev_report'.mods]
    BY <1>1, <1>3, <2>1, <2>2
  <2>4. \A o \in Keyboards \ {b} : held'[o] = Nothing
    BY <2>1, <2>2
  <2> QED
    BY <2>3, <2>4 DEF LastReportTrue, Nothing
<1> QED
  BY <1>7, <1>8, <1>9, <1>10 DEF KeyInv

\* Nothing is told when a keyboard is pulled out or time passes.
LEMMA QuietKeeps ==
    ASSUME KeyInv, (\E b \in Keyboards : Unplug(b)) \/ Tick
    PROVE  KeyInv'
<1>1. /\ UNCHANGED <<prev_report, pressed, caps_lock, shift_held, ctrl_held, down, terminated>>
      /\ held' \in [Keyboards -> [keys : SUBSET Keys, mods : SUBSET Mods]]
      /\ age' \in [AllKeys -> 0..Hold + 1] /\ mixed' \in BOOLEAN
      /\ mixed' \/ UNCHANGED <<held, mixed>>
  <2>1. CASE \E b \in Keyboards : Unplug(b)
    BY <2>1 DEF Unplug, Nothing, KeyInv, TypeOK
  <2>2. CASE Tick
    <3>1. /\ age \in [AllKeys -> 0..Hold + 1] /\ Hold \in Nat
          /\ age' = [k \in AllKeys |->
                       IF k \in pressed /\ age[k] <= Hold THEN age[k] + 1 ELSE age[k]]
      BY <2>2, KeysAssumption DEF Tick, KeyInv, TypeOK
    <3>2. age' \in [AllKeys -> 0..Hold + 1]
      BY <3>1
    <3> QED
      BY <2>2, <3>2 DEF Tick, KeyInv, TypeOK
  <2> QED
    BY <2>1, <2>2
<1>2. TypeOK'
  BY <1>1 DEF KeyInv, TypeOK
<1>3. MemoriesAgree' /\ Balanced'
  BY <1>1 DEF KeyInv, MemoriesAgree, Balanced
<1>4. ~ mixed' => LastReportTrue'
  BY <1>1 DEF KeyInv, LastReportTrue, Nothing
<1> QED
  BY <1>2, <1>3, <1>4 DEF KeyInv

\* The time from now to a press is never long.
LEMMA NeverLong ==
    ASSUME TypeOK, NEW k
    PROVE  ~ HeldLong(k)
<1>1. ASSUME k \in pressed PROVE ~(TimeDiff(Now, PressTime(k)) > Hold)
  BY <1>1, KeysAssumption DEF TypeOK, TimeDiff, Now, PressTime
<1> QED
  BY <1>1 DEF HeldLong

\* So the repeat timer finds nothing to do.
LEMMA RepeatKeeps ==
    ASSUME KeyInv, RepeatTimer
    PROVE  KeyInv'
<1>1. \A k : ~ HeldLong(k)
  BY NeverLong DEF KeyInv
<1> DEFINE repeats == SetToSeq({})
           told == <<>> \o FlattenSeq([i \in DOMAIN repeats |->
                    <<Key(repeats[i], TRUE)>> \o
                    (IF repeats[i] \in Prints
                       THEN <<Char(repeats[i], shift_held # caps_lock)>>
                       ELSE <<>>)])
<1>2. /\ pressed' = pressed /\ age' = age /\ terminated' = terminated
      /\ UNCHANGED <<held, prev_report, caps_lock, shift_held, ctrl_held, mixed>>
      /\ Push(told)
  <2>1. {k \in pressed : HeldLong(k) /\ Code[k] # 0} = {}
    BY <1>1
  <2> QED
    BY <1>1, <2>1 DEF RepeatTimer, KeyInv, TypeOK
<1>3. repeats = <<>>
  <2>1. Len(repeats) = 0 /\ repeats \in Seq({})
    BY SetSeq, FS_EmptySet
  <2> HIDE DEF repeats
  <2> QED
    BY <2>1
<1>4. told = <<>>
  <2> HIDE DEF repeats
  <2> QED
    BY <1>3 DEF FlattenSeq
<1> HIDE DEF told
<1>5. \A c \in Codes : CountOf(told, "key", c) = 0 /\ CountOf(told, "key_up", c) = 0
  BY <1>4, CountNone
<1>6. down' = down
  <2>1. down \in [Codes -> Int]
    BY DEF KeyInv, TypeOK
  <2>2. down' = [c \in Codes |-> down[c] + CountOf(told, "key", c)
                                         - CountOf(told, "key_up", c)]
    BY <1>2 DEF Push
  <2>3. \A c \in Codes : down'[c] = down[c]
    BY <1>5, <2>1, <2>2
  <2> QED
    BY <2>1, <2>2, <2>3
<1> QED
  BY <1>2, <1>6 DEF KeyInv, TypeOK, MemoriesAgree, Balanced, LastReportTrue, Nothing

\* Every step keeps the invariant.
LEMMA Inductive == KeyInv /\ [Next]_vars => KeyInv'
<1> SUFFICES ASSUME KeyInv, [Next]_vars PROVE KeyInv'
  OBVIOUS
<1>1. ASSUME NEW b \in Keyboards, NEW ks \in SUBSET Keys, NEW ms \in SUBSET Mods,
             Report(b, ks, ms)
      PROVE  KeyInv'
  BY <1>1, ReportKeeps
<1>2. CASE (\E b \in Keyboards : Unplug(b)) \/ Tick
  BY <1>2, QuietKeeps
<1>3. CASE RepeatTimer
  BY <1>3, RepeatKeeps
<1>4. CASE UNCHANGED vars
  BY <1>4 DEF vars, KeyInv, TypeOK, MemoriesAgree, Balanced, LastReportTrue, Nothing
<1> QED
  BY <1>1, <1>2, <1>3, <1>4 DEF Next

\* The invariant holds in every reachable state.
LEMMA AlwaysKeyInv == Spec => []KeyInv
BY Initial, Inductive, PTL DEF Spec

\* The state of drivers/hid.cpp keeps its types; a report is never longer
\* than its slots.
THEOREM KeyboardTyped == Spec => []TypeOK
<1>1. KeyInv => TypeOK
  BY DEF KeyInv
<1> QED
  BY <1>1, AlwaysKeyInv, PTL

\* What the program was told adds up to the last report, however keys,
\* modifiers and key codes are shared (process_kbd_report's three loops).
THEOREM PressesBalance == Spec => []Balanced
<1>1. KeyInv => Balanced
  BY DEF KeyInv
<1> QED
  BY <1>1, AlwaysKeyInv, PTL

\* Where the last report tells what is down on one keyboard, and nothing is
\* down on the others, the keys that are down are those of the report.
LEMMA ReportHolds ==
    ASSUME KeyInv, LastReportTrue, NEW c \in Codes
    PROVE  DownIn(ToSet(prev_report.keys), prev_report.mods, c) = Holders(c)
<1> DEFINE ks == ToSet(prev_report.keys) \cup prev_report.mods
           W == With(ks, c)
           H == {on \in Keyboards \X (Keys \cup Mods) :
                   /\ on[2] \in held[on[1]].keys \cup held[on[1]].mods
                   /\ Code[on[2]] = c}
<1>1. DownIn(ToSet(prev_report.keys), prev_report.mods, c) = Cardinality(W)
  BY DEF DownIn, With
<1>2. Holders(c) = Cardinality(H)
  BY DEF Holders
<1>3. CASE /\ prev_report = [keys |-> <<>>, mods |-> {}]
           /\ \A b \in Keyboards : held[b] = Nothing
  <2>1. ks = {}
    BY <1>3 DEF ToSet
  <2>2. W = {}
    BY <2>1 DEF With
  <2>3. H = {}
    BY <1>3 DEF Nothing
  <2> HIDE DEF W, H
  <2> QED
    BY <1>1, <1>2, <2>2, <2>3
<1>4. ASSUME NEW b \in Keyboards,
             held[b] = [keys |-> ToSet(prev_report.keys), mods |-> prev_report.mods],
             \A o \in Keyboards \ {b} : held[o] = Nothing
      PROVE  Cardinality(W) = Cardinality(H)
  <2>1. ks \in SUBSET (Keys \cup Mods)
    <3>1. held[b].keys \in SUBSET Keys /\ held[b].mods \in SUBSET Mods
      BY DEF KeyInv, TypeOK
    <3> QED
      BY <1>4, <3>1
  <2>2. IsFiniteSet(W)
    BY <2>1, FiniteWith DEF AllKeys
  <2> DEFINE f == [k \in W |-> <<b, k>>]
  <2>3. H = {<<b, k>> : k \in W}
    <3>1. ASSUME NEW on \in H PROVE \E k \in W : on = <<b, k>>
      <4>1. on[1] = b
        BY <1>4 DEF Nothing
      <4>2. on[2] \in W /\ on = <<on[1], on[2]>>
        BY <1>4, <4>1 DEF With
      <4> QED
        BY <4>1, <4>2
    <3>2. ASSUME NEW k \in W PROVE <<b, k>> \in H
      <4>1. k \in ks /\ Code[k] = c /\ k \in Keys \cup Mods
        BY <2>1 DEF With
      <4>2. k \in held[b].keys \cup held[b].mods
        BY <1>4, <4>1
      <4> QED
        BY <4>1, <4>2
    <3> HIDE DEF H, W
    <3> QED
      BY <3>1, <3>2
  <2> HIDE DEF W, H
  <2>4. f \in [W -> H] /\ (\A i, j \in W : f[i] = f[j] => i = j)
        /\ \A h \in H : \E k \in W : f[k] = h
    BY <2>3
  <2> HIDE DEF f
  <2>5. f \in Bijection(W, H)
    BY <2>4 DEF Bijection, Injection, Surjection, IsInjective
  <2>6. ExistsBijection(W, H)
    BY <2>5 DEF ExistsBijection
  <2> QED
    BY <2>2, <2>6, FS_Bijection
<1>5. CASE \E b \in Keyboards :
             /\ held[b] = [keys |-> ToSet(prev_report.keys), mods |-> prev_report.mods]
             /\ \A o \in Keyboards \ {b} : held[o] = Nothing
  <2> HIDE DEF W, H
  <2> QED
    BY <1>1, <1>2, <1>4, <1>5
<1> QED
  BY <1>3, <1>5 DEF LastReportTrue

\* While the reports are the whole truth the program knows the keys that are
\* down (process_kbd_report, tuh_hid_umount_cb).
THEOREM KeysAreKnown == Spec => []ProgramKnowsKeys
<1>1. ASSUME KeyInv, ~ mixed, NEW c \in Codes PROVE down[c] = Holders(c)
  BY <1>1, ReportHolds DEF KeyInv, Balanced
<1>2. KeyInv => ProgramKnowsKeys
  BY <1>1 DEF ProgramKnowsKeys
<1> QED
  BY <1>2, AlwaysKeyInv, PTL
============================================================================
