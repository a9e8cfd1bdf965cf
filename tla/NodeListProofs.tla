--------------------------- MODULE NodeListProofs ---------------------------
(***************************************************************************)
(* Proofs about the lists of objects and of textures, for every set of     *)
(* nodes, ids and names and every number of calls: lemmas about the        *)
(* sequences that stand for linked lists, then the drawing of a frame      *)
(* (ObjectList), the memory of the texture units (TmuMemory), and the      *)
(* loads of textures that share it (TextureLists).                         *)
(***************************************************************************)
EXTENDS ObjectList, TextureLists, SequenceTheorems, FiniteSetTheorems,
        WellFoundedInduction, TLAPS

-----------------------------------------------------------------------------
(***************************************************************************)
(* Sequences without repetition.                                           *)
(***************************************************************************)

\* a stands before b on the list.
Ahead(s, a, b) == \E i, j \in DOMAIN s : i < j /\ s[i] = a /\ s[j] = b

\* The nodes of the list are of X, and none is on it twice.
NodeList(s, X) == s \in Seq(X) /\ IsInjective(s)

\* The positions of a sequence are 1 to its length, and what is at them are its nodes.
LEMMA ListIndices ==
  ASSUME NEW X, NEW s \in Seq(X)
  PROVE  /\ Len(s) \in Nat /\ DOMAIN s = 1 .. Len(s)
         /\ \A i \in DOMAIN s : s[i] \in X
         /\ ToSet(s) \subseteq X
         /\ ToSet(s) = {} <=> s = <<>>
<1>1. Len(s) \in Nat /\ DOMAIN s = 1 .. Len(s) /\ \A i \in DOMAIN s : s[i] \in X
  BY LenProperties, ElementOfSeq
<1>2. s # <<>> => 1 \in DOMAIN s
  BY <1>1, EmptySeq
<1>3. s = <<>> => DOMAIN s = {}
  BY <1>1, EmptySeq
<1> QED BY <1>1, <1>2, <1>3 DEF ToSet

\* What stands before something on the list is on the list.
LEMMA AheadNodes ==
  ASSUME NEW X, NEW s \in Seq(X), NEW a, NEW b, Ahead(s, a, b)
  PROVE  a \in ToSet(s) /\ b \in ToSet(s)
BY DEF Ahead, ToSet

\* On a list without repetition, the order is strict and total.
LEMMA AheadOrders ==
  ASSUME NEW X, NEW s, NodeList(s, X)
  PROVE  /\ \A a, b \in ToSet(s) : a # b => Ahead(s, a, b) \/ Ahead(s, b, a)
         /\ \A a, b : Ahead(s, a, b) => a # b /\ ~Ahead(s, b, a)
<1>1. s \in Seq(X) /\ DOMAIN s \subseteq Int
  BY ListIndices DEF NodeList
<1>2. ASSUME NEW a \in ToSet(s), NEW b \in ToSet(s), a # b
      PROVE  Ahead(s, a, b) \/ Ahead(s, b, a)
  <2>1. PICK i \in DOMAIN s : s[i] = a
    BY DEF ToSet
  <2>2. PICK j \in DOMAIN s : s[j] = b
    BY DEF ToSet
  <2>3. i < j \/ j < i
    BY <1>1, <1>2, <2>1, <2>2
  <2> QED BY <2>1, <2>2, <2>3 DEF Ahead
<1>3. ASSUME NEW a, NEW b, Ahead(s, a, b)
      PROVE  a # b /\ ~Ahead(s, b, a)
  <2>1. PICK i \in DOMAIN s, j \in DOMAIN s : i < j /\ s[i] = a /\ s[j] = b
    BY <1>3 DEF Ahead
  <2>2. \A k \in DOMAIN s : (s[k] = a => k = i) /\ (s[k] = b => k = j)
    BY <2>1 DEF NodeList, IsInjective
  <2>3. i \in Int /\ j \in Int
    BY <1>1, <2>1
  <2> QED BY <2>1, <2>2, <2>3 DEF Ahead
<1> QED BY <1>2, <1>3

\* A list of nodes is a list of its own nodes.
LEMMA ListOfSet ==
  ASSUME NEW X, NEW s, NodeList(s, X)
  PROVE  NodeList(s, ToSet(s))
<1>1. s \in Seq(X)
  BY DEF NodeList
<1>2. \A i \in 1 .. Len(s) : s[i] \in ToSet(s)
  BY <1>1, ListIndices DEF ToSet
<1>3. Len(s) \in Nat /\ s = [i \in 1 .. Len(s) |-> s[i]]
  BY <1>1, LenProperties
<1>4. s \in Seq(ToSet(s))
  BY <1>2, <1>3, IsASeq
<1> QED BY <1>4 DEF NodeList

\* What is on both parts of a list, and in which order.
LEMMA Joined ==
  ASSUME NEW X, NEW s, NEW t, NodeList(s, X), NodeList(t, X),
         ToSet(s) \cap ToSet(t) = {}
  PROVE  /\ NodeList(s \o t, X)
         /\ ToSet(s \o t) = ToSet(s) \cup ToSet(t)
         /\ \A a, b : Ahead(s \o t, a, b) =>
              \/ Ahead(s, a, b) \/ Ahead(t, a, b)
              \/ a \in ToSet(s) /\ b \in ToSet(t)
<1> DEFINE u == s \o t
<1>1. s \in Seq(X) /\ t \in Seq(X)
  BY DEF NodeList
<1>2. /\ u \in Seq(X) /\ Len(u) = Len(s) + Len(t)
      /\ \A i \in 1 .. Len(s) + Len(t) :
           u[i] = IF i <= Len(s) THEN s[i] ELSE t[i - Len(s)]
  BY <1>1, ConcatProperties
<1>3. /\ Len(s) \in Nat /\ DOMAIN s = 1 .. Len(s)
      /\ Len(t) \in Nat /\ DOMAIN t = 1 .. Len(t) /\ DOMAIN u = 1 .. Len(u)
  BY <1>1, <1>2, ListIndices
<1> HIDE DEF u
<1>4. \A i \in DOMAIN u : \/ i \in DOMAIN s /\ i <= Len(s) /\ u[i] = s[i]
                          \/ i - Len(s) \in DOMAIN t /\ i > Len(s) /\ u[i] = t[i - Len(s)]
  BY <1>2, <1>3
<1>5. /\ \A i \in DOMAIN s : i \in DOMAIN u /\ u[i] = s[i]
      /\ \A i \in DOMAIN t : i + Len(s) \in DOMAIN u /\ u[i + Len(s)] = t[i]
  BY <1>2, <1>3
<1>6. ToSet(u) = ToSet(s) \cup ToSet(t)
  BY <1>4, <1>5 DEF ToSet
<1>7. IsInjective(u)
  <2> SUFFICES ASSUME NEW i \in DOMAIN u, NEW j \in DOMAIN u, u[i] = u[j]
               PROVE  i = j
    BY DEF IsInjective
  <2>0. i \in Int /\ j \in Int
    BY <1>2, <1>3
  <2>1. CASE i <= Len(s) /\ j <= Len(s)
    BY <1>3, <1>4, <2>1 DEF NodeList, IsInjective
  <2>2. CASE i > Len(s) /\ j > Len(s)
    <3>1. i - Len(s) = j - Len(s)
      BY <1>3, <1>4, <2>2 DEF NodeList, IsInjective
    <3> QED BY <1>3, <2>0, <3>1
  <2>3. ~(i <= Len(s) /\ j > Len(s)) /\ ~(i > Len(s) /\ j <= Len(s))
    BY <1>3, <1>4 DEF ToSet
  <2> QED BY <1>3, <2>0, <2>1, <2>2, <2>3
<1>8. ASSUME NEW a, NEW b, Ahead(u, a, b)
      PROVE  \/ Ahead(s, a, b) \/ Ahead(t, a, b)
             \/ a \in ToSet(s) /\ b \in ToSet(t)
  <2>1. PICK i \in DOMAIN u, j \in DOMAIN u : i < j /\ u[i] = a /\ u[j] = b
    BY <1>8 DEF Ahead
  <2>0. i \in Int /\ j \in Int
    BY <1>2, <1>3, <2>1
  <2>2. CASE j <= Len(s)
    <3>1. i \in DOMAIN s /\ j \in DOMAIN s /\ u[i] = s[i] /\ u[j] = s[j]
      BY <1>3, <1>4, <2>0, <2>1, <2>2
    <3> QED BY <2>1, <3>1 DEF Ahead
  <2>3. CASE i > Len(s)
    <3>1. /\ i - Len(s) \in DOMAIN t /\ j - Len(s) \in DOMAIN t
          /\ i - Len(s) < j - Len(s)
          /\ u[i] = t[i - Len(s)] /\ u[j] = t[j - Len(s)]
      BY <1>3, <1>4, <2>0, <2>1, <2>3
    <3> QED BY <2>1, <3>1 DEF Ahead
  <2>4. CASE i <= Len(s) /\ j > Len(s)
    <3>1. u[i] \in ToSet(s) /\ u[j] \in ToSet(t)
      BY <1>3, <1>4, <2>0, <2>1, <2>4 DEF ToSet
    <3> QED BY <2>1, <3>1
  <2> QED BY <1>3, <2>0, <2>2, <2>3, <2>4
<1> QED BY <1>2, <1>6, <1>7, <1>8 DEF NodeList, u

\* The two parts of a list without repetition share no node.
LEMMA Parted ==
  ASSUME NEW X, NEW s \in Seq(X), NEW t \in Seq(X), IsInjective(s \o t)
  PROVE  NodeList(s, X) /\ NodeList(t, X) /\ ToSet(s) \cap ToSet(t) = {}
<1> DEFINE u == s \o t
<1>2. /\ u \in Seq(X) /\ Len(u) = Len(s) + Len(t)
      /\ \A i \in 1 .. Len(s) + Len(t) :
           u[i] = IF i <= Len(s) THEN s[i] ELSE t[i - Len(s)]
  BY ConcatProperties
<1>3. /\ Len(s) \in Nat /\ DOMAIN s = 1 .. Len(s)
      /\ Len(t) \in Nat /\ DOMAIN t = 1 .. Len(t) /\ DOMAIN u = 1 .. Len(u)
  BY <1>2, ListIndices
<1>4. \A i, j \in DOMAIN u : u[i] = u[j] => i = j
  BY DEF IsInjective
<1> HIDE DEF u
<1>5. /\ \A i \in DOMAIN s : i \in DOMAIN u /\ u[i] = s[i]
      /\ \A i \in DOMAIN t : i + Len(s) \in DOMAIN u /\ u[i + Len(s)] = t[i]
  BY <1>2, <1>3
<1>6. IsInjective(s)
  BY <1>4, <1>5 DEF IsInjective
<1>7. ASSUME NEW i \in DOMAIN t, NEW j \in DOMAIN t, t[i] = t[j]
      PROVE  i = j
  <2>1. i + Len(s) = j + Len(s)
    BY <1>4, <1>5, <1>7
  <2> QED BY <1>3, <2>1
<1>8. ASSUME NEW i \in DOMAIN s, NEW j \in DOMAIN t, s[i] = t[j]
      PROVE  FALSE
  <2>1. i = j + Len(s)
    BY <1>4, <1>5, <1>8
  <2> QED BY <1>3, <2>1
<1>9. ToSet(s) \cap ToSet(t) = {}
  BY <1>8 DEF ToSet
<1> QED BY <1>6, <1>7, <1>9 DEF NodeList, IsInjective

\* A list turned round has the same nodes.
LEMMA Reversed ==
  ASSUME NEW X, NEW s, NodeList(s, X)
  PROVE  NodeList(Reverse(s), X) /\ ToSet(Reverse(s)) = ToSet(s)
<1> DEFINE r == Reverse(s)
<1>1. /\ Len(s) \in Nat /\ DOMAIN s = 1 .. Len(s)
      /\ \A i \in DOMAIN s : s[i] \in X
  BY ListIndices DEF NodeList
<1>2. r = [i \in 1 .. Len(s) |-> s[(Len(s) - i) + 1]]
  BY DEF Reverse
<1>3. \A i \in 1 .. Len(s) : /\ (Len(s) - i) + 1 \in 1 .. Len(s)
                             /\ (Len(s) - ((Len(s) - i) + 1)) + 1 = i
  BY <1>1
<1>4. r \in Seq(X)
  <2>1. \A i \in 1 .. Len(s) : s[(Len(s) - i) + 1] \in X
    BY <1>1, <1>3
  <2> QED BY <1>1, <1>2, <2>1, IsASeq
<1>5. DOMAIN r = 1 .. Len(s) /\ \A i \in 1 .. Len(s) : r[i] = s[(Len(s) - i) + 1]
  BY <1>2
<1> HIDE DEF r
<1>6. ToSet(r) = ToSet(s)
  <2>1. \A i \in DOMAIN r : r[i] \in ToSet(s)
    BY <1>1, <1>3, <1>5 DEF ToSet
  <2>2. \A i \in DOMAIN s : \E j \in DOMAIN r : r[j] = s[i]
    BY <1>1, <1>3, <1>5
  <2> QED BY <2>1, <2>2 DEF ToSet
<1>7. IsInjective(r)
  <2> SUFFICES ASSUME NEW i \in DOMAIN r, NEW j \in DOMAIN r, r[i] = r[j]
               PROVE  i = j
    BY DEF IsInjective
  <2>1. (Len(s) - i) + 1 = (Len(s) - j) + 1
    BY <1>1, <1>3, <1>5 DEF NodeList, IsInjective
  <2> QED BY <1>1, <1>5, <2>1
<1> QED BY <1>4, <1>6, <1>7 DEF NodeList, r

\* A list without its first node.
LEMMA Shortened ==
  ASSUME NEW X, NEW s, NodeList(s, X), s # <<>>
  PROVE  /\ Head(s) \in ToSet(s) /\ Head(s) = s[1]
         /\ NodeList(Tail(s), X)
         /\ ToSet(Tail(s)) = ToSet(s) \ {Head(s)}
<1> DEFINE t == Tail(s)
<1>1. s \in Seq(X) /\ Len(s) \in Nat \ {0} /\ DOMAIN s = 1 .. Len(s)
  BY EmptySeq, ListIndices DEF NodeList
<1>2. Head(s) = s[1] /\ 1 \in DOMAIN s
  BY <1>1
<1>3. /\ t \in Seq(X) /\ Len(t) = Len(s) - 1
      /\ \A i \in 1 .. Len(t) : t[i] = s[i + 1]
  BY <1>1, HeadTailProperties
<1>4. DOMAIN t = 1 .. Len(t)
  BY <1>3, ListIndices
<1> HIDE DEF t
<1>5. \A i \in DOMAIN t : i \in Int /\ i + 1 \in DOMAIN s /\ i + 1 # 1 /\ t[i] = s[i + 1]
  BY <1>1, <1>3, <1>4
<1>6. \A i \in DOMAIN s : i # 1 => i - 1 \in DOMAIN t /\ t[i - 1] = s[i]
  BY <1>1, <1>3, <1>4
<1>7. \A i, j \in DOMAIN s : s[i] = s[j] => i = j
  BY DEF NodeList, IsInjective
<1>8. IsInjective(t)
  <2> SUFFICES ASSUME NEW i \in DOMAIN t, NEW j \in DOMAIN t, t[i] = t[j]
               PROVE  i = j
    BY DEF IsInjective
  <2>1. i + 1 = j + 1
    BY <1>5, <1>7
  <2> QED BY <1>5, <2>1
<1>9. ToSet(t) \subseteq ToSet(s) \ {Head(s)}
  BY <1>2, <1>5, <1>7 DEF ToSet
<1>10. ToSet(s) \ {Head(s)} \subseteq ToSet(t)
  BY <1>2, <1>6 DEF ToSet
<1> QED BY <1>2, <1>3, <1>8, <1>9, <1>10 DEF NodeList, ToSet, t

\* A list of one node, in front of which there is nothing.
LEMMA OneNode ==
  ASSUME NEW X, NEW n \in X
  PROVE  /\ NodeList(<<n>>, X) /\ ToSet(<<n>>) = {n}
         /\ \A a, b : ~Ahead(<<n>>, a, b)
<1>1. <<n>> \in Seq(X) /\ DOMAIN <<n>> = {1} /\ <<n>>[1] = n
  OBVIOUS
<1> QED BY <1>1 DEF NodeList, ToSet, IsInjective, Ahead

\* The empty list.
LEMMA NoNodes ==
  ASSUME NEW X
  PROVE  NodeList(<<>>, X) /\ ToSet(<<>>) = {} /\ \A a, b : ~Ahead(<<>>, a, b)
<1>1. <<>> \in Seq(X) /\ DOMAIN <<>> = {}
  BY EmptySeq, ListIndices
<1> QED BY <1>1 DEF NodeList, ToSet, IsInjective, Ahead

\* Any part of the end of a list is a list of its own.
LEMMA Onwards ==
  ASSUME NEW X, NEW s, NodeList(s, X), NEW m \in 1 .. Len(s) + 1
  PROVE  /\ NodeList(SubSeq(s, m, Len(s)), X)
         /\ ToSet(SubSeq(s, m, Len(s))) = {s[i] : i \in m .. Len(s)}
<1> DEFINE t == SubSeq(s, m, Len(s))
<1>1. s \in Seq(X) /\ Len(s) \in Nat /\ DOMAIN s = 1 .. Len(s) /\ m \in Int
      /\ \A i \in m .. Len(s) : s[i] \in X
  BY ListIndices DEF NodeList
<1>2. /\ t \in Seq(X)
      /\ Len(t) = IF m <= Len(s) THEN Len(s) - m + 1 ELSE 0
      /\ \A i \in 1 .. Len(s) - m + 1 : t[i] = s[m + i - 1]
  BY <1>1, SubSeqProperties
<1>3. DOMAIN t = 1 .. Len(s) - m + 1
  BY <1>1, <1>2, ListIndices
<1> HIDE DEF t
<1>4. \A i \in DOMAIN t : i \in Int /\ m + i - 1 \in m .. Len(s) /\ t[i] = s[m + i - 1]
  <2> SUFFICES ASSUME NEW i \in 1 .. Len(s) - m + 1
               PROVE  i \in Int /\ m + i - 1 \in m .. Len(s) /\ t[i] = s[m + i - 1]
    BY <1>3
  <2>1. t[i] = s[m + i - 1]
    BY <1>2
  <2>2. i \in Int /\ m + i - 1 \in m .. Len(s)
    BY <1>1
  <2> QED BY <2>1, <2>2
<1>5. \A i \in m .. Len(s) : (i - m) + 1 \in DOMAIN t /\ t[(i - m) + 1] = s[i]
  <2> SUFFICES ASSUME NEW i \in m .. Len(s)
               PROVE  (i - m) + 1 \in DOMAIN t /\ t[(i - m) + 1] = s[i]
    OBVIOUS
  <2>1. (i - m) + 1 \in 1 .. Len(s) - m + 1 /\ m + ((i - m) + 1) - 1 = i
    BY <1>1
  <2> QED BY <1>2, <1>3, <2>1
<1>6. IsInjective(t)
  <2> SUFFICES ASSUME NEW i \in DOMAIN t, NEW j \in DOMAIN t, t[i] = t[j]
               PROVE  i = j
    BY DEF IsInjective
  <2>1. m .. Len(s) \subseteq DOMAIN s
    BY <1>1
  <2>2. m + i - 1 = m + j - 1
    BY <1>4, <2>1 DEF NodeList, IsInjective
  <2> QED BY <1>1, <1>4, <2>2
<1>7. ToSet(t) = {s[i] : i \in m .. Len(s)}
  <2>1. \A i \in DOMAIN t : t[i] \in {s[k] : k \in m .. Len(s)}
    BY <1>4
  <2>2. \A i \in m .. Len(s) : \E k \in DOMAIN t : t[k] = s[i]
    BY <1>5
  <2> QED BY <2>1, <2>2 DEF ToSet
<1> QED BY <1>2, <1>6, <1>7 DEF NodeList, t

-----------------------------------------------------------------------------
(***************************************************************************)
(* Kept(list, nodes): the positions of its members, counted through, make  *)
(* the same members in the same order.                                     *)
(***************************************************************************)

Places(s, S) == {i \in DOMAIN s : s[i] \in S}

\* The positions of the members, in increasing order, are what Kept goes through: each is
\* found by the number of members before it.
LEMMA KeptPositions ==
  ASSUME NEW X, NEW s \in Seq(X), NEW S
  PROVE  \E pos \in [1 .. Cardinality(Places(s, S)) -> Places(s, S)] :
           /\ Cardinality(Places(s, S)) \in Nat
           /\ Kept(s, S) = [k \in 1 .. Cardinality(Places(s, S)) |-> s[pos[k]]]
           /\ \A j, k \in DOMAIN pos : j < k => pos[j] < pos[k]
           /\ \A i \in Places(s, S) : \E k \in DOMAIN pos : pos[k] = i
<1> USE DEF Places
<1> DEFINE at == Places(s, S)
           before(i) == {j \in at : j < i}
           C == Cardinality(at)
           pos == [k \in 1 .. C |-> CHOOSE i \in at : Cardinality(before(i)) = k - 1]
           count == [i \in at |-> Cardinality(before(i))]
<1>1. at \subseteq 1 .. Len(s) /\ Len(s) \in Nat
  BY ListIndices
<1>2. IsFiniteSet(at) /\ C \in Nat
  <2> HIDE DEF at
  <2>1. IsFiniteSet(1 .. Len(s))
    BY <1>1, FS_Interval
  <2> QED BY <1>1, <2>1, FS_Subset, FS_CardinalityType
<1>3. \A i \in at : i \in Int
  BY <1>1
<1>4. \A i \in at : IsFiniteSet(before(i)) /\ Cardinality(before(i)) \in Nat
  <2> SUFFICES ASSUME NEW i \in at
               PROVE  IsFiniteSet(before(i)) /\ Cardinality(before(i)) \in Nat
    OBVIOUS
  <2>1. before(i) \subseteq at
    OBVIOUS
  <2> HIDE DEF before
  <2> QED BY <1>2, <2>1, FS_Subset, FS_CardinalityType
<1>5. \A i, j \in at : i < j => Cardinality(before(i)) < Cardinality(before(j))
  <2> SUFFICES ASSUME NEW i \in at, NEW j \in at, i < j
               PROVE  Cardinality(before(i)) < Cardinality(before(j))
    OBVIOUS
  <2>1. before(i) \subseteq before(j) /\ before(i) # before(j)
    <3>1. i \in before(j) /\ i \notin before(i)
      BY <1>3
    <3>2. \A k \in at : k < i => k < j
      BY <1>3
    <3> QED BY <3>1, <3>2
  <2>2. IsFiniteSet(before(j)) /\ Cardinality(before(j)) \in Nat
        /\ Cardinality(before(i)) \in Nat
    BY <1>4
  <2> HIDE DEF before
  <2>3. Cardinality(before(i)) <= Cardinality(before(j))
        /\ Cardinality(before(i)) # Cardinality(before(j))
    BY <2>1, <2>2, FS_Subset
  <2> QED BY <2>2, <2>3
<1>6. \A i \in at : Cardinality(before(i)) < C
  <2> SUFFICES ASSUME NEW i \in at
               PROVE  Cardinality(before(i)) < C
    OBVIOUS
  <2>1. before(i) \subseteq at /\ before(i) # at
    BY <1>3
  <2>2. Cardinality(before(i)) \in Nat
    BY <1>4
  <2> HIDE DEF before, at
  <2>3. Cardinality(before(i)) <= C /\ Cardinality(before(i)) # C
    BY <1>2, <2>1, FS_Subset
  <2> QED BY <1>2, <2>2, <2>3
<1>7. count \in Injection(at, 0 .. C - 1)
  <2>1. count \in [at -> 0 .. C - 1]
    <3>1. \A i \in at : Cardinality(before(i)) \in 0 .. C - 1
      <4> HIDE DEF before, at, C
      <4> QED BY <1>2, <1>4, <1>6
    <3> QED BY <3>1
  <2>2. ASSUME NEW i \in at, NEW j \in at, count[i] = count[j]
        PROVE  i = j
    <3>1. /\ Cardinality(before(i)) = Cardinality(before(j))
          /\ Cardinality(before(i)) \in Nat
      BY <1>4, <2>2
    <3>2. ~(i < j) /\ ~(j < i)
      <4> HIDE DEF before, at
      <4> QED BY <1>5, <3>1
    <3> QED BY <1>3, <3>2
  <2> QED BY <2>1, <2>2 DEF Injection, IsInjective
<1>8. \A k \in 0 .. C - 1 : \E i \in at : Cardinality(before(i)) = k
  <2>1. IsFiniteSet(0 .. C - 1) /\ Cardinality(0 .. C - 1) = C
    <3> HIDE DEF C
    <3>1. 0 \in Int /\ C - 1 \in Int
      BY <1>2
    <3>2. IsFiniteSet(0 .. C - 1) /\
          Cardinality(0 .. C - 1) = IF 0 > C - 1 THEN 0 ELSE (C - 1) - 0 + 1
      BY <3>1, FS_Interval
    <3> QED BY <1>2, <3>2
  <2>2. count \in Surjection(at, 0 .. C - 1)
    <3> HIDE DEF at, count
    <3> QED BY <1>7, <2>1, FS_Injection
  <2> QED BY <2>2 DEF Surjection
<1>9. \A k \in 1 .. C : pos[k] \in at /\ Cardinality(before(pos[k])) = k - 1
  <2> SUFFICES ASSUME NEW k \in 1 .. C
               PROVE  pos[k] \in at /\ Cardinality(before(pos[k])) = k - 1
    OBVIOUS
  <2>1. k - 1 \in 0 .. C - 1
    BY <1>2
  <2>2. \E i \in at : Cardinality(before(i)) = k - 1
    BY <1>8, <2>1
  <2> HIDE DEF at, before
  <2> QED BY <2>2
<1>10. pos \in [1 .. C -> at]
  BY <1>9
<1>11. Kept(s, S) = [k \in 1 .. C |-> s[pos[k]]]
  BY DEF Kept
<1>12. ASSUME NEW j \in 1 .. C, NEW k \in 1 .. C, j < k
       PROVE  pos[j] < pos[k]
  <2>1. pos[j] \in at /\ pos[k] \in at
        /\ Cardinality(before(pos[j])) = j - 1 /\ Cardinality(before(pos[k])) = k - 1
    BY <1>9
  <2> HIDE DEF pos, before
  <2>2. ~(pos[k] < pos[j])
    BY <1>2, <1>5, <1>12, <2>1
  <2>3. pos[k] # pos[j]
    BY <1>2, <1>12, <2>1
  <2> QED BY <1>3, <2>1, <2>2, <2>3
<1>13. ASSUME NEW i \in at
       PROVE  \E k \in 1 .. C : pos[k] = i
  <2> DEFINE k == Cardinality(before(i)) + 1
  <2>1. k \in 1 .. C /\ Cardinality(before(i)) = k - 1
    <3> HIDE DEF before, at, C
    <3> QED BY <1>2, <1>4, <1>6
  <2> HIDE DEF k
  <2>2. pos[k] \in at /\ Cardinality(before(pos[k])) = Cardinality(before(i))
    BY <1>9, <2>1
  <2> HIDE DEF pos
  <2>3. ~(pos[k] < i) /\ ~(i < pos[k])
    <3>1. Cardinality(before(i)) \in Nat
      BY <1>4
    <3> HIDE DEF before, at
    <3> QED BY <1>5, <2>2, <3>1
  <2>4. pos[k] = i
    BY <1>3, <2>2, <2>3
  <2> QED BY <2>1, <2>4
<1>14. DOMAIN pos = 1 .. C
  OBVIOUS
<1> HIDE DEF Places, pos, before
<1> QED BY <1>2, <1>10, <1>11, <1>12, <1>13, <1>14

\* Kept(list, nodes) has the members of the list, once each and in the order of the list.
LEMMA KeptFacts ==
  ASSUME NEW X, NEW s, NodeList(s, X), NEW S
  PROVE  /\ NodeList(Kept(s, S), X)
         /\ ToSet(Kept(s, S)) = ToSet(s) \cap S
         /\ \A a, b : Ahead(Kept(s, S), a, b) => Ahead(s, a, b)
<1> DEFINE at == Places(s, S)
           C == Cardinality(at)
           t == Kept(s, S)
<1>1. s \in Seq(X) /\ \A i \in DOMAIN s : s[i] \in X
  BY ListIndices DEF NodeList
<1>2. PICK pos \in [1 .. C -> at] :
        /\ C \in Nat
        /\ t = [k \in 1 .. C |-> s[pos[k]]]
        /\ \A j, k \in DOMAIN pos : j < k => pos[j] < pos[k]
        /\ \A i \in at : \E k \in DOMAIN pos : pos[k] = i
  BY <1>1, KeptPositions
<1> HIDE DEF C, t
<1>3. \A k \in 1 .. C : pos[k] \in DOMAIN s /\ s[pos[k]] \in S /\ t[k] = s[pos[k]]
  BY <1>2 DEF Places
<1>4. DOMAIN t = 1 .. C /\ DOMAIN pos = 1 .. C
  BY <1>2
<1>5. t \in Seq(X)
  <2>1. \A k \in 1 .. C : s[pos[k]] \in X
    BY <1>1, <1>3
  <2> QED BY <1>2, <2>1, IsASeq
<1>6. IsInjective(t)
  <2> SUFFICES ASSUME NEW j \in 1 .. C, NEW k \in 1 .. C, t[j] = t[k]
               PROVE  j = k
    BY <1>4 DEF IsInjective
  <2>1. pos[j] = pos[k]
    BY <1>3 DEF NodeList, IsInjective
  <2>2. pos[j] \in Int
    BY <1>1, <1>3, ListIndices
  <2>3. ~(j < k) /\ ~(k < j)
    BY <1>2, <1>4, <2>1, <2>2
  <2> QED BY <1>2, <2>3
<1>7. ToSet(t) = ToSet(s) \cap S
  <2>1. ToSet(t) \subseteq ToSet(s) \cap S
    BY <1>3, <1>4 DEF ToSet
  <2>2. ASSUME NEW i \in DOMAIN s, s[i] \in S
        PROVE  s[i] \in ToSet(t)
    <3>1. PICK k \in DOMAIN pos : pos[k] = i
      BY <1>2, <2>2 DEF Places
    <3> QED BY <1>3, <1>4, <3>1 DEF ToSet
  <2> QED BY <2>1, <2>2 DEF ToSet
<1>8. ASSUME NEW a, NEW b, Ahead(t, a, b)
      PROVE  Ahead(s, a, b)
  <2>1. PICK j \in 1 .. C, k \in 1 .. C : j < k /\ t[j] = a /\ t[k] = b
    BY <1>4, <1>8 DEF Ahead
  <2>2. pos[j] < pos[k] /\ pos[j] \in DOMAIN s /\ pos[k] \in DOMAIN s
    BY <1>2, <1>3, <1>4, <2>1
  <2> QED BY <1>3, <2>1, <2>2 DEF Ahead
<1> QED BY <1>5, <1>6, <1>7, <1>8 DEF NodeList, t

\* A block of the heap: distinct nodes of it, as many as were asked for.
LEMMA Allocated ==
  ASSUME NEW S, IsFiniteSet(S), NEW n \in Nat, n <= Cardinality(S)
  PROVE  /\ NodeList(SubSeq(SetToSeq(S), 1, n), S)
         /\ n # 0 => SubSeq(SetToSeq(S), 1, n) # <<>>
<1> DEFINE C == Cardinality(S)
           all == SetToSeq(S)
           t == SubSeq(all, 1, n)
<1>1. C \in Nat /\ ExistsBijection(1 .. C, S)
  BY FS_CardinalityType
<1>2. \E f \in [1 .. C -> S] : IsInjective(f)
  BY <1>1 DEF ExistsBijection, Bijection, Injection
<1>3. all \in [1 .. C -> S] /\ IsInjective(all)
  BY <1>2 DEF SetToSeq
<1> HIDE DEF all, C
<1>4. n <= C
  BY DEF C
<1>5. \A i \in 1 .. n : i \in 1 .. C /\ all[i] \in S
  BY <1>1, <1>3, <1>4
<1>6. /\ t \in Seq(S) /\ Len(t) = IF 1 <= n THEN n - 1 + 1 ELSE 0
      /\ \A i \in 1 .. n - 1 + 1 : t[i] = all[1 + i - 1]
  BY <1>5, SubSeqProperties
<1>7. Len(t) = n /\ DOMAIN t = 1 .. n /\ \A i \in 1 .. n : t[i] = all[i]
  <2>1. DOMAIN t = 1 .. Len(t)
    BY <1>6, ListIndices
  <2>2. Len(t) = n
    BY <1>6
  <2>3. \A i \in 1 .. n : i \in 1 .. n - 1 + 1 /\ 1 + i - 1 = i
    OBVIOUS
  <2> HIDE DEF t
  <2> QED BY <1>6, <2>1, <2>2, <2>3
<1> HIDE DEF t
<1>8. IsInjective(t)
  BY <1>3, <1>5, <1>7 DEF IsInjective
<1>9. n # 0 => t # <<>>
  BY <1>7, EmptySeq
<1> QED BY <1>6, <1>8, <1>9 DEF NodeList, t, all

-----------------------------------------------------------------------------
(***************************************************************************)
(* ObjectList.                                                             *)
(***************************************************************************)

ObjectFields ==
  [ObjectNodes -> [id : ObjectIds \cup {0}, draw_order : Int, hidden : BOOLEAN]]

Drawing == [node : ObjectNodes, order : Int]

ObjectLists ==
  /\ NodeList(olist, ObjectNodes) /\ NodeList(ofree, ObjectNodes)
  /\ Objects \cap ToSet(ofree) = {}

ObjectTypes ==
  /\ object \in ObjectFields
  /\ resource_mode \in BOOLEAN
  /\ frame \in [at : {"out", "object", "function"}, whole : SUBSET Objects,
                drawn : Seq(Drawing)]
  /\ current_3dobj \in ObjectNodes \cup {NoObject}

ByDrawOrder ==
  \A a, b \in Objects :
    Ahead(olist, a, b) => object[a].draw_order <= object[b].draw_order

DrawnInOrder ==
  \A k, m \in DOMAIN frame.drawn :
    k < m => frame.drawn[k].order <= frame.drawn[m].order

Drawn(drawn, n) == {k \in DOMAIN drawn : drawn[k].node = n}
Once(drawn, n) == \E k \in DOMAIN drawn : Drawn(drawn, n) = {k}
Never(drawn, n) == Drawn(drawn, n) = {}

\* Where the walk stands: what is ahead of it was drawn, what is behind it not yet.
Walk ==
  /\ current_3dobj \in Objects
  /\ \A k \in DOMAIN frame.drawn :
       frame.drawn[k].order <= object[current_3dobj].draw_order
  /\ \A n \in frame.whole :
       /\ Ahead(olist, n, current_3dobj) => Once(frame.drawn, n)
       /\ Ahead(olist, current_3dobj, n) => Never(frame.drawn, n)
       /\ n = current_3dobj =>
            IF frame.at = "function" THEN Once(frame.drawn, n)
            ELSE Never(frame.drawn, n)

Accounted ==
  /\ DrawnInOrder
  /\ \A n \in frame.whole : ~object[n].hidden
  /\ IF frame.at = "out" THEN \A n \in frame.whole : Once(frame.drawn, n) ELSE Walk

ObjectInv == ObjectLists /\ ObjectTypes /\ ByDrawOrder /\ Accounted

-----------------------------------------------------------------------------
(***************************************************************************)
(* The calls.                                                              *)
(***************************************************************************)

\* What a call leaves of a frame in progress: the objects that stay are in the same order,
\* with the same draw_order, and no object that stays visible leaves the account.
Undisturbed ==
  /\ ObjectLists' /\ ByDrawOrder' /\ object' \in ObjectFields
  /\ frame' = [frame EXCEPT !.whole = frame'.whole]
  /\ frame'.whole \subseteq frame.whole \cap Objects'
  /\ \A n \in frame'.whole : ~object'[n].hidden
  /\ \A a, b \in Objects : Ahead(olist', a, b) => Ahead(olist, a, b)
  /\ \A n \in Objects : object'[n].draw_order = object[n].draw_order

\* The nodes of both lists are object nodes.
LEMMA ObjectsAreNodes ==
  ASSUME ObjectLists
  PROVE  Objects \subseteq ObjectNodes /\ ToSet(ofree) \subseteq ObjectNodes
BY ListIndices DEF ObjectLists, NodeList, Objects

\* The fields of a node that the walk reads.
LEMMA OrderOf ==
  ASSUME object \in ObjectFields, NEW n \in ObjectNodes
  PROVE  object[n].draw_order \in Int /\ object[n].hidden \in BOOLEAN
BY DEF ObjectFields

\* insert_object keeps the list in draw_order.
LEMMA Inserted ==
  ASSUME ObjectLists, object \in ObjectFields, ByDrawOrder,
         NEW n \in ObjectNodes, n \notin Objects, NEW order \in Int
  PROVE  LET list == insert_object(n, order)
         IN  /\ NodeList(list, ObjectNodes) /\ ToSet(list) = Objects \cup {n}
             /\ \A a, b \in Objects : Ahead(list, a, b) => Ahead(olist, a, b)
             /\ \A a \in Objects :
                  /\ Ahead(list, a, n) => object[a].draw_order <= order
                  /\ Ahead(list, n, a) => order <= object[a].draw_order
<1> DEFINE first == {m \in Objects : object[m].draw_order <= order}
           before == Kept(olist, first)
           behind == Kept(olist, Objects \ first)
           list == (before \o <<n>>) \o behind
<1>1. /\ NodeList(before, ObjectNodes) /\ ToSet(before) = first
      /\ \A a, b : Ahead(before, a, b) => Ahead(olist, a, b)
  <2>1. first = ToSet(olist) \cap first
    BY DEF Objects
  <2> HIDE DEF first
  <2>2. /\ NodeList(before, ObjectNodes) /\ ToSet(before) = ToSet(olist) \cap first
        /\ \A a, b : Ahead(before, a, b) => Ahead(olist, a, b)
    BY KeptFacts DEF ObjectLists
  <2> QED BY <2>1, <2>2
<1>2. /\ NodeList(behind, ObjectNodes) /\ ToSet(behind) = Objects \ first
      /\ \A a, b : Ahead(behind, a, b) => Ahead(olist, a, b)
  <2>1. Objects \ first = ToSet(olist) \cap (Objects \ first)
    BY DEF Objects
  <2> HIDE DEF first
  <2>2. /\ NodeList(behind, ObjectNodes)
        /\ ToSet(behind) = ToSet(olist) \cap (Objects \ first)
        /\ \A a, b : Ahead(behind, a, b) => Ahead(olist, a, b)
    BY KeptFacts DEF ObjectLists
  <2> QED BY <2>1, <2>2
<1>3. /\ NodeList(<<n>>, ObjectNodes) /\ ToSet(<<n>>) = {n}
      /\ \A a, b : ~Ahead(<<n>>, a, b)
  BY OneNode
<1>4. /\ first \subseteq Objects /\ n \notin first
      /\ \A a \in first : object[a].draw_order <= order
      /\ \A a \in Objects \ first : order < object[a].draw_order
  <2>1. \A a \in Objects : object[a].draw_order \in Int
    BY ObjectsAreNodes, OrderOf
  <2> QED BY <2>1
<1> HIDE DEF first, before, behind
<1>5. /\ NodeList(before \o <<n>>, ObjectNodes) /\ ToSet(before \o <<n>>) = first \cup {n}
      /\ \A a, b : Ahead(before \o <<n>>, a, b) =>
           Ahead(olist, a, b) \/ (a \in first /\ b = n)
  <2>1. ToSet(before) \cap ToSet(<<n>>) = {}
    BY <1>1, <1>3, <1>4
  <2>2. /\ NodeList(before \o <<n>>, ObjectNodes)
        /\ ToSet(before \o <<n>>) = ToSet(before) \cup ToSet(<<n>>)
        /\ \A a, b : Ahead(before \o <<n>>, a, b) =>
             \/ Ahead(before, a, b) \/ Ahead(<<n>>, a, b)
             \/ a \in ToSet(before) /\ b \in ToSet(<<n>>)
    BY <1>1, <1>3, <2>1, Joined
  <2> QED BY <1>1, <1>3, <2>2
<1>6. /\ NodeList(list, ObjectNodes) /\ ToSet(list) = Objects \cup {n}
      /\ \A a, b : Ahead(list, a, b) =>
           \/ Ahead(olist, a, b) \/ (a \in first /\ b = n)
           \/ a \in first \cup {n} /\ b \in Objects \ first
  <2>1. ToSet(before \o <<n>>) \cap ToSet(behind) = {}
    BY <1>2, <1>4, <1>5
  <2>2. /\ NodeList(list, ObjectNodes)
        /\ ToSet(list) = ToSet(before \o <<n>>) \cup ToSet(behind)
        /\ \A a, b : Ahead(list, a, b) =>
             \/ Ahead(before \o <<n>>, a, b) \/ Ahead(behind, a, b)
             \/ a \in ToSet(before \o <<n>>) /\ b \in ToSet(behind)
    BY <1>2, <1>5, <2>1, Joined
  <2> QED BY <1>2, <1>4, <1>5, <2>2
<1>7. \A a, b : Ahead(olist, a, b) => a \in Objects /\ b \in Objects
  BY AheadNodes DEF ObjectLists, NodeList, Objects
<1>8. ASSUME NEW a \in Objects, NEW b \in Objects, Ahead(list, a, b)
      PROVE  Ahead(olist, a, b)
  <2>1. CASE a \in first /\ b \in Objects \ first
    <3>1. object[a].draw_order \in Int /\ object[b].draw_order \in Int
      BY ObjectsAreNodes, OrderOf
    <3>2. ~(object[b].draw_order <= object[a].draw_order)
      BY <1>4, <2>1, <3>1
    <3>3. ~Ahead(olist, b, a)
      BY <3>2 DEF ByDrawOrder
    <3>4. Ahead(olist, a, b) \/ Ahead(olist, b, a)
      BY <2>1, AheadOrders DEF ObjectLists, Objects
    <3> QED BY <3>3, <3>4
  <2> QED BY <1>6, <1>8, <2>1
<1>9. ASSUME NEW a \in Objects
      PROVE  /\ Ahead(list, a, n) => object[a].draw_order <= order
             /\ Ahead(list, n, a) => order <= object[a].draw_order
  <2>1. Ahead(list, a, n) => a \in first
    BY <1>6, <1>7
  <2>2. Ahead(list, n, a) => a \in Objects \ first
    BY <1>4, <1>6, <1>7
  <2>3. object[a].draw_order \in Int
    BY ObjectsAreNodes, OrderOf
  <2> QED BY <1>4, <2>1, <2>2, <2>3
<1>10. list = insert_object(n, order)
  BY DEF insert_object, list, before, behind, first
<1> HIDE DEF list
<1> QED BY <1>6, <1>8, <1>9, <1>10

\* A block comes from the heap.
LEMMA Block ==
  ASSUME ObjectLists, resource_mode \in BOOLEAN
  PROVE  /\ NodeList(add_object_block, ObjectNodes)
         /\ ToSet(add_object_block) \cap Objects = {}
<1> DEFINE size == IF resource_mode THEN OBJECT_BLOCK ELSE 1
<1>1. size \in Nat
  BY ObjectAssumption
<1>2. CASE Cardinality(Heap) < size
  <2>1. add_object_block = <<>>
    BY <1>2 DEF add_object_block
  <2> QED BY <2>1, NoNodes
<1>3. CASE ~(Cardinality(Heap) < size)
  <2>1. add_object_block = SubSeq(SetToSeq(Heap), 1, size)
    BY <1>3 DEF add_object_block
  <2>2. Heap \subseteq ObjectNodes /\ Heap \cap Objects = {}
    BY DEF Heap
  <2>3. IsFiniteSet(Heap) /\ Cardinality(Heap) \in Nat
    BY <2>2, ObjectAssumption, FS_Subset, FS_CardinalityType
  <2> HIDE DEF size
  <2>4. NodeList(add_object_block, Heap)
    BY <1>1, <1>3, <2>1, <2>3, Allocated
  <2>5. add_object_block \in Seq(ObjectNodes)
    BY <2>2, <2>4, SeqMonotonic DEF NodeList
  <2>6. ToSet(add_object_block) \subseteq Heap
    BY <2>4, ListIndices DEF NodeList
  <2> QED BY <2>2, <2>4, <2>5, <2>6 DEF NodeList
<1> QED BY <1>2, <1>3

\* create_object takes a node that is on no list and puts it behind its draw_order.
LEMMA CreateUndisturbed ==
  ASSUME ObjectLists, ObjectTypes, ByDrawOrder, \A n \in frame.whole : ~object[n].hidden,
         NEW id \in ObjectIds, NEW order \in DrawOrders, create_object(id, order)
  PROVE  Undisturbed
<1> DEFINE free == IF ofree # <<>> THEN ofree ELSE add_object_block
           on == Head(free)
<1>0. /\ frame.whole \subseteq Objects
      /\ frame = [frame EXCEPT !.whole = frame.whole]
  BY DEF ObjectTypes
<1>1. NodeList(free, ObjectNodes) /\ ToSet(free) \cap Objects = {}
  BY Block DEF ObjectLists, ObjectTypes
<1>2. CASE free = <<>>
  <2>1. UNCHANGED <<olist, ofree, object, frame>>
    BY <1>2 DEF create_object
  <2> QED BY <1>0, <2>1 DEF Undisturbed, ObjectLists, ByDrawOrder, Objects, ObjectTypes
<1>3. CASE free # <<>>
  <2>1. /\ ofree' = Tail(free)
        /\ object' = [object EXCEPT ![on] =
                        [id |-> id, draw_order |-> order, hidden |-> FALSE]]
        /\ olist' = insert_object(on, order)
        /\ frame' = frame
    BY <1>3 DEF create_object
  <2> HIDE DEF free
  <2>2. /\ on \in ToSet(free) /\ NodeList(ofree', ObjectNodes)
        /\ ToSet(ofree') = ToSet(free) \ {on}
    BY <1>1, <1>3, <2>1, Shortened
  <2>3. on \in ObjectNodes /\ on \notin Objects /\ order \in Int
    BY <1>1, <2>2, ObjectAssumption, ListIndices DEF NodeList
  <2> HIDE DEF on
  <2>4. /\ NodeList(olist', ObjectNodes) /\ Objects' = Objects \cup {on}
        /\ \A a, b \in Objects : Ahead(olist', a, b) => Ahead(olist, a, b)
        /\ \A a \in Objects :
             /\ Ahead(olist', a, on) => object[a].draw_order <= order
             /\ Ahead(olist', on, a) => order <= object[a].draw_order
    BY <2>1, <2>3, Inserted DEF ObjectTypes, Objects
  <2>5. ObjectLists'
    BY <1>1, <2>2, <2>4 DEF ObjectLists
  <2>6. object' \in ObjectFields
    BY <2>1, <2>3 DEF ObjectTypes, ObjectFields
  <2>7. /\ \A n \in Objects : object'[n] = object[n]
        /\ object'[on].draw_order = order
    BY <2>1, <2>3, ObjectsAreNodes DEF ObjectTypes, ObjectFields
  <2>8. ByDrawOrder'
    <3> SUFFICES ASSUME NEW a \in Objects', NEW b \in Objects', Ahead(olist', a, b)
                 PROVE  object'[a].draw_order <= object'[b].draw_order
      BY DEF ByDrawOrder
    <3>1. a # b
      BY <2>4, AheadOrders
    <3>2. CASE a \in Objects /\ b \in Objects
      BY <2>4, <2>7, <3>2 DEF ByDrawOrder
    <3>3. CASE a = on /\ b \in Objects
      BY <2>4, <2>7, <3>3
    <3>4. CASE a \in Objects /\ b = on
      BY <2>4, <2>7, <3>4
    <3> QED BY <2>4, <3>1, <3>2, <3>3, <3>4
  <2> QED BY <1>0, <2>1, <2>4, <2>5, <2>6, <2>7, <2>8 DEF Undisturbed
<1> QED BY <1>2, <1>3

\* Deleted nodes leave the account of the frame, and the others keep their order.
LEMMA DeleteUndisturbed ==
  ASSUME ObjectLists, ObjectTypes, ByDrawOrder, \A n \in frame.whole : ~object[n].hidden,
         NEW nodes, ObjectsDeleted(nodes)
  PROVE  Undisturbed
<1> DEFINE gone == Kept(olist, nodes)
<1>1. /\ olist' = Kept(olist, Objects \ nodes)
      /\ ofree' = IF resource_mode THEN Reverse(gone) \o ofree ELSE ofree
      /\ frame' = [frame EXCEPT !.whole = @ \cap (Objects \ nodes)]
      /\ object' = object
  BY DEF ObjectsDeleted, Shown
<1>2. /\ NodeList(olist', ObjectNodes) /\ Objects' = Objects \ nodes
      /\ \A a, b : Ahead(olist', a, b) => Ahead(olist, a, b)
  BY <1>1, KeptFacts DEF ObjectLists, Objects
<1>3. NodeList(Reverse(gone), ObjectNodes) /\ ToSet(Reverse(gone)) = Objects \cap nodes
  <2>1. NodeList(gone, ObjectNodes) /\ ToSet(gone) = Objects \cap nodes
    BY KeptFacts DEF ObjectLists, Objects
  <2> HIDE DEF gone
  <2> QED BY <2>1, Reversed
<1> HIDE DEF gone
<1>4. /\ NodeList(ofree', ObjectNodes)
      /\ ToSet(ofree') \subseteq ToSet(ofree) \cup (Objects \cap nodes)
  <2>1. ToSet(Reverse(gone)) \cap ToSet(ofree) = {}
    BY <1>3 DEF ObjectLists
  <2>2. /\ NodeList(Reverse(gone) \o ofree, ObjectNodes)
        /\ ToSet(Reverse(gone) \o ofree) = ToSet(Reverse(gone)) \cup ToSet(ofree)
    BY <1>3, <2>1, Joined DEF ObjectLists
  <2> QED BY <1>1, <1>3, <2>2 DEF ObjectLists
<1>5. ObjectLists'
  BY <1>2, <1>4 DEF ObjectLists
<1>6. /\ frame' = [frame EXCEPT !.whole = frame'.whole]
      /\ frame'.whole = frame.whole \cap (Objects \ nodes)
  BY <1>1 DEF ObjectTypes
<1>7. ByDrawOrder'
  BY <1>1, <1>2 DEF ByDrawOrder
<1> QED BY <1>1, <1>2, <1>5, <1>6, <1>7 DEF Undisturbed, ObjectTypes

\* clear_object_list leaves no object at all.
LEMMA ClearUndisturbed ==
  ASSUME ObjectLists, ObjectTypes, clear_object_list
  PROVE  Undisturbed
<1>1. /\ olist' = <<>> /\ ofree' = olist \o ofree /\ object' = object
      /\ frame' = [frame EXCEPT !.whole = @ \cap {}]
  BY DEF clear_object_list, Shown
<1>2. NodeList(olist', ObjectNodes) /\ Objects' = {} /\ \A a, b : ~Ahead(olist', a, b)
  BY <1>1, NoNodes DEF Objects
<1>3. NodeList(ofree', ObjectNodes)
  BY <1>1, Joined DEF ObjectLists, Objects
<1>4. frame' = [frame EXCEPT !.whole = frame'.whole] /\ frame'.whole = {}
  BY <1>1 DEF ObjectTypes
<1> QED BY <1>1, <1>2, <1>3, <1>4 DEF Undisturbed, ObjectLists, ByDrawOrder, ObjectTypes

\* Hiding an object takes it out of the account, and nothing else moves.
LEMMA HideUndisturbed ==
  ASSUME ObjectLists, ObjectTypes, ByDrawOrder, \A n \in frame.whole : ~object[n].hidden,
         NEW ids, NEW hide \in BOOLEAN, hide_multiple_objects(ids, hide)
  PROVE  Undisturbed
<1> DEFINE hidden == {n \in Objects : object[n].id \in ids}
           shown == IF hide THEN Objects \ hidden ELSE Objects
<1>1. /\ object' = [n \in ObjectNodes |->
                      IF n \in hidden THEN [object[n] EXCEPT !.hidden = hide]
                      ELSE object[n]]
      /\ frame' = [frame EXCEPT !.whole = @ \cap shown]
      /\ olist' = olist /\ ofree' = ofree /\ Objects' = Objects
  BY DEF hide_multiple_objects, Shown, Objects
<1> HIDE DEF hidden
<1>2. /\ \A n \in ObjectNodes : object[n] \in
           [id : ObjectIds \cup {0}, draw_order : Int, hidden : BOOLEAN]
      /\ \A n \in Objects : n \in ObjectNodes
  BY ObjectsAreNodes DEF ObjectTypes, ObjectFields
<1>3. \A n \in ObjectNodes :
        /\ object'[n] \in [id : ObjectIds \cup {0}, draw_order : Int, hidden : BOOLEAN]
        /\ object'[n].draw_order = object[n].draw_order
        /\ object'[n].hidden = IF n \in hidden THEN hide ELSE object[n].hidden
  BY <1>1, <1>2
<1>4. object' \in ObjectFields
  BY <1>1, <1>3 DEF ObjectFields
<1>5. frame' = [frame EXCEPT !.whole = frame'.whole] /\ frame'.whole = frame.whole \cap shown
  BY <1>1 DEF ObjectTypes
<1>6. \A n \in frame'.whole : ~object'[n].hidden
  <2> SUFFICES ASSUME NEW n \in frame'.whole
               PROVE  ~object'[n].hidden
    OBVIOUS
  <2>1. n \in frame.whole /\ n \in shown /\ ~object[n].hidden
    BY <1>5
  <2>2. n \in ObjectNodes
    BY <1>2, <2>1 DEF ObjectTypes
  <2>3. n \in hidden => hide = FALSE
    BY <2>1
  <2> QED BY <1>3, <2>1, <2>2, <2>3
<1>7. ByDrawOrder'
  BY <1>1, <1>2, <1>3 DEF ByDrawOrder
<1>8. ObjectLists'
  BY <1>1 DEF ObjectLists
<1>9. frame'.whole \subseteq frame.whole \cap Objects'
  BY <1>1, <1>5 DEF ObjectTypes
<1> QED BY <1>1, <1>2, <1>3, <1>4, <1>5, <1>6, <1>7, <1>8, <1>9 DEF Undisturbed

\* clear_free_object_list touches no active object.
LEMMA ClearFreeUndisturbed ==
  ASSUME ObjectLists, ObjectTypes, ByDrawOrder, \A n \in frame.whole : ~object[n].hidden,
         clear_free_object_list
  PROVE  Undisturbed
<1>1. ofree' = <<>> /\ UNCHANGED <<olist, object, frame>> /\ Objects' = Objects
  BY DEF clear_free_object_list, Objects
<1>2. NodeList(ofree', ObjectNodes) /\ ToSet(ofree') = {}
  BY <1>1, NoNodes
<1>3. ObjectLists' /\ ByDrawOrder'
  BY <1>1, <1>2 DEF ObjectLists, ByDrawOrder
<1>4. frame' = [frame EXCEPT !.whole = frame'.whole]
  BY <1>1 DEF ObjectTypes
<1> QED BY <1>1, <1>3, <1>4 DEF Undisturbed, ObjectTypes

\* What a call may change keeps the account of the frame in progress.
LEMMA AccountKept ==
  ASSUME ObjectInv, Undisturbed, UNCHANGED <<resource_mode, current_3dobj>>,
         Objects \cap {current_3dobj} \subseteq Objects'
  PROVE  ObjectInv'
<1>1. /\ frame \in [at : {"out", "object", "function"}, whole : SUBSET Objects,
                    drawn : Seq(Drawing)]
      /\ frame'.at = frame.at /\ frame'.drawn = frame.drawn
      /\ frame'.whole \subseteq frame.whole \cap Objects'
      /\ frame' = [frame EXCEPT !.whole = frame'.whole]
  BY DEF Undisturbed, ObjectInv, ObjectTypes
<1>2. ObjectTypes'
  BY <1>1 DEF Undisturbed, ObjectInv, ObjectTypes
<1>3. DrawnInOrder'
  BY <1>1 DEF DrawnInOrder, ObjectInv, Accounted
<1>4. CASE frame.at = "out"
  <2>1. \A n \in frame'.whole : Once(frame'.drawn, n)
    BY <1>1, <1>4 DEF ObjectInv, Accounted
  <2> QED BY <1>1, <1>2, <1>3, <1>4, <2>1 DEF Undisturbed, ObjectInv, Accounted
<1>5. CASE frame.at # "out"
  <2>1. Walk
    BY <1>5 DEF ObjectInv, Accounted
  <2>2. /\ current_3dobj \in Objects /\ current_3dobj \in Objects'
        /\ object'[current_3dobj].draw_order = object[current_3dobj].draw_order
    BY <2>1 DEF Walk, Undisturbed
  <2>3. \A n \in frame'.whole :
          /\ n \in frame.whole /\ n \in Objects
          /\ Ahead(olist', n, current_3dobj) => Ahead(olist, n, current_3dobj)
          /\ Ahead(olist', current_3dobj, n) => Ahead(olist, current_3dobj, n)
    BY <1>1, <2>2 DEF Undisturbed
  <2>4. Walk'
    BY <1>1, <2>1, <2>2, <2>3 DEF Walk
  <2> QED BY <1>1, <1>2, <1>3, <1>5, <2>4 DEF Undisturbed, ObjectInv, Accounted
<1> QED BY <1>4, <1>5

\* Every call, also from a draw function, keeps the invariant.
LEMMA ObjectCallKeeps ==
  ASSUME ObjectInv, ObjectCall
  PROVE  ObjectInv'
<1> USE DEF ObjectInv, Accounted
<1>1. /\ UNCHANGED <<resource_mode, current_3dobj>>
      /\ Objects \cap {current_3dobj} \subseteq Objects'
  BY DEF ObjectCall, Objects
<1>2. Undisturbed
  <2>1. CASE \E id \in ObjectIds, order \in DrawOrders : create_object(id, order)
    BY <2>1, CreateUndisturbed
  <2>2. CASE \E n \in Objects : delete_object(n)
    BY <2>2, DeleteUndisturbed DEF delete_object
  <2>3. CASE \E id \in ObjectIds : delete_object_id(id)
    BY <2>3, DeleteUndisturbed DEF delete_object_id
  <2>4. CASE \E ids \in SUBSET ObjectIds : delete_multiple_objects(ids)
    BY <2>4, DeleteUndisturbed DEF delete_multiple_objects
  <2>5. CASE clear_object_list
    BY <2>5, ClearUndisturbed
  <2>6. CASE \E ids \in SUBSET ObjectIds, hide \in BOOLEAN : hide_multiple_objects(ids, hide)
    BY <2>6, HideUndisturbed
  <2>7. CASE clear_free_object_list
    BY <2>7, ClearFreeUndisturbed
  <2> QED BY <2>1, <2>2, <2>3, <2>4, <2>5, <2>6, <2>7 DEF ObjectCall
<1> HIDE DEF ObjectInv
<1> QED BY <1>1, <1>2, AccountKept

-----------------------------------------------------------------------------
(***************************************************************************)
(* The frame.                                                              *)
(***************************************************************************)

\* The first object of the list has none ahead of it.
LEMMA FirstOfList ==
  ASSUME NEW X, NEW s, NodeList(s, X), s # <<>>
  PROVE  Head(s) \in ToSet(s) /\ \A a : ~Ahead(s, a, Head(s))
<1>1. s \in Seq(X) /\ DOMAIN s = 1 .. Len(s) /\ Len(s) \in Nat
  BY ListIndices DEF NodeList
<1>2. Head(s) \in ToSet(s) /\ Head(s) = s[1]
  BY Shortened
<1>3. ASSUME NEW a, Ahead(s, a, Head(s))
      PROVE  FALSE
  <2>1. PICK i \in DOMAIN s, j \in DOMAIN s : i < j /\ s[j] = s[1]
    BY <1>2, <1>3 DEF Ahead
  <2>2. 1 \in DOMAIN s
    BY <1>1, <2>1
  <2>3. j = 1
    BY <2>1, <2>2 DEF NodeList, IsInjective
  <2> QED BY <1>1, <2>1, <2>3
<1> QED BY <1>2, <1>3

\* NextOf: right behind the node, or nothing when the node is the last one.
LEMMA NextOnList ==
  ASSUME ObjectLists, NEW n \in Objects
  PROVE  \/ NextOf(n) = NoObject /\ \A m \in Objects : m = n \/ Ahead(olist, m, n)
         \/ /\ NextOf(n) \in Objects /\ Ahead(olist, n, NextOf(n))
            /\ \A m : Ahead(olist, m, NextOf(n)) => m = n \/ Ahead(olist, m, n)
<1> DEFINE at == CHOOSE k \in DOMAIN olist : olist[k] = n
<1>1. olist \in Seq(ObjectNodes) /\ DOMAIN olist = 1 .. Len(olist) /\ Len(olist) \in Nat
  BY ListIndices DEF NodeList, ObjectLists
<1>2. at \in DOMAIN olist /\ olist[at] = n
  BY DEF Objects, ToSet
<1>3. NextOf(n) = IF at = Len(olist) THEN NoObject ELSE olist[at + 1]
  BY DEF NextOf
<1> HIDE DEF at
<1>4. CASE at = Len(olist)
  <2>1. ASSUME NEW m \in Objects, m # n
        PROVE  Ahead(olist, m, n)
    <3>1. PICK k \in DOMAIN olist : olist[k] = m
      BY DEF Objects, ToSet
    <3>2. k < at
      BY <1>1, <1>2, <1>4, <2>1, <3>1
    <3> QED BY <1>2, <3>1, <3>2 DEF Ahead
  <2> QED BY <1>3, <1>4, <2>1
<1>5. CASE at # Len(olist)
  <2>1. at + 1 \in DOMAIN olist /\ at < at + 1 /\ NextOf(n) = olist[at + 1]
    BY <1>1, <1>2, <1>3, <1>5
  <2>2. NextOf(n) \in Objects /\ Ahead(olist, n, NextOf(n))
    BY <1>2, <2>1 DEF Ahead, Objects, ToSet
  <2>3. ASSUME NEW m, Ahead(olist, m, NextOf(n)), m # n
        PROVE  Ahead(olist, m, n)
    <3>1. PICK i \in DOMAIN olist, j \in DOMAIN olist :
            i < j /\ olist[i] = m /\ olist[j] = olist[at + 1]
      BY <2>1, <2>3 DEF Ahead
    <3>2. j = at + 1
      BY <2>1, <3>1 DEF ObjectLists, NodeList, IsInjective
    <3>3. i # at /\ i < at + 1
      BY <1>2, <2>3, <3>1, <3>2
    <3>4. i < at
      BY <1>1, <1>2, <3>3
    <3> QED BY <1>2, <3>1, <3>4 DEF Ahead
  <2> QED BY <2>2, <2>3
<1> QED BY <1>4, <1>5

\* One more drawing is one more for its object and none for any other.
LEMMA DrawnAppended ==
  ASSUME NEW s \in Seq(Drawing), NEW d \in Drawing
  PROVE  LET t == Append(s, d)
         IN  /\ t \in Seq(Drawing)
             /\ DOMAIN t = DOMAIN s \cup {Len(s) + 1} /\ t[Len(s) + 1] = d
             /\ \A k \in DOMAIN s : t[k] = s[k] /\ k < Len(s) + 1
             /\ Never(s, d.node) => Once(t, d.node)
             /\ \A n : n # d.node =>
                  (Once(s, n) => Once(t, n)) /\ (Never(s, n) => Never(t, n))
<1> DEFINE t == Append(s, d)
<1>1. Len(s) \in Nat /\ DOMAIN s = 1 .. Len(s)
  BY ListIndices
<1>2. t \in Seq(Drawing) /\ Len(t) = Len(s) + 1 /\ t[Len(s) + 1] = d
      /\ \A k \in 1 .. Len(s) : t[k] = s[k]
  BY AppendProperties, <1>1
<1>3. DOMAIN t = DOMAIN s \cup {Len(s) + 1} /\ Len(s) + 1 \notin DOMAIN s
  <2>1. DOMAIN t = 1 .. Len(s) + 1
    BY <1>2, ListIndices
  <2> HIDE DEF t
  <2> QED BY <1>1, <2>1
<1>4. \A k \in DOMAIN s : t[k] = s[k] /\ k < Len(s) + 1
  BY <1>1, <1>2
<1> HIDE DEF t
<1>5. ASSUME Never(s, d.node)
      PROVE  Once(t, d.node)
  <2>1. Drawn(t, d.node) = {Len(s) + 1}
    BY <1>2, <1>3, <1>4, <1>5 DEF Never, Drawn
  <2> QED BY <1>3, <2>1 DEF Once
<1>6. ASSUME NEW n, n # d.node
      PROVE  (Once(s, n) => Once(t, n)) /\ (Never(s, n) => Never(t, n))
  <2>1. Drawn(t, n) = Drawn(s, n)
    BY <1>2, <1>3, <1>4, <1>6 DEF Drawn
  <2>2. DOMAIN s \subseteq DOMAIN t
    BY <1>3
  <2> QED BY <2>1, <2>2 DEF Once, Never
<1> QED BY <1>2, <1>3, <1>4, <1>5, <1>6 DEF t

\* A frame begins in front of everything, with nothing drawn.
LEMMA StartFrameKeeps ==
  ASSUME ObjectInv, StartFrame
  PROVE  ObjectInv'
<1> DEFINE first == IF olist = <<>> THEN NoObject ELSE Head(olist)
           shown == {n \in Objects : ~object[n].hidden}
<1>1. /\ current_3dobj' = first
      /\ UNCHANGED <<olist, ofree, object, resource_mode, object_calls>>
      /\ frame' = [at |-> IF first = NoObject THEN "out" ELSE "object",
                   whole |-> shown, drawn |-> <<>>]
      /\ Objects' = Objects
  BY DEF StartFrame, StandAt, Objects
<1>2. ObjectLists' /\ ByDrawOrder'
  BY <1>1 DEF ObjectInv, ObjectLists, ByDrawOrder
<1>3. <<>> \in Seq(Drawing) /\ DOMAIN <<>> = {} /\ \A n : Never(<<>>, n)
  <2>1. <<>> \in Seq(Drawing) /\ DOMAIN <<>> = {}
    BY EmptySeq, ListIndices
  <2> QED BY <2>1 DEF Never, Drawn
<1> HIDE DEF shown
<1>4. shown \subseteq Objects /\ \A n \in shown : ~object[n].hidden
  BY DEF shown
<1>5. DrawnInOrder'
  BY <1>1, <1>3 DEF DrawnInOrder
<1>6. CASE olist = <<>>
  <2>1. Objects = {}
    BY <1>6, NoNodes DEF Objects
  <2> QED BY <1>1, <1>2, <1>3, <1>4, <1>5, <1>6, <2>1
       DEF ObjectInv, ObjectTypes, Accounted
<1>7. CASE olist # <<>>
  <2>1. first \in Objects /\ \A a : ~Ahead(olist, a, first)
    BY <1>7, FirstOfList DEF ObjectInv, ObjectLists, Objects
  <2>2. first \in ObjectNodes /\ first # NoObject
    BY <2>1, ObjectsAreNodes, ObjectAssumption DEF ObjectInv
  <2> HIDE DEF first
  <2>3. Walk'
    BY <1>1, <1>3, <2>1, <2>2 DEF Walk
  <2> QED BY <1>1, <1>2, <1>3, <1>4, <1>5, <2>2, <2>3 DEF ObjectInv, ObjectTypes, Accounted
<1> QED BY <1>6, <1>7

\* The draw function of the object the walk stands at is called once.
LEMMA DrawObjectKeeps ==
  ASSUME ObjectInv, DrawObject
  PROVE  ObjectInv'
<1> DEFINE cur == current_3dobj
           new == [node |-> cur, order |-> object[cur].draw_order]
           drawn == frame.drawn
<1>1. /\ UNCHANGED <<olist, ofree, object, resource_mode, object_calls, current_3dobj>>
      /\ frame.at = "object"
      /\ frame' = [frame EXCEPT !.at = "function", !.drawn = Append(@, new)]
      /\ Objects' = Objects
  BY DEF DrawObject, StandAt, Objects
<1>2. Walk
  BY <1>1 DEF ObjectInv, Accounted
<1>3. /\ frame \in [at : {"out", "object", "function"}, whole : SUBSET Objects,
                    drawn : Seq(Drawing)]
      /\ new \in Drawing /\ drawn \in Seq(Drawing)
  BY <1>2, ObjectsAreNodes, OrderOf DEF Walk, ObjectInv, ObjectTypes, Drawing
<1>4. /\ frame'.at = "function" /\ frame'.whole = frame.whole
      /\ frame'.drawn = Append(drawn, new)
      /\ frame' \in [at : {"out", "object", "function"}, whole : SUBSET Objects,
                     drawn : Seq(Drawing)]
  <2> HIDE DEF new
  <2>1. Append(drawn, new) \in Seq(Drawing)
    BY <1>3, AppendProperties
  <2> QED BY <1>1, <1>3, <2>1
<1>5. /\ DOMAIN frame'.drawn = DOMAIN drawn \cup {Len(drawn) + 1}
      /\ frame'.drawn[Len(drawn) + 1] = new
      /\ \A k \in DOMAIN drawn : frame'.drawn[k] = drawn[k] /\ k < Len(drawn) + 1
      /\ Never(drawn, new.node) => Once(frame'.drawn, new.node)
      /\ \A n : n # new.node =>
           /\ Once(drawn, n) => Once(frame'.drawn, n)
           /\ Never(drawn, n) => Never(frame'.drawn, n)
  BY <1>3, <1>4, DrawnAppended
<1>6. new.node = cur /\ new.order = object[cur].draw_order
  OBVIOUS
<1> HIDE DEF new
<1>7. DrawnInOrder'
  <2> SUFFICES ASSUME NEW k \in DOMAIN frame'.drawn, NEW m \in DOMAIN frame'.drawn, k < m
               PROVE  frame'.drawn[k].order <= frame'.drawn[m].order
    BY DEF DrawnInOrder
  <2>0. Len(drawn) \in Nat /\ DOMAIN drawn = 1 .. Len(drawn)
    BY <1>3, ListIndices
  <2>1. k \in DOMAIN drawn
    BY <1>5, <2>0
  <2>2. CASE m \in DOMAIN drawn
    BY <1>5, <2>1, <2>2 DEF DrawnInOrder, ObjectInv, Accounted
  <2>3. CASE m = Len(drawn) + 1
    BY <1>2, <1>5, <1>6, <2>1, <2>3 DEF Walk
  <2> QED BY <1>5, <2>2, <2>3
<1>8. Walk'
  <2>1. \A k \in DOMAIN frame'.drawn : frame'.drawn[k].order <= object[cur].draw_order
    <3>1. object[cur].draw_order \in Int
      BY <1>2, ObjectsAreNodes, OrderOf DEF Walk, ObjectInv, ObjectTypes
    <3> QED BY <1>2, <1>5, <1>6, <3>1 DEF Walk
  <2>2. ASSUME NEW n \in frame.whole
        PROVE  /\ Ahead(olist, n, cur) => Once(frame'.drawn, n)
               /\ Ahead(olist, cur, n) => Never(frame'.drawn, n)
               /\ n = cur => Once(frame'.drawn, n)
    <3>1. \A m : ~Ahead(olist, m, m)
      BY AheadOrders DEF ObjectInv, ObjectLists
    <3> QED BY <1>1, <1>2, <1>5, <1>6, <3>1 DEF Walk
  <2> QED BY <1>1, <1>2, <1>4, <2>1, <2>2 DEF Walk
<1> QED BY <1>1, <1>4, <1>7, <1>8
     DEF ObjectInv, ObjectLists, ObjectTypes, ByDrawOrder, Accounted

\* The walk moves on past an object that was drawn or is hidden.
LEMMA NextObjectKeeps ==
  ASSUME ObjectInv, NextObject
  PROVE  ObjectInv'
<1> DEFINE cur == current_3dobj
           next == NextOf(cur)
<1>1. /\ UNCHANGED <<olist, ofree, object, resource_mode, object_calls>>
      /\ current_3dobj' = next /\ Objects' = Objects
      /\ frame' = [frame EXCEPT !.at = IF next = NoObject THEN "out" ELSE "object"]
      /\ frame.at = "function" \/ (frame.at = "object" /\ object[cur].hidden)
  BY DEF NextObject, StandAt, Objects
<1>2. Walk /\ frame.at # "out"
  BY <1>1 DEF ObjectInv, Accounted
<1>3. /\ frame'.whole = frame.whole /\ frame'.drawn = frame.drawn
      /\ frame.whole \subseteq Objects
      /\ frame'.at = IF next = NoObject THEN "out" ELSE "object"
      /\ frame' \in [at : {"out", "object", "function"}, whole : SUBSET Objects,
                     drawn : Seq(Drawing)]
  BY <1>1 DEF ObjectInv, ObjectTypes
<1>4. cur \in Objects
  BY <1>2 DEF Walk
\* A hidden object is not in the account, a visible one was drawn.
<1>5. \A n \in frame.whole : Ahead(olist, n, cur) \/ n = cur => Once(frame.drawn, n)
  BY <1>1, <1>2 DEF Walk, ObjectInv, Accounted
<1>6. ObjectLists' /\ ByDrawOrder' /\ DrawnInOrder' /\ \A n \in frame'.whole : ~object'[n].hidden
  BY <1>1, <1>3 DEF ObjectInv, ObjectLists, ByDrawOrder, DrawnInOrder, Accounted
<1>7. CASE next = NoObject
  <2>1. \A m \in Objects : m = cur \/ Ahead(olist, m, cur)
    BY <1>4, <1>7, NextOnList, ObjectAssumption, ObjectsAreNodes DEF ObjectInv
  <2>2. \A n \in frame'.whole : Once(frame'.drawn, n)
    BY <1>3, <1>5, <2>1
  <2>3. Accounted'
    BY <1>3, <1>6, <1>7, <2>2 DEF Accounted
  <2> HIDE DEF next
  <2> QED BY <1>1, <1>3, <1>6, <1>7, <2>3 DEF ObjectInv, ObjectTypes
<1>8. CASE next # NoObject
  <2>1. /\ next \in Objects /\ Ahead(olist, cur, next)
        /\ \A m : Ahead(olist, m, next) => m = cur \/ Ahead(olist, m, cur)
    BY <1>4, <1>8, NextOnList DEF ObjectInv
  <2> HIDE DEF next
  <2>2. next \in ObjectNodes
    BY <2>1, ObjectsAreNodes DEF ObjectInv
  <2>3. \A m \in Objects : Ahead(olist, next, m) \/ m = next => Ahead(olist, cur, m)
    <3>1. /\ \A a, b \in Objects : a # b => Ahead(olist, a, b) \/ Ahead(olist, b, a)
          /\ \A a, b : Ahead(olist, a, b) => a # b /\ ~Ahead(olist, b, a)
      BY AheadOrders DEF ObjectInv, ObjectLists, Objects
    <3> SUFFICES ASSUME NEW m \in Objects, Ahead(olist, next, m)
                 PROVE  Ahead(olist, cur, m)
      BY <2>1
    <3>2. m # next /\ ~Ahead(olist, m, next)
      BY <3>1
    <3>3. m # cur
      BY <2>1, <3>2
    <3>4. ~Ahead(olist, m, cur)
      \* otherwise m, ahead of cur, would be ahead of next
      <4>1. SUFFICES ASSUME Ahead(olist, m, cur)
                     PROVE  Ahead(olist, m, next)
        BY <3>2
      <4>2. PICK i \in DOMAIN olist, j \in DOMAIN olist :
              i < j /\ olist[i] = m /\ olist[j] = cur
        BY <4>1 DEF Ahead
      <4>3. PICK k \in DOMAIN olist, l \in DOMAIN olist :
              k < l /\ olist[k] = cur /\ olist[l] = next
        BY <2>1 DEF Ahead
      <4>4. j = k /\ i \in Int /\ j \in Int /\ l \in Int
        BY <4>2, <4>3, ListIndices DEF ObjectInv, ObjectLists, NodeList, IsInjective
      <4>5. i < l
        BY <4>2, <4>3, <4>4
      <4> QED BY <4>2, <4>3, <4>5 DEF Ahead
    <3> QED BY <1>4, <3>1, <3>3, <3>4
  <2>4. \A k \in DOMAIN frame.drawn : frame.drawn[k].order <= object[next].draw_order
    <3>1. /\ object[cur].draw_order <= object[next].draw_order
          /\ object[cur].draw_order \in Int /\ object[next].draw_order \in Int
      BY <1>4, <2>1, ObjectsAreNodes, OrderOf DEF ObjectInv, ByDrawOrder, ObjectTypes
    <3> SUFFICES ASSUME NEW k \in DOMAIN frame.drawn
                 PROVE  frame.drawn[k].order <= object[next].draw_order
      OBVIOUS
    <3>2. frame.drawn[k].order \in Int
      <4>1. frame.drawn \in Seq(Drawing)
        BY DEF ObjectInv, ObjectTypes
      <4>2. frame.drawn[k] \in Drawing
        BY <4>1, ListIndices
      <4> QED BY <4>2 DEF Drawing
    <3>3. frame.drawn[k].order <= object[cur].draw_order
      BY <1>2 DEF Walk
    <3> QED BY <3>1, <3>2, <3>3
  <2>5. ASSUME NEW n \in frame.whole
        PROVE  /\ Ahead(olist, n, next) => Once(frame.drawn, n)
               /\ Ahead(olist, next, n) \/ n = next => Never(frame.drawn, n)
    BY <1>2, <1>3, <1>5, <2>1, <2>3 DEF Walk
  <2>6. Walk'
    BY <1>1, <1>3, <1>8, <2>1, <2>4, <2>5 DEF Walk
  <2>7. Accounted'
    BY <1>3, <1>6, <1>8, <2>6 DEF Accounted
  <2> QED BY <1>1, <1>3, <1>6, <2>2, <2>7 DEF ObjectInv, ObjectTypes
<1> QED BY <1>7, <1>8

\* The empty lists.
LEMMA ObjectInitHolds ==
  ASSUME ObjectInit
  PROVE  ObjectInv
<1> USE DEF ObjectInit
<1>1. Objects = {} /\ ToSet(ofree) = {} /\ ObjectLists
  BY NoNodes DEF Objects, ObjectLists
<1>2. ObjectTypes
  <2>1. object \in ObjectFields
    BY DEF ObjectFields
  <2>2. <<>> \in Seq(Drawing)
    BY EmptySeq
  <2> QED BY <2>1, <2>2 DEF ObjectTypes
<1>3. DrawnInOrder
  <2>1. DOMAIN <<>> = {}
    OBVIOUS
  <2> QED BY <2>1 DEF DrawnInOrder
<1> QED BY <1>1, <1>2, <1>3 DEF ObjectInv, ByDrawOrder, Accounted

\* The lists, the draw_order and the account of the frame hold in every state.
THEOREM ObjectInvariant == ObjectSpec => []ObjectInv
<1>1. ObjectInit => ObjectInv
  BY ObjectInitHolds
<1>2. ObjectInv /\ [ObjectNext]_object_vars => ObjectInv'
  <2> SUFFICES ASSUME ObjectInv, [ObjectNext]_object_vars
               PROVE  ObjectInv'
    OBVIOUS
  <2>1. CASE ObjectCall
    BY <2>1, ObjectCallKeeps
  <2>2. CASE StartFrame
    BY <2>2, StartFrameKeeps
  <2>3. CASE DrawObject
    BY <2>3, DrawObjectKeeps
  <2>4. CASE NextObject
    BY <2>4, NextObjectKeeps
  <2>5. CASE UNCHANGED object_vars
    BY <2>5 DEF object_vars, ObjectInv, ObjectLists, ObjectTypes, ByDrawOrder,
                Accounted, DrawnInOrder, Walk, Objects
  <2> QED BY <2>1, <2>2, <2>3, <2>4, <2>5 DEF ObjectNext
<1> QED BY <1>1, <1>2, PTL DEF ObjectSpec

\* Every variable of object.c keeps to its type, and no node is on the two lists.
THEOREM ObjectTypesHold == ObjectSpec => []ObjectTypeOK
<1>1. ObjectInv => ObjectTypeOK
  <2> SUFFICES ASSUME ObjectInv
               PROVE  ObjectTypeOK
    OBVIOUS
  <2>1. IsInjective(olist \o ofree)
    BY Joined DEF ObjectInv, ObjectLists, Objects, NodeList
  <2> QED BY <2>1, ObjectsAreNodes DEF ObjectInv, ObjectTypes, ObjectTypeOK
<1> QED BY <1>1, ObjectInvariant, PTL

\* A frame draws each object that stayed active and visible exactly once, in draw_order,
\* whatever the draw functions create, delete, hide and clear meanwhile (object.c:389-403).
THEOREM FramesComplete == ObjectSpec => []FrameComplete
<1>1. ObjectInv => FrameComplete
  <2> SUFFICES ASSUME ObjectInv
               PROVE  FrameComplete
    OBVIOUS
  <2>1. frame.at # "out" => current_3dobj \in Objects
    BY DEF ObjectInv, Accounted, Walk
  <2>2. ASSUME frame.at = "out", NEW n \in frame.whole
        PROVE  Cardinality({k \in DOMAIN frame.drawn : frame.drawn[k].node = n}) = 1
    <3>1. PICK k : Drawn(frame.drawn, n) = {k}
      BY <2>2 DEF ObjectInv, Accounted, Once
    <3> QED BY <3>1, FS_Singleton DEF Drawn
  <2> QED BY <2>1, <2>2 DEF FrameComplete, ObjectInv, Accounted, DrawnInOrder
<1> QED BY <1>1, ObjectInvariant, PTL

-----------------------------------------------------------------------------
(***************************************************************************)
(* TmuMemory.                                                              *)
(***************************************************************************)

\* A nonempty set of naturals has a least member: the one induction the proofs use.
LEMMA LeastNat ==
  ASSUME NEW T, T \subseteq Nat, T # {}
  PROVE  \E x \in T : \A y \in T : x <= y
<1> DEFINE R == OpToRel(<, Nat)
<1>1. IsWellFoundedOn(R, Nat)
  BY NatLessThanWellFounded
<1>2. ASSUME NEW x \in Nat, NEW y \in Nat, x < y
      PROVE  <<x, y>> \in R
  BY <1>2 DEF OpToRel
<1> HIDE DEF R
<1>3. PICK x \in T : \A y \in T : ~(<<y, x>> \in R)
  BY <1>1, WFMin
<1>4. ASSUME NEW y \in T
      PROVE  x <= y
  <2>1. x \in Nat /\ y \in Nat /\ ~(<<y, x>> \in R)
    BY <1>3
  <2>2. ~(y < x)
    BY <1>2, <2>1
  <2> QED BY <2>1, <2>2
<1> QED BY <1>4

\* Min gives it.
LEMMA MinIsIn ==
  ASSUME NEW T, T \subseteq Nat, T # {}
  PROVE  Min(T) \in T
<1>1. PICK x \in T : \A y \in T : x <= y
  BY LeastNat
<1> QED BY <1>1 DEF Min

\* InsertAt puts a node in front of the k-th and leaves the others in their order.
LEMMA InsertedAt ==
  ASSUME NEW X, NEW s, NodeList(s, X), NEW k \in 1 .. Len(s) + 1,
         NEW e \in X, e \notin ToSet(s)
  PROVE  /\ NodeList(InsertAt(s, k, e), X)
         /\ ToSet(InsertAt(s, k, e)) = ToSet(s) \cup {e}
         /\ \A a, b : Ahead(InsertAt(s, k, e), a, b) =>
              \/ Ahead(s, a, b)
              \/ a = e /\ \E j \in DOMAIN s : k <= j /\ b = s[j]
              \/ b = e /\ \E i \in DOMAIN s : i < k /\ a = s[i]
<1> DEFINE u == InsertAt(s, k, e)
           front == SubSeq(s, 1, k - 1)
           back == SubSeq(s, k, Len(s))
<1>1. s \in Seq(X) /\ Len(s) \in Nat /\ DOMAIN s = 1 .. Len(s) /\ k \in Int /\ 1 <= k
      /\ k <= Len(s) + 1 /\ \A i \in DOMAIN s : s[i] \in X
  BY ListIndices DEF NodeList
<1>2. front \in Seq(X) /\ Len(front) = k - 1 /\ \A i \in 1 .. k - 1 : front[i] = s[i]
  <2>1. \A i \in 1 .. k - 1 : s[i] \in X
    BY <1>1
  <2>2. /\ front \in Seq(X)
        /\ Len(front) = IF 1 <= k - 1 THEN k - 1 - 1 + 1 ELSE 0
        /\ \A i \in 1 .. k - 1 - 1 + 1 : front[i] = s[1 + i - 1]
    BY <1>1, <2>1, SubSeqProperties
  <2> HIDE DEF front
  <2>3. \A i \in 1 .. k - 1 : i \in 1 .. k - 1 - 1 + 1 /\ 1 + i - 1 = i
    BY <1>1
  <2>4. Len(front) = k - 1
    BY <1>1, <2>2
  <2> QED BY <2>2, <2>3, <2>4
<1>3. /\ back \in Seq(X) /\ Len(back) = Len(s) - k + 1
      /\ \A i \in 1 .. Len(s) - k + 1 : back[i] = s[k + i - 1]
  <2>1. \A i \in k .. Len(s) : s[i] \in X
    BY <1>1
  <2>2. /\ back \in Seq(X)
        /\ Len(back) = IF k <= Len(s) THEN Len(s) - k + 1 ELSE 0
        /\ \A i \in 1 .. Len(s) - k + 1 : back[i] = s[k + i - 1]
    BY <1>1, <2>1, SubSeqProperties
  <2> HIDE DEF back
  <2>3. Len(back) = Len(s) - k + 1
    BY <1>1, <2>2
  <2> QED BY <2>2, <2>3
<1> HIDE DEF front, back
<1>4. <<e>> \in Seq(X) /\ Len(<<e>>) = 1 /\ <<e>>[1] = e
  OBVIOUS
<1>5. /\ front \o <<e>> \in Seq(X) /\ Len(front \o <<e>>) = k
      /\ \A i \in 1 .. k : (front \o <<e>>)[i] = IF i < k THEN s[i] ELSE e
  <2>1. /\ front \o <<e>> \in Seq(X) /\ Len(front \o <<e>>) = k - 1 + 1
        /\ \A i \in 1 .. k - 1 + 1 :
             (front \o <<e>>)[i] = IF i <= k - 1 THEN front[i] ELSE <<e>>[i - (k - 1)]
    BY <1>2, <1>4, ConcatProperties
  <2>2. ASSUME NEW i \in 1 .. k
        PROVE  (front \o <<e>>)[i] = IF i < k THEN s[i] ELSE e
    <3>1. i \in 1 .. k - 1 + 1
      BY <1>1
    <3>2. (front \o <<e>>)[i] = IF i <= k - 1 THEN front[i] ELSE <<e>>[i - (k - 1)]
      BY <2>1, <3>1
    <3>3. CASE i < k
      <4>1. i \in 1 .. k - 1 /\ i <= k - 1
        BY <1>1, <3>3
      <4> QED BY <1>2, <3>2, <3>3, <4>1
    <3>4. CASE ~(i < k)
      <4>1. i - (k - 1) = 1 /\ ~(i <= k - 1)
        BY <1>1, <3>4
      <4> QED BY <1>4, <3>2, <3>4, <4>1
    <3> QED BY <3>3, <3>4
  <2>3. k - 1 + 1 = k
    BY <1>1
  <2> QED BY <2>1, <2>2, <2>3
<1>6. /\ u \in Seq(X) /\ Len(u) = Len(s) + 1 /\ DOMAIN u = 1 .. Len(s) + 1
      /\ \A i \in DOMAIN u : u[i] = IF i < k THEN s[i] ELSE IF i = k THEN e ELSE s[i - 1]
  <2> DEFINE v == front \o <<e>>
  <2>1. u = v \o back
    BY DEF InsertAt, front, back
  <2> HIDE DEF v
  <2>2. v \in Seq(X) /\ Len(v) = k /\ \A i \in 1 .. k : v[i] = IF i < k THEN s[i] ELSE e
    BY <1>5 DEF v
  <2> HIDE DEF u
  <2>3. /\ u \in Seq(X) /\ Len(u) = k + (Len(s) - k + 1)
        /\ \A i \in 1 .. k + (Len(s) - k + 1) : u[i] = IF i <= k THEN v[i] ELSE back[i - k]
    BY <1>3, <2>1, <2>2, ConcatProperties
  <2>4. Len(u) = Len(s) + 1 /\ DOMAIN u = 1 .. Len(s) + 1
    <3>1. Len(u) = Len(s) + 1
      BY <1>1, <2>3
    <3> QED BY <2>3, <3>1, ListIndices
  <2>5. ASSUME NEW i \in DOMAIN u
        PROVE  u[i] = IF i < k THEN s[i] ELSE IF i = k THEN e ELSE s[i - 1]
    <3>1. i \in 1 .. k + (Len(s) - k + 1) /\ i \in Int /\ 1 <= i /\ i <= Len(s) + 1
      BY <1>1, <2>4
    <3>2. u[i] = IF i <= k THEN v[i] ELSE back[i - k]
      BY <2>3, <3>1
    <3>3. CASE i <= k
      <4>1. i \in 1 .. k
        BY <1>1, <3>1, <3>3
      <4>2. u[i] = IF i < k THEN s[i] ELSE e
        BY <2>2, <3>2, <3>3, <4>1
      <4>3. i < k \/ i = k
        BY <1>1, <3>1, <3>3
      <4> QED BY <4>2, <4>3
    <3>4. CASE ~(i <= k)
      <4>1. i - k \in 1 .. Len(s) - k + 1 /\ k + (i - k) - 1 = i - 1
        BY <1>1, <3>1, <3>4
      <4>2. u[i] = s[i - 1]
        BY <1>3, <3>2, <3>4, <4>1
      <4>3. ~(i < k) /\ i # k
        BY <1>1, <3>1, <3>4
      <4> QED BY <4>2, <4>3
    <3> QED BY <3>3, <3>4
  <2> QED BY <2>3, <2>4, <2>5
<1> HIDE DEF u
<1>7. \A i \in DOMAIN u : \/ i < k /\ i \in DOMAIN s /\ u[i] = s[i]
                          \/ i = k /\ u[i] = e
                          \/ i > k /\ i - 1 \in DOMAIN s /\ k <= i - 1 /\ u[i] = s[i - 1]
  BY <1>1, <1>6
<1>8. /\ \A i \in DOMAIN s : \/ i < k /\ i \in DOMAIN u /\ u[i] = s[i]
                             \/ i >= k /\ i + 1 \in DOMAIN u /\ u[i + 1] = s[i]
      /\ k \in DOMAIN u /\ u[k] = e
  BY <1>1, <1>6
<1>9. ToSet(u) = ToSet(s) \cup {e}
  <2>1. ToSet(u) \subseteq ToSet(s) \cup {e}
    BY <1>7 DEF ToSet
  <2>2. ToSet(s) \cup {e} \subseteq ToSet(u)
    BY <1>8 DEF ToSet
  <2> QED BY <2>1, <2>2
<1>10. \A i \in DOMAIN s : s[i] # e
  BY DEF ToSet
<1>11. IsInjective(u)
  <2> SUFFICES ASSUME NEW i \in DOMAIN u, NEW j \in DOMAIN u, u[i] = u[j]
               PROVE  i = j
    BY DEF IsInjective
  <2>1. i \in Int /\ j \in Int
    BY <1>1, <1>6
  <2>2. \A a, b \in DOMAIN s : s[a] = s[b] => a = b
    BY DEF NodeList, IsInjective
  <2>3. CASE i < k
    <3>1. u[i] = s[i] /\ i \in DOMAIN s
      BY <1>1, <1>7, <2>1, <2>3
    <3>2. ~(j = k)
      BY <1>8, <1>10, <3>1
    <3>3. CASE j < k
      <4>1. j \in DOMAIN s /\ u[j] = s[j]
        BY <1>1, <1>7, <2>1, <3>3
      <4> QED BY <2>2, <3>1, <4>1
    <3>4. CASE j > k
      <4>1. j - 1 \in DOMAIN s /\ u[j] = s[j - 1] /\ k <= j - 1
        BY <1>1, <1>7, <2>1, <3>4
      <4>2. i = j - 1
        BY <2>2, <3>1, <4>1
      <4> QED BY <1>1, <2>1, <2>3, <4>1, <4>2
    <3> QED BY <1>1, <2>1, <3>2, <3>3, <3>4
  <2>4. CASE i = k
    <3>1. j = k
      BY <1>7, <1>8, <1>10, <2>4
    <3> QED BY <2>4, <3>1
  <2>5. CASE i > k
    <3>1. u[i] = s[i - 1] /\ i - 1 \in DOMAIN s /\ k <= i - 1
      BY <1>1, <1>7, <2>1, <2>5
    <3>2. ~(j = k)
      BY <1>8, <1>10, <3>1
    <3>3. CASE j < k
      <4>1. j \in DOMAIN s /\ u[j] = s[j]
        BY <1>1, <1>7, <2>1, <3>3
      <4>2. j = i - 1
        BY <2>2, <3>1, <4>1
      <4> QED BY <1>1, <2>1, <3>1, <3>3, <4>2
    <3>4. CASE j > k
      <4>1. j - 1 \in DOMAIN s /\ u[j] = s[j - 1]
        BY <1>1, <1>7, <2>1, <3>4
      <4>2. i - 1 = j - 1
        BY <2>2, <3>1, <4>1
      <4> QED BY <2>1, <4>2
    <3> QED BY <1>1, <2>1, <3>2, <3>3, <3>4
  <2> QED BY <1>1, <2>1, <2>3, <2>4, <2>5
<1>12. ASSUME NEW a, NEW b, Ahead(u, a, b)
       PROVE  \/ Ahead(s, a, b)
              \/ a = e /\ \E j \in DOMAIN s : k <= j /\ b = s[j]
              \/ b = e /\ \E i \in DOMAIN s : i < k /\ a = s[i]
  <2>1. PICK i \in DOMAIN u, j \in DOMAIN u : i < j /\ u[i] = a /\ u[j] = b
    BY <1>12 DEF Ahead
  <2>2. i \in Int /\ j \in Int
    BY <1>1, <1>6
  <2>3. CASE j < k
    <3>1. i \in DOMAIN s /\ j \in DOMAIN s /\ u[i] = s[i] /\ u[j] = s[j]
      BY <1>1, <1>7, <2>1, <2>2, <2>3
    <3> QED BY <2>1, <3>1 DEF Ahead
  <2>4. CASE j = k
    <3>1. i \in DOMAIN s /\ i < k /\ u[i] = s[i] /\ u[j] = e
      BY <1>1, <1>7, <2>1, <2>2, <2>4
    <3> QED BY <2>1, <3>1
  <2>5. CASE j > k /\ i < k
    <3>1. /\ i \in DOMAIN s /\ j - 1 \in DOMAIN s /\ i < j - 1
          /\ u[i] = s[i] /\ u[j] = s[j - 1]
      BY <1>1, <1>7, <2>1, <2>2, <2>5
    <3> QED BY <2>1, <3>1 DEF Ahead
  <2>6. CASE j > k /\ i = k
    <3>1. u[i] = e /\ j - 1 \in DOMAIN s /\ k <= j - 1 /\ u[j] = s[j - 1]
      BY <1>1, <1>7, <1>8, <2>2, <2>6
    <3> QED BY <2>1, <3>1
  <2>7. CASE j > k /\ i > k
    <3>1. /\ i - 1 \in DOMAIN s /\ j - 1 \in DOMAIN s /\ i - 1 < j - 1
          /\ u[i] = s[i - 1] /\ u[j] = s[j - 1]
      BY <1>1, <1>7, <2>1, <2>2, <2>7
    <3> QED BY <2>1, <3>1 DEF Ahead
  <2> QED BY <1>1, <2>2, <2>3, <2>4, <2>5, <2>6, <2>7
<1> QED BY <1>6, <1>9, <1>11, <1>12 DEF NodeList, u

Piece == [start : Nat, size : Nat \ {0}, owner : TextureNodes]

BytesOf(pieces) == UNION {{p} \X (1 .. p.size) : p \in pieces}

\* The bytes of finitely many pieces are finitely many.
LEMMA BytesFinite ==
  ASSUME NEW S, S \subseteq Piece, IsFiniteSet(S)
  PROVE  IsFiniteSet(BytesOf(S)) /\ Bytes(S) = Cardinality(BytesOf(S)) /\ Bytes(S) \in Nat
<1> DEFINE F == {{p} \X (1 .. p.size) : p \in S}
           f == [p \in S |-> {p} \X (1 .. p.size)]
<1>1. IsFiniteSet(F)
  <2>1. f \in Surjection(S, F)
    BY DEF Surjection
  <2> HIDE DEF f, F
  <2> QED BY <2>1, FS_Surjection
<1>2. ASSUME NEW p \in S
      PROVE  IsFiniteSet({p} \X (1 .. p.size))
  <2>1. p.size \in Nat
    BY DEF Piece
  <2>2. IsFiniteSet({p})
    BY FS_Singleton
  <2>3. IsFiniteSet(1 .. p.size)
    BY <2>1, FS_Interval
  <2> QED BY <2>2, <2>3, FS_Product
<1>3. \A T \in F : IsFiniteSet(T)
  BY <1>2
<1> HIDE DEF F
<1>4. IsFiniteSet(UNION F)
  BY <1>1, <1>3, FS_UNION
<1>5. IsFiniteSet(BytesOf(S))
  BY <1>4 DEF F, BytesOf
<1> QED BY <1>5, FS_CardinalityType DEF Bytes, BytesOf

\* The bytes of two sets of pieces without a common one add up.
LEMMA BytesAdd ==
  ASSUME NEW S, NEW T, S \subseteq Piece, T \subseteq Piece,
         IsFiniteSet(S), IsFiniteSet(T), S \cap T = {}
  PROVE  Bytes(S \cup T) = Bytes(S) + Bytes(T)
<1>1. IsFiniteSet(S \cup T) /\ S \cup T \subseteq Piece
  BY FS_Union
<1>2. /\ IsFiniteSet(BytesOf(S)) /\ Bytes(S) = Cardinality(BytesOf(S)) /\ Bytes(S) \in Nat
      /\ IsFiniteSet(BytesOf(T)) /\ Bytes(T) = Cardinality(BytesOf(T)) /\ Bytes(T) \in Nat
      /\ Bytes(S \cup T) = Cardinality(BytesOf(S \cup T))
  BY <1>1, BytesFinite
<1>3. BytesOf(S \cup T) = BytesOf(S) \cup BytesOf(T)
  BY DEF BytesOf
<1>4. BytesOf(S) \cap BytesOf(T) = {}
  <2> SUFFICES ASSUME NEW x \in BytesOf(S), x \in BytesOf(T)
               PROVE  FALSE
    OBVIOUS
  <2>1. PICK p \in S : x \in {p} \X (1 .. p.size)
    BY DEF BytesOf
  <2>2. PICK q \in T : x \in {q} \X (1 .. q.size)
    BY DEF BytesOf
  <2>3. x[1] = p /\ x[1] = q
    BY <2>1, <2>2
  <2> QED BY <2>3
<1>5. Cardinality({}) = 0
  BY FS_EmptySet
<1>6. Cardinality(BytesOf(S) \cup BytesOf(T)) =
        Cardinality(BytesOf(S)) + Cardinality(BytesOf(T)) - 0
  BY <1>2, <1>4, <1>5, FS_Union
<1>7. Cardinality(BytesOf(S \cup T)) = Bytes(S) + Bytes(T) - 0
  BY <1>2, <1>3, <1>6
<1>8. \A a, b \in Nat : a + b - 0 = a + b
  OBVIOUS
<1> QED BY <1>2, <1>7, <1>8

\* The bytes of one piece are as many as its size.
LEMMA BytesOfOne ==
  ASSUME NEW p \in Piece
  PROVE  Bytes({p}) = p.size
<1>1. p.size \in Nat
  BY DEF Piece
<1>2. /\ IsFiniteSet({p}) /\ Cardinality({p}) = 1
      /\ IsFiniteSet(1 .. p.size) /\ Cardinality(1 .. p.size) = p.size
  <2>1. IsFiniteSet({p}) /\ Cardinality({p}) = 1
    BY FS_Singleton
  <2>2. IsFiniteSet(1 .. p.size)
        /\ Cardinality(1 .. p.size) = IF 1 > p.size THEN 0 ELSE p.size - 1 + 1
    BY <1>1, FS_Interval
  <2>3. Cardinality(1 .. p.size) = p.size
    BY <1>1, <2>2
  <2> QED BY <2>1, <2>2, <2>3
<1>3. Cardinality({p} \X (1 .. p.size)) = 1 * p.size
  BY <1>2, FS_Product
<1>4. UNION {{q} \X (1 .. q.size) : q \in {p}} = {p} \X (1 .. p.size)
  OBVIOUS
<1> QED BY <1>1, <1>3, <1>4 DEF Bytes

\* No piece, no byte.
LEMMA BytesOfNone == Bytes({}) = 0
<1>1. UNION {{p} \X (1 .. p.size) : p \in {}} = {}
  OBVIOUS
<1> QED BY <1>1, FS_EmptySet DEF Bytes

\* The pieces of a half lie inside it, one behind the other.
Laid(list, s) ==
  /\ NodeList(list, Piece)
  /\ \A p \in ToSet(list) : minAddr(s) <= p.start /\ PieceEnd(p) <= maxAddr(s)
  /\ \A p, q : Ahead(list, p, q) => PieceEnd(p) <= q.start

\* The bytes of a unit: those its counters say are free, and those of its pieces.
Total(m, t) ==
  getTotalMemTmu(m, t) + UsedBytes(m, <<t, "A">>) + UsedBytes(m, <<t, "B">>)

MemoryOK(m) ==
  /\ m.free \in [Sections -> Nat] /\ DOMAIN m.pieces = Sections
  /\ \A s \in Sections : Laid(m.pieces[s], s)
  /\ \A t \in TMUs : Total(m, t) = 2 * TmuHalf

\* A list has finitely many pieces.
LEMMA ListFinite ==
  ASSUME NEW X, NEW s, NodeList(s, X)
  PROVE  IsFiniteSet(ToSet(s)) /\ ToSet(s) \subseteq X
<1>1. s \in Seq(X) /\ Len(s) \in Nat /\ DOMAIN s = 1 .. Len(s) /\ ToSet(s) \subseteq X
  BY ListIndices DEF NodeList
<1>2. IsFiniteSet(1 .. Len(s))
  BY <1>1, FS_Interval
<1>3. s \in Surjection(1 .. Len(s), ToSet(s))
  <2>1. s \in [1 .. Len(s) -> ToSet(s)]
    <3>1. s = [i \in 1 .. Len(s) |-> s[i]]
      BY <1>1, LenProperties
    <3>2. \A i \in 1 .. Len(s) : s[i] \in ToSet(s)
      BY <1>1 DEF ToSet
    <3> QED BY <3>1, <3>2
  <2>2. \A e \in ToSet(s) : \E i \in 1 .. Len(s) : s[i] = e
    BY <1>1 DEF ToSet
  <2> QED BY <2>1, <2>2 DEF Surjection
<1> QED BY <1>1, <1>2, <1>3, FS_Surjection

\* The halves and their addresses.
LEMMA SectionsFacts ==
  /\ TmuHalf \in Nat /\ TMUs \subseteq {0, 1}
  /\ \A t \in TMUs : <<t, "A">> \in Sections /\ <<t, "B">> \in Sections
  /\ \A s \in Sections :
       /\ s[1] \in TMUs /\ (s = <<s[1], "A">> \/ s = <<s[1], "B">>)
       /\ minAddr(s) \in Nat /\ maxAddr(s) \in Nat
  /\ \A t : /\ minAddr(<<t, "A">>) = 0 /\ maxAddr(<<t, "A">>) = TmuHalf
            /\ minAddr(<<t, "B">>) = TmuHalf /\ maxAddr(<<t, "B">>) = TmuHalf + TmuHalf
<1>1. TmuHalf \in Nat /\ TMUs \subseteq {0, 1}
  BY TmuAssumption
<1>2. \A t : /\ minAddr(<<t, "A">>) = 0 /\ maxAddr(<<t, "A">>) = TmuHalf
             /\ minAddr(<<t, "B">>) = TmuHalf /\ maxAddr(<<t, "B">>) = TmuHalf + TmuHalf
  BY <1>1 DEF minAddr, maxAddr
<1>3. \A s \in Sections : s[1] \in TMUs /\ (s = <<s[1], "A">> \/ s = <<s[1], "B">>)
  BY DEF Sections
<1>4. \A s \in Sections : minAddr(s) \in Nat /\ maxAddr(s) \in Nat
  BY <1>1 DEF minAddr, maxAddr
<1>5. \A t \in TMUs : <<t, "A">> \in Sections /\ <<t, "B">> \in Sections
  BY DEF Sections
<1> QED BY <1>1, <1>2, <1>3, <1>4, <1>5

\* A space of a half lies behind the pieces in front of it and before the others.
LEMMA SpaceOf ==
  ASSUME NEW m, NEW s \in Sections, Laid(m.pieces[s], s),
         NEW size \in Nat \ {0}, NEW k \in findMemTmuList(m, s, size)
  PROVE  LET start == GapStart(m, s, k) IN
         /\ k \in 1 .. Len(m.pieces[s]) + 1
         /\ start \in Nat /\ minAddr(s) <= start /\ start + size <= maxAddr(s)
         /\ \A i \in DOMAIN m.pieces[s] : i < k => PieceEnd(m.pieces[s][i]) <= start
         /\ \A j \in DOMAIN m.pieces[s] : k <= j => start + size <= m.pieces[s][j].start
<1> DEFINE L == m.pieces[s]
           start == GapStart(m, s, k)
           end == GapEnd(m, s, k)
<1>1. /\ L \in Seq(Piece) /\ Len(L) \in Nat /\ DOMAIN L = 1 .. Len(L)
      /\ \A i \in DOMAIN L : L[i] \in Piece
  BY ListIndices DEF Laid, NodeList
<1>2. \A i \in DOMAIN L :
        /\ L[i].start \in Nat /\ L[i].size \in Nat \ {0} /\ PieceEnd(L[i]) \in Nat
        /\ L[i].start < PieceEnd(L[i])
        /\ minAddr(s) <= L[i].start /\ PieceEnd(L[i]) <= maxAddr(s)
  <2> SUFFICES ASSUME NEW i \in DOMAIN L
               PROVE  /\ L[i].start \in Nat /\ L[i].size \in Nat \ {0}
                      /\ PieceEnd(L[i]) \in Nat
                      /\ L[i].start < PieceEnd(L[i])
                      /\ minAddr(s) <= L[i].start /\ PieceEnd(L[i]) <= maxAddr(s)
    OBVIOUS
  <2>1. L[i] \in Piece /\ L[i] \in ToSet(L)
    BY <1>1 DEF ToSet
  <2>2. minAddr(s) <= L[i].start /\ PieceEnd(L[i]) <= maxAddr(s)
    BY <2>1 DEF Laid
  <2>3. L[i].start \in Nat /\ L[i].size \in Nat \ {0}
    BY <2>1 DEF Piece
  <2> QED BY <2>2, <2>3 DEF PieceEnd
<1>3. \A i, j \in DOMAIN L : i < j => PieceEnd(L[i]) <= L[j].start
  BY DEF Laid, Ahead
<1>4. k \in 1 .. Len(L) + 1 /\ end - start >= size
  BY DEF findMemTmuList, GapSize
<1>5. start = IF k = 1 THEN minAddr(s) ELSE PieceEnd(L[k - 1])
  BY DEF GapStart
<1>6. end = IF k = Len(L) + 1 THEN maxAddr(s) ELSE L[k].start
  BY DEF GapEnd
<1>7. minAddr(s) \in Nat /\ maxAddr(s) \in Nat
  BY SectionsFacts
<1> HIDE DEF start, end, L
<1>8. k # 1 => k - 1 \in DOMAIN L
  BY <1>1, <1>4
<1>9. k # Len(L) + 1 => k \in DOMAIN L
  BY <1>1, <1>4
<1>10. start \in Nat /\ minAddr(s) <= start
  <2>1. CASE k = 1
    BY <1>5, <1>7, <2>1
  <2>2. CASE k # 1
    <3>1. /\ start = PieceEnd(L[k - 1]) /\ start \in Nat
          /\ minAddr(s) <= L[k - 1].start /\ L[k - 1].start < start
          /\ L[k - 1].start \in Nat
      BY <1>2, <1>5, <1>8, <2>2
    <3> QED BY <1>7, <3>1
  <2> QED BY <2>1, <2>2
<1>11. end \in Nat /\ end <= maxAddr(s)
  <2>1. CASE k = Len(L) + 1
    BY <1>6, <1>7, <2>1
  <2>2. CASE k # Len(L) + 1
    <3>1. /\ end = L[k].start /\ end \in Nat
          /\ L[k].start < PieceEnd(L[k]) /\ PieceEnd(L[k]) <= maxAddr(s)
          /\ PieceEnd(L[k]) \in Nat
      BY <1>2, <1>6, <1>9, <2>2
    <3> QED BY <1>7, <3>1
  <2> QED BY <2>1, <2>2
<1>12. start + size <= end /\ start + size <= maxAddr(s)
  BY <1>4, <1>7, <1>10, <1>11
<1>13. ASSUME NEW i \in DOMAIN L, i < k
       PROVE  PieceEnd(L[i]) <= start
  <2>1. k # 1 /\ i \in Int /\ k \in Int /\ (i = k - 1 \/ i < k - 1)
    BY <1>1, <1>4, <1>13
  <2>2. start = PieceEnd(L[k - 1]) /\ k - 1 \in DOMAIN L
    BY <1>5, <1>8, <2>1
  <2>3. CASE i = k - 1
    BY <1>2, <2>2, <2>3
  <2>4. CASE i < k - 1
    <3>1. PieceEnd(L[i]) <= L[k - 1].start /\ L[k - 1].start < PieceEnd(L[k - 1])
      BY <1>2, <1>3, <2>2, <2>4
    <3>2. PieceEnd(L[i]) \in Nat /\ L[k - 1].start \in Nat /\ PieceEnd(L[k - 1]) \in Nat
      BY <1>2, <2>2
    <3> QED BY <2>2, <3>1, <3>2
  <2> QED BY <2>1, <2>3, <2>4
<1>14. ASSUME NEW j \in DOMAIN L, k <= j
       PROVE  start + size <= L[j].start
  <2>1. k # Len(L) + 1 /\ j \in Int /\ k \in Int /\ (j = k \/ k < j)
    BY <1>1, <1>4, <1>14
  <2>2. end = L[k].start /\ k \in DOMAIN L
    BY <1>6, <1>9, <2>1
  <2>3. CASE j = k
    BY <1>12, <2>2, <2>3
  <2>4. CASE k < j
    <3>1. PieceEnd(L[k]) <= L[j].start /\ L[k].start < PieceEnd(L[k])
      BY <1>2, <1>3, <2>2, <2>4
    <3>2. PieceEnd(L[k]) \in Nat /\ L[k].start \in Nat /\ L[j].start \in Nat
      BY <1>2, <2>2
    <3> QED BY <1>10, <1>12, <2>2, <3>1, <3>2
  <2> QED BY <2>1, <2>3, <2>4
<1> QED BY <1>4, <1>10, <1>12, <1>13, <1>14 DEF start, L

\* A list of pieces with one more in one of its spaces.
LEMMA LaidMore ==
  ASSUME NEW m, NEW s \in Sections, Laid(m.pieces[s], s),
         NEW size \in Nat \ {0}, NEW k \in findMemTmuList(m, s, size),
         NEW owner \in TextureNodes
  PROVE  LET piece == [start |-> GapStart(m, s, k), size |-> size, owner |-> owner]
             more == InsertAt(m.pieces[s], k, piece)
         IN  /\ piece \in Piece /\ piece \notin ToSet(m.pieces[s])
             /\ Laid(more, s) /\ ToSet(more) = ToSet(m.pieces[s]) \cup {piece}
<1> DEFINE L == m.pieces[s]
           start == GapStart(m, s, k)
           piece == [start |-> start, size |-> size, owner |-> owner]
           more == InsertAt(L, k, piece)
<1>1. /\ k \in 1 .. Len(L) + 1
      /\ start \in Nat /\ minAddr(s) <= start /\ start + size <= maxAddr(s)
      /\ \A i \in DOMAIN L : i < k => PieceEnd(L[i]) <= start
      /\ \A j \in DOMAIN L : k <= j => start + size <= L[j].start
  BY SpaceOf
<1>2. NodeList(L, Piece) /\ L \in Seq(Piece)
  BY DEF Laid, NodeList
<1> HIDE DEF start, L
<1>3. /\ piece \in Piece /\ piece.start = start /\ PieceEnd(piece) = start + size
      /\ piece.owner = owner
  BY <1>1 DEF Piece, PieceEnd
<1> HIDE DEF piece, more
<1>4. piece \notin ToSet(L)
  <2> SUFFICES ASSUME NEW i \in DOMAIN L, L[i] = piece
               PROVE  FALSE
    BY DEF ToSet
  <2>1. i \in Int /\ k \in Int /\ start \in Nat /\ size \in Nat /\ size > 0
    BY <1>1, <1>2, ListIndices
  <2>2. CASE i < k
    BY <1>1, <1>3, <2>1, <2>2
  <2>3. CASE k <= i
    BY <1>1, <1>3, <2>1, <2>3
  <2> QED BY <2>1, <2>2, <2>3
<1>5. /\ NodeList(more, Piece) /\ ToSet(more) = ToSet(L) \cup {piece}
      /\ \A a, b : Ahead(more, a, b) =>
           \/ Ahead(L, a, b)
           \/ a = piece /\ \E j \in DOMAIN L : k <= j /\ b = L[j]
           \/ b = piece /\ \E i \in DOMAIN L : i < k /\ a = L[i]
  BY <1>1, <1>2, <1>3, <1>4, InsertedAt DEF more
<1>6. \A p \in ToSet(more) : minAddr(s) <= p.start /\ PieceEnd(p) <= maxAddr(s)
  <2>1. \A p \in ToSet(L) : minAddr(s) <= p.start /\ PieceEnd(p) <= maxAddr(s)
    BY DEF Laid, L
  <2> QED BY <1>1, <1>3, <1>5, <2>1
<1>7. ASSUME NEW p, NEW q, Ahead(more, p, q)
      PROVE  PieceEnd(p) <= q.start
  <2>1. CASE Ahead(L, p, q)
    BY <2>1 DEF Laid, L
  <2>2. CASE p = piece /\ \E j \in DOMAIN L : k <= j /\ q = L[j]
    BY <1>1, <1>3, <2>2
  <2>3. CASE q = piece /\ \E i \in DOMAIN L : i < k /\ p = L[i]
    BY <1>1, <1>3, <2>3
  <2> QED BY <1>5, <1>7, <2>1, <2>2, <2>3
<1>8. Laid(more, s)
  BY <1>5, <1>6, <1>7 DEF Laid
<1> QED BY <1>3, <1>4, <1>5, <1>8 DEF piece, more, start, L

\* get_memory: the piece is taken from a space, and its bytes from the counter.
LEMMA GetMemory ==
  ASSUME NEW m, MemoryOK(m), NEW s \in Sections, NEW size \in Nat \ {0},
         NEW owner \in TextureNodes,
         size < m.free[s], findMemTmuList(m, s, size) # {}
  PROVE  LET r == get_memory(m, s, size, owner)
         IN  /\ MemoryOK(r) /\ Owners(r) = Owners(m) \cup {owner}
             /\ \A q \in Sections : q # s =>
                  r.pieces[q] = m.pieces[q] /\ r.free[q] = m.free[q]
<1> DEFINE r == get_memory(m, s, size, owner)
           k == Min(findMemTmuList(m, s, size))
           piece == [start |-> GapStart(m, s, k), size |-> size, owner |-> owner]
           more == InsertAt(m.pieces[s], k, piece)
<1>1. k \in findMemTmuList(m, s, size)
  <2>1. Laid(m.pieces[s], s)
    BY DEF MemoryOK
  <2>2. Len(m.pieces[s]) \in Nat
    BY <2>1, ListIndices DEF Laid, NodeList
  <2>3. findMemTmuList(m, s, size) \subseteq Nat
    BY <2>2 DEF findMemTmuList
  <2> HIDE DEF k
  <2> QED BY <2>3, MinIsIn DEF k
<1>2. /\ r.pieces = [m.pieces EXCEPT ![s] = more]
      /\ r.free = [m.free EXCEPT ![s] = m.free[s] - size]
  BY DEF get_memory
<1> HIDE DEF k, r
<1>3. /\ piece \in Piece /\ piece \notin ToSet(m.pieces[s])
      /\ Laid(more, s) /\ ToSet(more) = ToSet(m.pieces[s]) \cup {piece}
  <2>1. Laid(m.pieces[s], s)
    BY DEF MemoryOK
  <2> QED BY <1>1, <2>1, LaidMore
<1>4. piece.size = size /\ piece.owner = owner
  OBVIOUS
<1> HIDE DEF piece, more
<1>5. /\ r.pieces[s] = more /\ DOMAIN r.pieces = Sections
      /\ \A q \in Sections : q # s =>
           r.pieces[q] = m.pieces[q] /\ r.free[q] = m.free[q]
      /\ r.free[s] = m.free[s] - size /\ r.free \in [Sections -> Nat]
  BY <1>2 DEF MemoryOK
<1>6. \A q \in Sections : Laid(r.pieces[q], q)
  BY <1>3, <1>5 DEF MemoryOK
<1>7. \A q \in Sections : Laid(m.pieces[q], q) /\ m.free[q] \in Nat
  BY DEF MemoryOK
<1>8. UsedBytes(r, s) = UsedBytes(m, s) + size
  <2>1. IsFiniteSet(ToSet(m.pieces[s])) /\ ToSet(m.pieces[s]) \subseteq Piece
    BY <1>7, ListFinite DEF Laid
  <2>2. IsFiniteSet({piece}) /\ {piece} \subseteq Piece
    BY <1>3, FS_Singleton
  <2>3. Bytes(ToSet(m.pieces[s]) \cup {piece}) = Bytes(ToSet(m.pieces[s])) + Bytes({piece})
    BY <1>3, <2>1, <2>2, BytesAdd
  <2>4. Bytes({piece}) = size
    BY <1>3, <1>4, BytesOfOne
  <2> QED BY <1>3, <1>5, <2>3, <2>4 DEF UsedBytes
<1>9. \A q \in Sections : UsedBytes(m, q) \in Nat
  <2> SUFFICES ASSUME NEW q \in Sections
               PROVE  UsedBytes(m, q) \in Nat
    OBVIOUS
  <2>1. IsFiniteSet(ToSet(m.pieces[q])) /\ ToSet(m.pieces[q]) \subseteq Piece
    BY <1>7, ListFinite DEF Laid
  <2> QED BY <2>1, BytesFinite DEF UsedBytes
<1>10. \A q \in Sections : q # s => UsedBytes(r, q) = UsedBytes(m, q)
  BY <1>5 DEF UsedBytes
<1>11. ASSUME NEW t \in TMUs
       PROVE  Total(r, t) = Total(m, t)
  <2> DEFINE a == <<t, "A">>
             b == <<t, "B">>
  <2>1. a \in Sections /\ b \in Sections /\ a # b
    BY SectionsFacts
  <2>2. /\ Total(r, t) = r.free[a] + r.free[b] + UsedBytes(r, a) + UsedBytes(r, b)
        /\ Total(m, t) = m.free[a] + m.free[b] + UsedBytes(m, a) + UsedBytes(m, b)
    BY DEF Total, getTotalMemTmu
  <2> HIDE DEF a, b
  <2>3. /\ m.free[a] \in Nat /\ m.free[b] \in Nat
        /\ UsedBytes(m, a) \in Nat /\ UsedBytes(m, b) \in Nat
    BY <1>7, <1>9, <2>1
  <2>4. CASE a = s
    <3>1. /\ r.free[a] = m.free[a] - size /\ r.free[b] = m.free[b]
          /\ UsedBytes(r, a) = UsedBytes(m, a) + size /\ UsedBytes(r, b) = UsedBytes(m, b)
      BY <1>5, <1>8, <1>10, <2>1, <2>4
    <3> QED BY <2>2, <2>3, <3>1
  <2>5. CASE b = s
    <3>1. /\ r.free[b] = m.free[b] - size /\ r.free[a] = m.free[a]
          /\ UsedBytes(r, b) = UsedBytes(m, b) + size /\ UsedBytes(r, a) = UsedBytes(m, a)
      BY <1>5, <1>8, <1>10, <2>1, <2>5
    <3> QED BY <2>2, <2>3, <3>1
  <2>6. CASE a # s /\ b # s
    BY <1>5, <1>10, <2>1, <2>2, <2>6
  <2> QED BY <2>4, <2>5, <2>6
<1>12. MemoryOK(r)
  BY <1>5, <1>6, <1>11 DEF MemoryOK
<1>13. Owners(r) = Owners(m) \cup {owner}
  <2>1. \A n : n \in Owners(m) <=> \E q \in Sections : \E p \in ToSet(m.pieces[q]) : p.owner = n
    BY DEF Owners
  <2>2. \A n : n \in Owners(r) <=> \E q \in Sections : \E p \in ToSet(r.pieces[q]) : p.owner = n
    BY DEF Owners
  <2>3. ToSet(r.pieces[s]) = ToSet(m.pieces[s]) \cup {piece}
    BY <1>3, <1>5
  <2>4. ASSUME NEW n \in Owners(r)
        PROVE  n \in Owners(m) \cup {owner}
    <3>1. PICK q \in Sections : \E p \in ToSet(r.pieces[q]) : p.owner = n
      BY <2>2, <2>4
    <3>2. CASE q = s
      BY <1>4, <2>1, <2>3, <3>1, <3>2
    <3>3. CASE q # s
      BY <1>5, <2>1, <3>1, <3>3
    <3> QED BY <3>2, <3>3
  <2>5. ASSUME NEW n \in Owners(m)
        PROVE  n \in Owners(r)
    <3>1. PICK q \in Sections : \E p \in ToSet(m.pieces[q]) : p.owner = n
      BY <2>1, <2>5
    <3>2. ToSet(m.pieces[q]) \subseteq ToSet(r.pieces[q])
      BY <1>5, <2>3
    <3> QED BY <2>2, <3>1, <3>2
  <2>6. owner \in Owners(r)
    BY <1>4, <2>2, <2>3
  <2> QED BY <2>4, <2>5, <2>6
<1> QED BY <1>5, <1>12, <1>13 DEF r

\* query_memory: a half of the unit with enough bytes and a space that will do.
LEMMA QueryMemory ==
  ASSUME NEW m, NEW t \in TMUs, NEW size, query_memory(m, t, size) # NoMemory
  PROVE  LET s == query_memory(m, t, size)
         IN  s \in Sections /\ s[1] = t /\ size < m.free[s] /\ findMemTmuList(m, s, size) # {}
<1> DEFINE found == {h \in {"A", "B"} : /\ size < m.free[<<t, h>>]
                                       /\ findMemTmuList(m, <<t, h>>, size) # {}}
           h == IF "A" \in found THEN "A" ELSE "B"
<1>1. query_memory(m, t, size) = IF found = {} THEN NoMemory ELSE <<t, h>>
  BY DEF query_memory
<1>2. found # {} /\ query_memory(m, t, size) = <<t, h>>
  BY <1>1
<1>3. h \in found
  BY <1>2
<1> HIDE DEF h
<1>4. /\ h \in {"A", "B"} /\ size < m.free[<<t, h>>]
      /\ findMemTmuList(m, <<t, h>>, size) # {}
  BY <1>3
<1>5. <<t, h>> \in Sections /\ <<t, h>>[1] = t
  BY <1>4 DEF Sections
<1> QED BY <1>2, <1>4, <1>5

\* What a file may say its texture needs.
Kind(kind) ==
  /\ kind.both \in Nat \ {0}
  /\ kind.one_level # TRUE => kind.even \in Nat \ {0} /\ kind.odd \in Nat \ {0}

\* The memory after a texture got its part of it.
Given(r, m, owner) == MemoryOK(r) /\ Owners(r) = Owners(m) \cup {owner}

\* texSingleTmu0, texSingleTmu1.
LEMMA SingleGiven ==
  ASSUME NEW m, MemoryOK(m), NEW t \in TMUs, NEW kind, Kind(kind), NEW owner \in TextureNodes,
         texSingle(m, t, kind, owner) # NoMemory
  PROVE  Given(texSingle(m, t, kind, owner), m, owner)
<1> DEFINE s == query_memory(m, t, kind.both)
<1>1. /\ s # NoMemory
      /\ texSingle(m, t, kind, owner) = get_memory(m, s, kind.both, owner)
  BY DEF texSingle
<1>2. /\ s \in Sections /\ kind.both < m.free[s]
      /\ findMemTmuList(m, s, kind.both) # {}
  BY <1>1, QueryMemory
<1> HIDE DEF s
<1>3. kind.both \in Nat \ {0}
  BY DEF Kind
<1> QED BY <1>1, <1>2, <1>3, GetMemory DEF Given

\* texTrilinearTmu0, texTrilinearTmu1: the odd levels do not disturb the even ones, which
\* are in the other unit.
LEMMA TrilinearGiven ==
  ASSUME NEW m, MemoryOK(m), NEW t \in TMUs, NEW kind, Kind(kind), NEW owner \in TextureNodes,
         texTrilinear(m, t, kind, owner) # NoMemory
  PROVE  Given(texTrilinear(m, t, kind, owner), m, owner)
<1> DEFINE even == query_memory(m, t, kind.even)
           odd == query_memory(m, 1 - t, kind.odd)
           half == get_memory(m, even, kind.even, owner)
           both == get_memory(half, odd, kind.odd, owner)
<1>1. texTrilinear(m, t, kind, owner) =
        IF TMUs = {0} \/ kind.one_level \/ NoMemory \in {even, odd} THEN NoMemory ELSE both
  BY DEF texTrilinear
<1>2. /\ TMUs # {0} /\ kind.one_level # TRUE /\ even # NoMemory /\ odd # NoMemory
      /\ texTrilinear(m, t, kind, owner) = both
  <2> HIDE DEF even, odd, both
  <2> QED BY <1>1
<1>3. 1 - t \in TMUs /\ 1 - t # t
  BY <1>2, TmuAssumption
<1>4. kind.even \in Nat \ {0} /\ kind.odd \in Nat \ {0}
  BY <1>2 DEF Kind
<1>5. /\ even \in Sections /\ even[1] = t /\ kind.even < m.free[even]
      /\ findMemTmuList(m, even, kind.even) # {}
  BY <1>2, QueryMemory
<1>6. /\ odd \in Sections /\ odd[1] = 1 - t /\ kind.odd < m.free[odd]
      /\ findMemTmuList(m, odd, kind.odd) # {}
  BY <1>2, <1>3, QueryMemory
<1> HIDE DEF even, odd
<1>7. /\ MemoryOK(half) /\ Owners(half) = Owners(m) \cup {owner}
      /\ \A q \in Sections : q # even =>
           half.pieces[q] = m.pieces[q] /\ half.free[q] = m.free[q]
  BY <1>4, <1>5, GetMemory
<1> HIDE DEF half
<1>8. half.pieces[odd] = m.pieces[odd] /\ half.free[odd] = m.free[odd]
  BY <1>3, <1>5, <1>6, <1>7
<1>9. findMemTmuList(half, odd, kind.odd) = findMemTmuList(m, odd, kind.odd)
  BY <1>8 DEF findMemTmuList, GapSize, GapStart, GapEnd
<1>10. MemoryOK(both) /\ Owners(both) = Owners(half) \cup {owner}
  BY <1>4, <1>6, <1>7, <1>8, <1>9, GetMemory
<1> HIDE DEF both
<1> QED BY <1>2, <1>7, <1>10 DEF Given

\* texLoadTmuMemory: whichever attempt is the first to find memory, it is only given once.
LEMMA TextureGiven ==
  ASSUME NEW m, MemoryOK(m), NEW kind, Kind(kind), NEW owner \in TextureNodes,
         texLoadTmuMemory(m, kind, owner) # NoMemory
  PROVE  Given(texLoadTmuMemory(m, kind, owner), m, owner)
<1> DEFINE order == IF TMUs = {0} THEN <<0>>
                    ELSE IF getTotalMemTmu(m, 0) >= getTotalMemTmu(m, 1) THEN <<0, 1>>
                    ELSE <<1, 0>>
           single == [k \in DOMAIN order |-> texSingle(m, order[k], kind, owner)]
           split == [k \in DOMAIN order |-> texTrilinear(m, order[k], kind, owner)]
           tries == IF kind.trilinear THEN split \o single ELSE single \o split
           loaded == {k \in DOMAIN tries : tries[k] # NoMemory}
           X == {single[k] : k \in DOMAIN order} \cup {split[k] : k \in DOMAIN order}
<1>1. texLoadTmuMemory(m, kind, owner) =
        IF loaded = {} THEN NoMemory ELSE tries[Min(loaded)]
  BY DEF texLoadTmuMemory
<1>2. order \in Seq(TMUs) /\ Len(order) \in Nat /\ DOMAIN order = 1 .. Len(order)
      /\ \A k \in DOMAIN order : order[k] \in TMUs
  <2>1. CASE TMUs = {0}
    <3>1. order = <<0>> /\ <<0>> \in Seq(TMUs)
      BY <2>1
    <3> HIDE DEF order
    <3> QED BY <3>1, ListIndices
  <2>2. CASE TMUs = {0, 1}
    <3>1. <<0, 1>> \in Seq(TMUs) /\ <<1, 0>> \in Seq(TMUs)
      BY <2>2
    <3>2. TMUs # {0}
      BY <2>2
    <3>3. order \in Seq(TMUs)
      BY <3>1, <3>2
    <3> HIDE DEF order
    <3> QED BY <3>3, ListIndices
  <2> QED BY <2>1, <2>2, TmuAssumption
<1>3. \A r \in X : r # NoMemory => Given(r, m, owner)
  <2>1. ASSUME NEW k \in DOMAIN order, single[k] # NoMemory
        PROVE  Given(single[k], m, owner)
    <3>1. order[k] \in TMUs /\ single[k] = texSingle(m, order[k], kind, owner)
      BY <1>2
    <3> HIDE DEF single, order
    <3> QED BY <2>1, <3>1, SingleGiven
  <2>2. ASSUME NEW k \in DOMAIN order, split[k] # NoMemory
        PROVE  Given(split[k], m, owner)
    <3>1. order[k] \in TMUs /\ split[k] = texTrilinear(m, order[k], kind, owner)
      BY <1>2
    <3> HIDE DEF split, order
    <3> QED BY <2>2, <3>1, TrilinearGiven
  <2> HIDE DEF single, split, order
  <2> QED BY <2>1, <2>2
<1>4. single \in Seq(X) /\ split \in Seq(X)
  <2>1. \A k \in 1 .. Len(order) : single[k] \in X /\ split[k] \in X
    BY <1>2
  <2>2. /\ single = [k \in 1 .. Len(order) |-> single[k]]
        /\ split = [k \in 1 .. Len(order) |-> split[k]]
    BY <1>2
  <2> HIDE DEF single, split, order, X
  <2> QED BY <1>2, <2>1, <2>2, IsASeq
<1> HIDE DEF single, split, order, X
<1>5. tries \in Seq(X)
  BY <1>4, ConcatProperties
<1> HIDE DEF tries
<1>6. \A k \in DOMAIN tries : tries[k] \in X /\ k \in Nat
  BY <1>5, ListIndices
<1>7. loaded # {}
  BY <1>1
<1>8. Min(loaded) \in loaded
  <2>1. loaded \subseteq Nat
    BY <1>6
  <2> HIDE DEF loaded
  <2> QED BY <1>7, <2>1, MinIsIn
<1>9. tries[Min(loaded)] \in X /\ tries[Min(loaded)] # NoMemory
  BY <1>6, <1>8
<1> QED BY <1>1, <1>3, <1>7, <1>9

\* delete_texture_handle: every byte of the pieces goes back to a counter of their unit,
\* if not always to that of the half they are in.
LEMMA HandlesDeleted ==
  ASSUME NEW m, MemoryOK(m), NEW owners
  PROVE  LET r == delete_texture_handle(m, owners)
         IN  MemoryOK(r) /\ Owners(r) = Owners(m) \ owners
<1> DEFINE r == delete_texture_handle(m, owners)
           P(s) == ToSet(m.pieces[s])
           gone(s) == {p \in P(s) : p.owner \in owners}
           back(s) == {p \in gone(<<s[1], "A">>) \cup gone(<<s[1], "B">>) :
                         findTmuSection(p.start, s[1]) = s}
<1>1. /\ r.pieces = [s \in Sections |-> Kept(m.pieces[s], P(s) \ gone(s))]
      /\ r.free = [s \in Sections |-> m.free[s] + Bytes(back(s))]
  BY DEF delete_texture_handle
<1> HIDE DEF r
<1>2. \A s \in Sections :
        /\ Laid(m.pieces[s], s) /\ m.free[s] \in Nat
        /\ IsFiniteSet(P(s)) /\ P(s) \subseteq Piece
        /\ IsFiniteSet(gone(s)) /\ gone(s) \subseteq P(s)
        /\ IsFiniteSet(P(s) \ gone(s))
  <2> SUFFICES ASSUME NEW s \in Sections
               PROVE  /\ Laid(m.pieces[s], s) /\ m.free[s] \in Nat
                      /\ IsFiniteSet(P(s)) /\ P(s) \subseteq Piece
                      /\ IsFiniteSet(gone(s)) /\ gone(s) \subseteq P(s)
                      /\ IsFiniteSet(P(s) \ gone(s))
    OBVIOUS
  <2>1. Laid(m.pieces[s], s) /\ m.free[s] \in Nat
    BY DEF MemoryOK
  <2>2. IsFiniteSet(P(s)) /\ P(s) \subseteq Piece
    BY <2>1, ListFinite DEF Laid
  <2>3. gone(s) \subseteq P(s)
    OBVIOUS
  <2> HIDE DEF P, gone
  <2> QED BY <2>1, <2>2, <2>3, FS_Subset
<1>3. ASSUME NEW s \in Sections
      PROVE  Laid(r.pieces[s], s) /\ ToSet(r.pieces[s]) = P(s) \ gone(s)
  <2> DEFINE L == m.pieces[s]
             K == Kept(L, P(s) \ gone(s))
  <2>1. r.pieces[s] = K
    BY <1>1
  <2>2. NodeList(L, Piece)
    BY <1>2 DEF Laid
  <2>3. /\ NodeList(K, Piece) /\ ToSet(K) = ToSet(L) \cap (P(s) \ gone(s))
        /\ \A p, q : Ahead(K, p, q) => Ahead(L, p, q)
    BY <2>2, KeptFacts
  <2> HIDE DEF K
  <2>4. ToSet(K) = P(s) \ gone(s)
    BY <2>3
  <2>5. Laid(K, s)
    <3>1. Laid(L, s)
      BY <1>2
    <3> HIDE DEF L
    <3> QED BY <2>3, <3>1 DEF Laid
  <2> QED BY <2>1, <2>4, <2>5
<1>4. ASSUME NEW t \in TMUs
      PROVE  LET a == <<t, "A">>
                 b == <<t, "B">>
             IN  /\ P(a) \cap P(b) = {} /\ back(a) \cap back(b) = {}
                 /\ back(a) \cup back(b) = gone(a) \cup gone(b)
                 /\ IsFiniteSet(back(a)) /\ IsFiniteSet(back(b))
                 /\ back(a) \subseteq Piece /\ back(b) \subseteq Piece
  <2> DEFINE a == <<t, "A">>
             b == <<t, "B">>
  <2>1. a \in Sections /\ b \in Sections /\ a # b /\ a[1] = t /\ b[1] = t
    BY SectionsFacts
  <2>2. TmuHalf \in Nat /\ maxAddr(a) = TmuHalf /\ minAddr(b) = TmuHalf
    BY SectionsFacts
  <2>3. \A p \in P(a) : p.start < TmuHalf
    <3> SUFFICES ASSUME NEW p \in P(a)
                 PROVE  p.start < TmuHalf
      OBVIOUS
    <3>1. PieceEnd(p) <= maxAddr(a) /\ p \in Piece
      BY <1>2, <2>1 DEF Laid
    <3>2. p.start \in Nat /\ p.size \in Nat \ {0}
      BY <3>1 DEF Piece
    <3> QED BY <2>2, <3>1, <3>2 DEF PieceEnd
  <2>4. \A p \in P(b) : TmuHalf <= p.start /\ p.start \in Nat
    <3> SUFFICES ASSUME NEW p \in P(b)
                 PROVE  TmuHalf <= p.start /\ p.start \in Nat
      OBVIOUS
    <3>1. minAddr(b) <= p.start /\ p \in Piece
      BY <1>2, <2>1 DEF Laid
    <3> QED BY <2>2, <3>1 DEF Piece
  <2>5. P(a) \cap P(b) = {}
    <3> SUFFICES ASSUME NEW p \in P(a), p \in P(b)
                 PROVE  FALSE
      OBVIOUS
    <3> HIDE DEF P
    <3>1. p.start < TmuHalf /\ TmuHalf <= p.start /\ p.start \in Nat
      BY <2>3, <2>4
    <3> QED BY <2>2, <3>1
  <2>6. \A p : findTmuSection(p.start, t) = IF p.start <= maxAddr(a) THEN a ELSE b
    BY DEF findTmuSection
  <2>7. /\ back(a) = {p \in gone(a) \cup gone(b) : findTmuSection(p.start, t) = a}
        /\ back(b) = {p \in gone(a) \cup gone(b) : findTmuSection(p.start, t) = b}
    BY <2>1
  <2> HIDE DEF gone, back, P, a, b
  <2>8. back(a) \cap back(b) = {} /\ back(a) \cup back(b) = gone(a) \cup gone(b)
    BY <2>1, <2>6, <2>7
  <2>9. IsFiniteSet(gone(a) \cup gone(b)) /\ gone(a) \cup gone(b) \subseteq Piece
    <3>1. IsFiniteSet(gone(a)) /\ IsFiniteSet(gone(b))
      BY <1>2, <2>1
    <3>2. gone(a) \subseteq Piece /\ gone(b) \subseteq Piece
      BY <1>2, <2>1
    <3> QED BY <3>1, <3>2, FS_Union
  <2>10. back(a) \in SUBSET (gone(a) \cup gone(b)) /\ back(b) \in SUBSET (gone(a) \cup gone(b))
    BY <2>8
  <2>11. IsFiniteSet(back(a)) /\ IsFiniteSet(back(b))
    BY <2>9, <2>10, FS_Subset
  <2> QED BY <2>5, <2>8, <2>9, <2>10, <2>11 DEF a, b
<1>5. ASSUME NEW s \in Sections
      PROVE  /\ IsFiniteSet(back(s)) /\ back(s) \subseteq Piece /\ Bytes(back(s)) \in Nat
             /\ r.free[s] = m.free[s] + Bytes(back(s))
  <2>1. s[1] \in TMUs /\ (s = <<s[1], "A">> \/ s = <<s[1], "B">>)
    BY SectionsFacts
  <2>2. r.free[s] = m.free[s] + Bytes(back(s))
    BY <1>1
  <2> HIDE DEF back, gone, P
  <2>3. IsFiniteSet(back(s)) /\ back(s) \subseteq Piece
    BY <1>4, <2>1
  <2> QED BY <2>2, <2>3, BytesFinite
<1>6. r.free \in [Sections -> Nat] /\ DOMAIN r.pieces = Sections
  <2>1. DOMAIN r.pieces = Sections
    BY <1>1
  <2>2. r.free = [s \in Sections |-> r.free[s]]
    BY <1>1
  <2> HIDE DEF back, gone, P
  <2>3. ASSUME NEW s \in Sections
        PROVE  r.free[s] \in Nat
    <3>1. m.free[s] \in Nat
      BY <1>2
    <3>2. Bytes(back(s)) \in Nat /\ r.free[s] = m.free[s] + Bytes(back(s))
      BY <1>5
    <3> QED BY <3>1, <3>2
  <2> QED BY <2>1, <2>2, <2>3
<1> HIDE DEF back, gone, P
<1>7. ASSUME NEW s \in Sections
      PROVE  /\ UsedBytes(r, s) \in Nat /\ Bytes(gone(s)) \in Nat
             /\ UsedBytes(m, s) = UsedBytes(r, s) + Bytes(gone(s))
  <2>1. UsedBytes(r, s) = Bytes(P(s) \ gone(s)) /\ UsedBytes(m, s) = Bytes(P(s))
    BY <1>3 DEF UsedBytes, P
  <2>2. /\ P(s) \ gone(s) \subseteq Piece /\ gone(s) \subseteq Piece
        /\ IsFiniteSet(P(s) \ gone(s)) /\ IsFiniteSet(gone(s))
        /\ (P(s) \ gone(s)) \cap gone(s) = {} /\ (P(s) \ gone(s)) \cup gone(s) = P(s)
    BY <1>2
  <2>3. Bytes((P(s) \ gone(s)) \cup gone(s)) = Bytes(P(s) \ gone(s)) + Bytes(gone(s))
    BY <2>2, BytesAdd
  <2>4. Bytes(P(s) \ gone(s)) \in Nat /\ Bytes(gone(s)) \in Nat
    BY <2>2, BytesFinite
  <2> QED BY <2>1, <2>2, <2>3, <2>4
<1>8. ASSUME NEW t \in TMUs
      PROVE  Total(r, t) = Total(m, t)
  <2> DEFINE a == <<t, "A">>
             b == <<t, "B">>
  <2>1. a \in Sections /\ b \in Sections
    BY SectionsFacts
  <2>2. /\ Total(r, t) = r.free[a] + r.free[b] + UsedBytes(r, a) + UsedBytes(r, b)
        /\ Total(m, t) = m.free[a] + m.free[b] + UsedBytes(m, a) + UsedBytes(m, b)
    BY DEF Total, getTotalMemTmu
  <2>3. /\ P(a) \cap P(b) = {} /\ back(a) \cap back(b) = {}
        /\ back(a) \cup back(b) = gone(a) \cup gone(b)
        /\ IsFiniteSet(back(a)) /\ IsFiniteSet(back(b))
        /\ back(a) \subseteq Piece /\ back(b) \subseteq Piece
    BY <1>4
  <2> HIDE DEF a, b
  <2>4. /\ gone(a) \cap gone(b) = {} /\ gone(a) \subseteq Piece /\ gone(b) \subseteq Piece
        /\ IsFiniteSet(gone(a)) /\ IsFiniteSet(gone(b))
    BY <1>2, <2>1, <2>3
  <2>5. Bytes(back(a) \cup back(b)) = Bytes(back(a)) + Bytes(back(b))
    BY <2>3, BytesAdd
  <2>6. Bytes(gone(a) \cup gone(b)) = Bytes(gone(a)) + Bytes(gone(b))
    BY <2>4, BytesAdd
  <2>7. Bytes(back(a)) + Bytes(back(b)) = Bytes(gone(a)) + Bytes(gone(b))
    BY <2>3, <2>5, <2>6
  <2>8. /\ m.free[a] \in Nat /\ m.free[b] \in Nat
        /\ Bytes(back(a)) \in Nat /\ Bytes(back(b)) \in Nat
        /\ r.free[a] = m.free[a] + Bytes(back(a)) /\ r.free[b] = m.free[b] + Bytes(back(b))
    BY <1>2, <1>5, <2>1
  <2>9. /\ UsedBytes(r, a) \in Nat /\ Bytes(gone(a)) \in Nat
        /\ UsedBytes(m, a) = UsedBytes(r, a) + Bytes(gone(a))
        /\ UsedBytes(r, b) \in Nat /\ Bytes(gone(b)) \in Nat
        /\ UsedBytes(m, b) = UsedBytes(r, b) + Bytes(gone(b))
    BY <1>7, <2>1
  <2>10. r.free[a] + r.free[b] =
           m.free[a] + m.free[b] + (Bytes(gone(a)) + Bytes(gone(b)))
    BY <2>7, <2>8
  <2>11. m.free[a] + m.free[b] \in Nat
    BY <2>8
  <2> QED BY <2>2, <2>9, <2>10, <2>11
<1>9. MemoryOK(r)
  BY <1>3, <1>6, <1>8 DEF MemoryOK
<1>10. Owners(r) = Owners(m) \ owners
  <2>1. \A n : n \in Owners(m) <=> \E s \in Sections : \E p \in P(s) : p.owner = n
    BY DEF Owners, P
  <2>2. \A n : n \in Owners(r) <=> \E s \in Sections : \E p \in ToSet(r.pieces[s]) : p.owner = n
    BY DEF Owners
  <2>3. \A s \in Sections : \A p : p \in ToSet(r.pieces[s]) <=> p \in P(s) /\ p.owner \notin owners
    BY <1>3 DEF gone
  <2>4. \A n : n \in Owners(r) <=> n \in Owners(m) /\ n \notin owners
    BY <2>1, <2>2, <2>3
  <2> QED BY <2>4
<1> QED BY <1>9, <1>10 DEF r

\* resetTextureSystem: all of the memory is free.
LEMMA MemoryReset ==
  MemoryOK(resetTextureSystem) /\ Owners(resetTextureSystem) = {}
<1> DEFINE r == resetTextureSystem
<1>1. /\ DOMAIN r.pieces = Sections /\ \A s \in Sections : r.pieces[s] = <<>>
      /\ r.free \in [Sections -> Nat] /\ \A s \in Sections : r.free[s] = TmuHalf
  BY SectionsFacts DEF resetTextureSystem
<1> HIDE DEF r
<1>2. ASSUME NEW s \in Sections
      PROVE  Laid(r.pieces[s], s) /\ ToSet(r.pieces[s]) = {} /\ UsedBytes(r, s) = 0
  <2>1. /\ NodeList(<<>>, Piece) /\ ToSet(<<>>) = {}
        /\ \A p, q : ~Ahead(<<>>, p, q)
    BY NoNodes
  <2>2. r.pieces[s] = <<>>
    BY <1>1
  <2>3. Laid(r.pieces[s], s) /\ ToSet(r.pieces[s]) = {}
    BY <2>1, <2>2 DEF Laid
  <2> QED BY <2>3, BytesOfNone DEF UsedBytes
<1>3. ASSUME NEW t \in TMUs
      PROVE  Total(r, t) = 2 * TmuHalf
  <2>1. <<t, "A">> \in Sections /\ <<t, "B">> \in Sections /\ TmuHalf \in Nat
    BY SectionsFacts
  <2>2. Total(r, t) = TmuHalf + TmuHalf + 0 + 0
    BY <1>1, <1>2, <2>1 DEF Total, getTotalMemTmu
  <2> QED BY <2>1, <2>2
<1>4. Owners(r) = {}
  BY <1>2 DEF Owners
<1> QED BY <1>1, <1>2, <1>3, <1>4 DEF MemoryOK, r

\* Between two pieces of a half there is never less than nothing.
LEMMA GapsStand ==
  ASSUME NEW m, NEW s \in Sections, Laid(m.pieces[s], s),
         NEW k \in 1 .. Len(m.pieces[s]) + 1
  PROVE  GapSize(m, s, k) >= 0
<1> DEFINE L == m.pieces[s]
           start == GapStart(m, s, k)
           end == GapEnd(m, s, k)
<1>1. /\ L \in Seq(Piece) /\ Len(L) \in Nat /\ DOMAIN L = 1 .. Len(L)
      /\ \A i \in DOMAIN L : L[i] \in Piece
  BY ListIndices DEF Laid, NodeList
<1>2. \A i \in DOMAIN L :
        /\ L[i].start \in Nat /\ PieceEnd(L[i]) \in Nat
        /\ minAddr(s) <= L[i].start /\ PieceEnd(L[i]) <= maxAddr(s)
  <2> SUFFICES ASSUME NEW i \in DOMAIN L
               PROVE  /\ L[i].start \in Nat /\ PieceEnd(L[i]) \in Nat
                      /\ minAddr(s) <= L[i].start /\ PieceEnd(L[i]) <= maxAddr(s)
    OBVIOUS
  <2>1. L[i] \in Piece /\ L[i] \in ToSet(L)
    BY <1>1 DEF ToSet
  <2>2. minAddr(s) <= L[i].start /\ PieceEnd(L[i]) <= maxAddr(s)
    BY <2>1 DEF Laid
  <2> QED BY <2>1, <2>2 DEF Piece, PieceEnd
<1>3. \A i, j \in DOMAIN L : i < j => PieceEnd(L[i]) <= L[j].start
  BY DEF Laid, Ahead
<1>4. start = IF k = 1 THEN minAddr(s) ELSE PieceEnd(L[k - 1])
  BY DEF GapStart
<1>5. end = IF k = Len(L) + 1 THEN maxAddr(s) ELSE L[k].start
  BY DEF GapEnd
<1>6. minAddr(s) \in Nat /\ maxAddr(s) \in Nat /\ minAddr(s) <= maxAddr(s)
  <2>1. TmuHalf \in Nat /\ minAddr(s) \in Nat
    BY SectionsFacts
  <2>2. maxAddr(s) = minAddr(s) + TmuHalf
    BY DEF maxAddr
  <2> QED BY <2>1, <2>2
<1>7. GapSize(m, s, k) = end - start
  BY DEF GapSize
<1> HIDE DEF start, end, L
<1>8. k \in 1 .. Len(L) + 1
  BY DEF L
<1>9. k # 1 => k - 1 \in DOMAIN L /\ k - 1 < k
  BY <1>1, <1>8
<1>10. k # Len(L) + 1 => k \in DOMAIN L
  BY <1>1, <1>8
<1>11. start \in Nat /\ end \in Nat /\ start <= end
  <2>1. CASE k = 1 /\ k = Len(L) + 1
    BY <1>4, <1>5, <1>6, <2>1
  <2>2. CASE k = 1 /\ k # Len(L) + 1
    BY <1>2, <1>4, <1>5, <1>6, <1>10, <2>2
  <2>3. CASE k # 1 /\ k = Len(L) + 1
    BY <1>2, <1>4, <1>5, <1>6, <1>9, <2>3
  <2>4. CASE k # 1 /\ k # Len(L) + 1
    BY <1>2, <1>3, <1>4, <1>5, <1>9, <1>10, <2>4
  <2> QED BY <2>1, <2>2, <2>3, <2>4
<1> QED BY <1>7, <1>11

-----------------------------------------------------------------------------
(***************************************************************************)
(* TextureLists.                                                           *)
(***************************************************************************)

TextureRecord ==
  [name : TextureNames \cup {NoTexture}, id : TextureIds \cup {0},
   locked : BOOLEAN, normal : BOOLEAN, file : BOOLEAN, count : Nat]

TextureFields == [TextureNodes -> TextureRecord]

TextureLoad == [node : TextureNodes, want : Wanted]

NodesApart ==
  /\ NodeList(tlist, TextureNodes) /\ NodeList(tfree, TextureNodes)
  /\ Live \cap ToSet(tfree) = {}
  /\ texture_heap \subseteq TextureNodes
  /\ (Live \cup ToSet(tfree)) \cap texture_heap = {}

TextureTypes ==
  /\ texture \in TextureFields
  /\ texture_calls \in 0 .. MaxTextureCalls
  /\ \A n \in TextureNodes : texture[n].count <= texture_calls
  /\ texture_node_mode \in BOOLEAN /\ texture_load_in_progress \in BOOLEAN
  /\ texture_loads \in [TextureCallers -> TextureLoad \cup {NoTexture}]

\* texture_load_in_progress lets one caller at a time wait for its file.
OneLoad ==
  /\ \A c \in TextureCallers : texture_loads[c] # NoTexture => texture_load_in_progress
  /\ \A c, d \in TextureCallers :
       texture_loads[c] # NoTexture /\ texture_loads[d] # NoTexture => c = d

Is(n, want) == texture[n].name = want.name /\ texture[n].id = want.id

\* The node of the load is free, and nobody has made the texture meanwhile.
LoadStands ==
  \A c \in TextureCallers :
    texture_loads[c] # NoTexture =>
      /\ texture_loads[c].node \in ToSet(tfree)
      /\ texture_loads[c].want.normal => \A n \in Live : ~Is(n, texture_loads[c].want)

NoTwins ==
  \A m, n \in Live :
    (/\ texture[m].normal /\ texture[n].normal
     /\ texture[m].name = texture[n].name /\ texture[m].id = texture[n].id) => m = n

TextureInv == NodesApart /\ TextureTypes /\ OneLoad /\ LoadStands /\ NoTwins

\* The nodes of both lists are texture nodes.
LEMMA TexturesAreNodes ==
  ASSUME NodesApart
  PROVE  Live \subseteq TextureNodes /\ ToSet(tfree) \subseteq TextureNodes
BY ListIndices DEF NodesApart, NodeList, Live

\* add_texture_block: nodes of the heap, and only when the free list is empty.
LEMMA StockedFacts ==
  ASSUME NodesApart, texture_node_mode \in BOOLEAN
  PROVE  /\ NodeList(Stocked.free, TextureNodes)
         /\ Stocked.heap \subseteq texture_heap
         /\ ToSet(Stocked.free) \cap (Live \cup Stocked.heap) = {}
         /\ tfree # <<>> => Stocked.free = tfree
<1> DEFINE size == IF texture_node_mode THEN TEXTURE_BLOCK ELSE 1
           block == SubSeq(SetToSeq(texture_heap), 1, size)
<1>1. size \in Nat
  BY TextureAssumption
<1>2. CASE tfree # <<>> \/ Cardinality(texture_heap) < size
  <2>1. Stocked = [free |-> tfree, heap |-> texture_heap]
    BY <1>2 DEF Stocked
  <2> QED BY <2>1 DEF NodesApart
<1>3. CASE ~(tfree # <<>> \/ Cardinality(texture_heap) < size)
  <2>1. Stocked = [free |-> block, heap |-> texture_heap \ ToSet(block)]
    BY <1>3 DEF Stocked
  <2>2. IsFiniteSet(texture_heap) /\ Cardinality(texture_heap) \in Nat
    BY TextureAssumption, FS_Subset, FS_CardinalityType DEF NodesApart
  <2> HIDE DEF size
  <2>3. NodeList(block, texture_heap)
    BY <1>1, <1>3, <2>2, Allocated
  <2> HIDE DEF block
  <2>4. block \in Seq(TextureNodes) /\ ToSet(block) \subseteq texture_heap
    BY <2>3, SeqMonotonic, ListIndices DEF NodesApart, NodeList
  <2> QED BY <1>3, <2>1, <2>3, <2>4 DEF NodesApart, NodeList
<1> QED BY <1>2, <1>3

\* find_texture finds an active texture with the name and the id, if there is one.
LEMMA FindTexture ==
  ASSUME NodesApart, NEW want
  PROVE  /\ find_texture(want) = NoTexture => \A n \in Live : ~Is(n, want)
         /\ find_texture(want) # NoTexture => find_texture(want) \in Live
<1> DEFINE S == {n \in Live : texture[n].name = want.name /\ texture[n].id = want.id}
           found == Kept(tlist, S)
<1>1. find_texture(want) = IF found = <<>> THEN NoTexture ELSE Head(found)
  BY DEF find_texture
<1>2. NodeList(found, TextureNodes) /\ ToSet(found) = Live \cap S
  BY KeptFacts DEF NodesApart, Live
<1>3. S = {n \in Live : Is(n, want)}
  BY DEF Is
<1> HIDE DEF found, S
<1>4. CASE found = <<>>
  BY <1>1, <1>2, <1>3, <1>4, NoNodes
<1>5. CASE found # <<>>
  <2>1. Head(found) \in Live
    BY <1>2, <1>5, Shortened
  <2> QED BY <1>1, <1>5, <2>1, TexturesAreNodes, TextureAssumption
<1> QED BY <1>4, <1>5

\* A node that was on neither list becomes the first active texture.
LEMMA LinkedIn ==
  ASSUME TextureInv, NEW n \in TextureNodes, n \notin Live,
         NEW want \in Wanted, NEW file \in BOOLEAN, NEW memory,
         Linked(n, want, file, memory),
         want.normal => \A m \in Live : ~Is(m, want),
         NodeList(tfree', TextureNodes), n \notin ToSet(tfree'),
         texture_heap' \subseteq TextureNodes, n \notin texture_heap',
         ToSet(tfree') \cap (Live \cup texture_heap') = {}, Live \cap texture_heap' = {}
  PROVE  /\ NodesApart' /\ NoTwins' /\ texture' \in TextureFields
         /\ \A m \in TextureNodes : texture'[m].count <= texture_calls
<1> DEFINE new == [name |-> want.name, id |-> want.id, locked |-> want.locked,
                   normal |-> want.normal, file |-> file, count |-> 0]
<1>1. tlist' = <<n>> \o tlist /\ texture' = [texture EXCEPT ![n] = new]
  BY DEF Linked
<1>2. NodeList(tlist', TextureNodes) /\ Live' = Live \cup {n}
  <2>1. NodeList(<<n>>, TextureNodes) /\ ToSet(<<n>>) = {n}
    BY OneNode
  <2>2. ToSet(<<n>>) \cap ToSet(tlist) = {}
    BY <2>1 DEF Live
  <2>3. NodeList(tlist, TextureNodes)
    BY DEF TextureInv, NodesApart
  <2>4. NodeList(tlist', TextureNodes) /\ ToSet(tlist') = ToSet(<<n>>) \cup ToSet(tlist)
    BY <1>1, <2>1, <2>2, <2>3, Joined
  <2> QED BY <2>1, <2>4 DEF Live
<1>3. NodesApart'
  BY <1>2 DEF NodesApart
<1>4. /\ new \in TextureRecord
      /\ new.name = want.name /\ new.id = want.id /\ new.normal = want.normal
      /\ new.count = 0
  BY DEF Wanted, TextureRecord
<1> HIDE DEF new
<1>5. texture' \in TextureFields
  BY <1>1, <1>4 DEF TextureInv, TextureTypes, TextureFields
<1>6. texture'[n] = new /\ \A m \in TextureNodes : m # n => texture'[m] = texture[m]
  BY <1>1 DEF TextureInv, TextureTypes, TextureFields
<1>7. NoTwins'
  <2> SUFFICES ASSUME NEW m \in Live', NEW k \in Live', m # k,
                      texture'[m].normal, texture'[k].normal,
                      texture'[m].name = texture'[k].name, texture'[m].id = texture'[k].id
               PROVE  FALSE
    BY DEF NoTwins
  <2>1. Live \subseteq TextureNodes
    BY TexturesAreNodes DEF TextureInv
  <2>2. CASE m # n /\ k # n
    BY <1>2, <1>6, <2>1, <2>2 DEF TextureInv, NoTwins
  <2>3. CASE m = n
    BY <1>2, <1>4, <1>6, <2>1, <2>3 DEF Is
  <2>4. CASE k = n
    BY <1>2, <1>4, <1>6, <2>1, <2>4 DEF Is
  <2> QED BY <2>2, <2>3, <2>4
<1>8. \A m \in TextureNodes : texture'[m].count <= texture_calls
  BY <1>4, <1>6 DEF TextureInv, TextureTypes
<1> QED BY <1>3, <1>5, <1>7, <1>8

\* What a call may do to the textures in the middle of a load.
Undone ==
  /\ NodesApart' /\ Live' \subseteq Live /\ texture' \in TextureFields
  /\ \A n \in TextureNodes :
       /\ texture'[n].count <= texture_calls'
       /\ texture'[n].name = texture[n].name /\ texture'[n].id = texture[n].id
       /\ texture'[n].normal = texture[n].normal
  /\ LoadSuspended => ToSet(tfree) \subseteq ToSet(tfree')

\* Where nothing is added, no two textures become the same.
LEMMA UndoneTwins ==
  ASSUME TextureInv, Undone
  PROVE  /\ NoTwins' /\ Live' \subseteq TextureNodes
         /\ \A want : \A n \in Live' : (Is(n, want))' => n \in Live /\ Is(n, want)
<1>1. Live' \subseteq Live /\ Live \subseteq TextureNodes
  BY TexturesAreNodes DEF TextureInv, Undone
<1>2. NoTwins'
  BY <1>1 DEF TextureInv, Undone, NoTwins
<1>3. ASSUME NEW want, NEW n \in Live', texture'[n].name = want.name, texture'[n].id = want.id
      PROVE  n \in Live /\ Is(n, want)
  BY <1>1, <1>3 DEF Undone, Is
<1> QED BY <1>1, <1>2, <1>3 DEF Is

\* A call that adds no texture and takes no free node during a load keeps the invariant.
LEMMA UndoneKeeps ==
  ASSUME TextureInv, Undone, UNCHANGED <<texture_loading, texture_node_mode>>,
         texture_calls' \in 0 .. MaxTextureCalls
  PROVE  TextureInv'
<1>1. texture_loads' = texture_loads /\ texture_load_in_progress' = texture_load_in_progress
  BY DEF texture_loading
<1>2. NodesApart' /\ TextureTypes' /\ OneLoad'
  BY <1>1 DEF Undone, TextureInv, TextureTypes, OneLoad
<1>3. LoadStands'
  <2> SUFFICES ASSUME NEW c \in TextureCallers, texture_loads[c] # NoTexture
               PROVE  /\ texture_loads[c].node \in ToSet(tfree')
                      /\ texture_loads[c].want.normal =>
                           \A n \in Live' : ~(Is(n, texture_loads[c].want))'
    BY <1>1 DEF LoadStands, Is
  <2>1. LoadSuspended
    BY DEF LoadSuspended
  <2>2. /\ texture_loads[c].node \in ToSet(tfree)
        /\ texture_loads[c].want.normal => \A n \in Live : ~Is(n, texture_loads[c].want)
    BY DEF TextureInv, LoadStands
  <2>3. texture_loads[c].node \in ToSet(tfree')
    BY <2>1, <2>2 DEF Undone
  <2>4. ASSUME texture_loads[c].want.normal, NEW n \in Live',
               texture'[n].name = texture_loads[c].want.name,
               texture'[n].id = texture_loads[c].want.id
        PROVE  FALSE
    <3>1. n \in Live /\ n \in TextureNodes
      BY UndoneTwins DEF Undone
    <3>2. Is(n, texture_loads[c].want)
      BY <2>4, <3>1 DEF Undone, Is
    <3> QED BY <2>2, <2>4, <3>1, <3>2
  <2> QED BY <1>1, <2>3, <2>4 DEF Is
<1> QED BY <1>2, <1>3, UndoneTwins DEF TextureInv

\* The fields of a node whose count or lock changes.
LEMMA Recounted ==
  ASSUME NEW r \in TextureRecord, NEW count \in Nat
  PROVE  /\ [r EXCEPT !.count = count] \in TextureRecord
         /\ [r EXCEPT !.count = count].count = count
         /\ [r EXCEPT !.count = count].name = r.name
         /\ [r EXCEPT !.count = count].id = r.id
         /\ [r EXCEPT !.count = count].normal = r.normal
BY DEF TextureRecord

\* A record whose lock changes keeps its name, id and count.
LEMMA Relocked ==
  ASSUME NEW r \in TextureRecord, NEW lock \in BOOLEAN
  PROVE  /\ [r EXCEPT !.locked = lock] \in TextureRecord
         /\ [r EXCEPT !.locked = lock].count = r.count
         /\ [r EXCEPT !.locked = lock].name = r.name
         /\ [r EXCEPT !.locked = lock].id = r.id
         /\ [r EXCEPT !.locked = lock].normal = r.normal
BY DEF TextureRecord

\* Removed nodes go to the free list or the heap, and the others lose one user or
\* have one left.
LEMMA RemovedUndone ==
  ASSUME TextureInv, NEW gone, NEW less, NEW one, Removed(gone, less, one),
         gone \subseteq Live, less \subseteq Live, texture_calls \in Nat, texture_calls' = texture_calls + 1,
         \A n \in less \ gone : texture[n].count > 1
  PROVE  Undone
<1> DEFINE r == Reverse(Kept(tlist, gone))
<1>1. /\ tlist' = Kept(tlist, Live \ gone)
      /\ tfree' = IF texture_node_mode THEN r \o tfree ELSE tfree
      /\ texture_heap' = IF texture_node_mode THEN texture_heap ELSE texture_heap \cup gone
      /\ texture' = [n \in TextureNodes |->
                       IF n \in less \ gone THEN [texture[n] EXCEPT !.count = @ - 1]
                       ELSE IF n \in one \ gone THEN [texture[n] EXCEPT !.count = 1]
                       ELSE texture[n]]
  BY DEF Removed
<1>2. NodeList(r, TextureNodes) /\ ToSet(r) = gone
  <2>1. /\ NodeList(Kept(tlist, gone), TextureNodes)
        /\ ToSet(Kept(tlist, gone)) = ToSet(tlist) \cap gone
    BY KeptFacts DEF TextureInv, NodesApart
  <2> QED BY <2>1, Reversed DEF Live
<1> HIDE DEF r
<1>3. NodeList(tlist', TextureNodes) /\ Live' = Live \ gone
  <2>1. NodeList(tlist', TextureNodes) /\ ToSet(tlist') = ToSet(tlist) \cap (Live \ gone)
    BY <1>1, KeptFacts DEF TextureInv, NodesApart
  <2> QED BY <2>1 DEF Live
<1>4. /\ NodeList(tfree', TextureNodes)
      /\ ToSet(tfree') = IF texture_node_mode THEN gone \cup ToSet(tfree) ELSE ToSet(tfree)
  <2>1. NodeList(tfree, TextureNodes) /\ ToSet(r) \cap ToSet(tfree) = {}
    BY <1>2 DEF TextureInv, NodesApart
  <2>2. NodeList(r \o tfree, TextureNodes) /\ ToSet(r \o tfree) = gone \cup ToSet(tfree)
    BY <1>2, <2>1, Joined
  <2> QED BY <1>1, <2>1, <2>2
<1>5. Live \subseteq TextureNodes
  BY TexturesAreNodes DEF TextureInv
<1>6. NodesApart'
  BY <1>1, <1>3, <1>4, <1>5 DEF TextureInv, NodesApart
<1>7. \A n \in TextureNodes :
        /\ texture'[n] \in TextureRecord
        /\ texture'[n].count <= texture[n].count \/ texture'[n].count = 1
        /\ texture[n].count \in Nat
        /\ texture'[n].name = texture[n].name /\ texture'[n].id = texture[n].id
        /\ texture'[n].normal = texture[n].normal
  <2> SUFFICES ASSUME NEW n \in TextureNodes
               PROVE  /\ texture'[n] \in TextureRecord
                      /\ texture'[n].count <= texture[n].count \/ texture'[n].count = 1
        /\ texture[n].count \in Nat
                      /\ texture'[n].name = texture[n].name /\ texture'[n].id = texture[n].id
                      /\ texture'[n].normal = texture[n].normal
    OBVIOUS
  <2>1. texture \in TextureFields
    BY DEF TextureInv, TextureTypes
  <2>2. texture[n] \in TextureRecord /\ texture[n].count \in Nat
    BY <2>1 DEF TextureFields, TextureRecord
  <2>3. CASE n \in less \ gone
    <3>1. texture[n].count - 1 \in Nat
      BY <2>2, <2>3
    <3>2. texture'[n] = [texture[n] EXCEPT !.count = texture[n].count - 1]
      BY <1>1, <2>3
    <3>3. /\ texture'[n] \in TextureRecord
          /\ texture'[n].count = texture[n].count - 1
          /\ texture'[n].name = texture[n].name /\ texture'[n].id = texture[n].id
          /\ texture'[n].normal = texture[n].normal
      BY <2>2, <3>1, <3>2, Recounted
    <3> QED BY <2>2, <3>3
  <2>4. CASE n \notin less \ gone /\ n \in one \ gone
    <3>1. texture'[n] = [texture[n] EXCEPT !.count = 1]
      BY <1>1, <2>4
    <3>2. /\ texture'[n] \in TextureRecord
          /\ texture'[n].count = 1
          /\ texture'[n].name = texture[n].name /\ texture'[n].id = texture[n].id
          /\ texture'[n].normal = texture[n].normal
      BY <2>2, <3>1, Recounted
    <3> QED BY <2>2, <3>2
  <2>5. CASE n \notin less \ gone /\ n \notin one \ gone
    <3>1. texture'[n] = texture[n]
      BY <1>1, <2>5
    <3> QED BY <2>2, <3>1
  <2> QED BY <2>3, <2>4, <2>5
<1>8. texture' \in TextureFields
  BY <1>1, <1>7 DEF TextureFields
<1>9. \A n \in TextureNodes : texture'[n].count <= texture_calls'
  <2> SUFFICES ASSUME NEW n \in TextureNodes
               PROVE  texture'[n].count <= texture_calls'
    OBVIOUS
  <2>1. texture[n].count <= texture_calls /\ texture'[n].count \in Nat
    BY <1>7 DEF TextureInv, TextureTypes, TextureRecord
  <2> QED BY <1>7, <2>1
<1> QED BY <1>3, <1>4, <1>6, <1>7, <1>8, <1>9 DEF Undone

\* Locks do not move nodes.
LEMMA LockedUndone ==
  ASSUME TextureInv, NEW nodes, NEW lock \in BOOLEAN, Locked(nodes, lock),
         texture_calls \in Nat, texture_calls' = texture_calls + 1
  PROVE  Undone
<1>1. /\ texture' = [n \in TextureNodes |->
                       IF n \in nodes THEN [texture[n] EXCEPT !.locked = lock]
                       ELSE texture[n]]
      /\ UNCHANGED <<tlist, tfree, texture_heap>> /\ Live' = Live
  BY DEF Locked, Live
<1>2. \A n \in TextureNodes : texture[n] \in TextureRecord /\ texture[n].count \in Nat
  BY DEF TextureInv, TextureTypes, TextureFields, TextureRecord
<1>3. \A n \in TextureNodes :
        /\ texture'[n] \in TextureRecord
        /\ texture'[n].count = texture[n].count
        /\ texture'[n].name = texture[n].name /\ texture'[n].id = texture[n].id
        /\ texture'[n].normal = texture[n].normal
  <2> SUFFICES ASSUME NEW n \in TextureNodes
               PROVE  /\ texture'[n] \in TextureRecord
                      /\ texture'[n].count = texture[n].count
                      /\ texture'[n].name = texture[n].name /\ texture'[n].id = texture[n].id
                      /\ texture'[n].normal = texture[n].normal
    OBVIOUS
  <2>1. CASE n \in nodes
    <3>1. texture'[n] = [texture[n] EXCEPT !.locked = lock]
      BY <1>1, <2>1
    <3> QED BY <1>2, <3>1, Relocked
  <2>2. CASE n \notin nodes
    <3>1. texture'[n] = texture[n]
      BY <1>1, <2>2
    <3> QED BY <1>2, <3>1
  <2> QED BY <2>1, <2>2
<1>4. texture' \in TextureFields
  BY <1>1, <1>3 DEF TextureFields
<1>5. \A n \in TextureNodes : texture'[n].count <= texture_calls'
  BY <1>2, <1>3 DEF TextureInv, TextureTypes
<1>6. NodesApart'
  BY <1>1 DEF TextureInv, NodesApart
<1> QED BY <1>1, <1>3, <1>4, <1>5, <1>6 DEF Undone

\* A call that finds its texture there, after the free list may have been stocked.
LEMMA ReusedUndone ==
  ASSUME TextureInv, NEW n \in Live, Reused(n),
         \/ tfree' = tfree /\ texture_heap' = texture_heap
         \/ tfree' = Stocked.free /\ texture_heap' = Stocked.heap,
         texture_calls \in Nat, texture_calls' = texture_calls + 1
  PROVE  Undone
<1> DEFINE count == IF texture[n].locked THEN texture[n].count ELSE texture[n].count + 1
<1>1. /\ texture' = [texture EXCEPT ![n] = [texture[n] EXCEPT !.count = count]]
      /\ tlist' = tlist /\ Live' = Live
  <2>1. texture' = [texture EXCEPT ![n].count = IF texture[n].locked THEN @ ELSE @ + 1]
        /\ tlist' = tlist
    BY DEF Reused
  <2> QED BY <2>1 DEF Live
<1>2. /\ texture \in TextureFields
      /\ \A m \in TextureNodes : texture[m] \in TextureRecord /\ texture[m].count \in Nat
  BY DEF TextureInv, TextureTypes, TextureFields, TextureRecord
<1>3. n \in TextureNodes
  BY TexturesAreNodes DEF TextureInv
<1>4. count \in Nat /\ count <= texture[n].count + 1
  BY <1>2, <1>3
<1> HIDE DEF count
<1>5. \A m \in TextureNodes :
        /\ texture'[m] \in TextureRecord
        /\ texture'[m].count <= texture[m].count + 1
        /\ texture'[m].name = texture[m].name /\ texture'[m].id = texture[m].id
        /\ texture'[m].normal = texture[m].normal
  <2> SUFFICES ASSUME NEW m \in TextureNodes
               PROVE  /\ texture'[m] \in TextureRecord
                      /\ texture'[m].count <= texture[m].count + 1
                      /\ texture'[m].name = texture[m].name /\ texture'[m].id = texture[m].id
                      /\ texture'[m].normal = texture[m].normal
    OBVIOUS
  <2>1. CASE m = n
    <3>1. texture'[m] = [texture[m] EXCEPT !.count = count]
      BY <1>1, <1>2, <2>1 DEF TextureFields
    <3>2. /\ texture'[m] \in TextureRecord
          /\ texture'[m].count = count
          /\ texture'[m].name = texture[m].name /\ texture'[m].id = texture[m].id
          /\ texture'[m].normal = texture[m].normal
      BY <1>2, <1>4, <3>1, Recounted
    <3> QED BY <1>4, <2>1, <3>2
  <2>2. CASE m # n
    <3>1. texture'[m] = texture[m]
      BY <1>1, <1>2, <2>2 DEF TextureFields
    <3>2. texture[m].count <= texture[m].count + 1
      BY <1>2
    <3> QED BY <1>2, <3>1, <3>2
  <2> QED BY <2>1, <2>2
<1>6. texture' \in TextureFields
  <2>1. DOMAIN texture' = TextureNodes /\ texture' = [m \in TextureNodes |-> texture'[m]]
    BY <1>1, <1>2 DEF TextureFields
  <2> QED BY <1>5, <2>1 DEF TextureFields
<1>7. \A m \in TextureNodes : texture'[m].count <= texture_calls'
  <2> SUFFICES ASSUME NEW m \in TextureNodes
               PROVE  texture'[m].count <= texture_calls'
    OBVIOUS
  <2>1. texture[m].count <= texture_calls /\ texture'[m].count \in Nat
    BY <1>5 DEF TextureInv, TextureTypes, TextureRecord
  <2> QED BY <1>2, <1>5, <2>1
<1>8. /\ NodeList(Stocked.free, TextureNodes) /\ Stocked.heap \subseteq texture_heap
      /\ ToSet(Stocked.free) \cap (Live \cup Stocked.heap) = {}
      /\ tfree # <<>> => Stocked.free = tfree
  BY StockedFacts DEF TextureInv, TextureTypes
<1>9. NodesApart'
  BY <1>1, <1>8 DEF TextureInv, NodesApart
<1>10. ToSet(tfree) \subseteq ToSet(tfree')
  BY <1>8, NoNodes
<1> QED BY <1>1, <1>5, <1>6, <1>7, <1>9, <1>10 DEF Undone

\* The deletions of the active list are removals of unlocked nodes.
LEMMA DeletedUndone ==
  ASSUME TextureInv, NEW nodes, nodes \subseteq Live,
         TexturesDeleted(nodes) \/ ForceDeleted(nodes),
         texture_calls \in Nat, texture_calls' = texture_calls + 1
  PROVE  Undone
<1> DEFINE open == {n \in nodes : ~texture[n].locked}
           last == {n \in open : texture[n].count <= 1}
<1>1. CASE TexturesDeleted(nodes)
  <2>1. Removed(last, open, {})
    BY <1>1 DEF TexturesDeleted
  <2>2. \A n \in open \ last : texture[n].count > 1
    <3> SUFFICES ASSUME NEW n \in open \ last
                 PROVE  texture[n].count > 1
      OBVIOUS
    <3>1. n \in TextureNodes /\ ~(texture[n].count <= 1)
      BY TexturesAreNodes DEF TextureInv
    <3>2. texture[n].count \in Nat
      BY <3>1 DEF TextureInv, TextureTypes, TextureFields, TextureRecord
    <3> QED BY <3>1, <3>2
  <2>3. last \subseteq Live /\ open \subseteq Live
    OBVIOUS
  <2> HIDE DEF open, last
  <2> QED BY <2>1, <2>2, <2>3, RemovedUndone
<1>2. CASE ForceDeleted(nodes)
  <2>1. Removed(open, {}, nodes) /\ open \subseteq Live
    BY <1>2 DEF ForceDeleted
  <2> HIDE DEF open
  <2> QED BY <2>1, RemovedUndone
<1> QED BY <1>1, <1>2

\* clear_all_textures makes every node a free one, outside of loads.
LEMMA ClearAllUndone ==
  ASSUME TextureInv, clear_all_textures,
         texture_calls \in Nat, texture_calls' = texture_calls + 1
  PROVE  Undone
<1>1. /\ ~LoadSuspended /\ tlist' = <<>> /\ tfree' = tlist \o tfree
      /\ texture' = [n \in TextureNodes |->
                       IF n \in Live THEN [texture[n] EXCEPT !.count = 0] ELSE texture[n]]
      /\ texture_heap' = texture_heap
  BY DEF clear_all_textures
<1>2. NodeList(tlist', TextureNodes) /\ Live' = {}
  BY <1>1, NoNodes DEF Live
<1>3. NodeList(tfree', TextureNodes) /\ ToSet(tfree') = Live \cup ToSet(tfree)
  BY <1>1, Joined DEF TextureInv, NodesApart, Live
<1>4. NodesApart'
  BY <1>1, <1>2, <1>3 DEF TextureInv, NodesApart
<1>5. \A n \in TextureNodes :
        /\ texture'[n] \in TextureRecord
        /\ texture'[n].count <= texture_calls'
        /\ texture'[n].name = texture[n].name /\ texture'[n].id = texture[n].id
        /\ texture'[n].normal = texture[n].normal
  <2> SUFFICES ASSUME NEW n \in TextureNodes
               PROVE  /\ texture'[n] \in TextureRecord
                      /\ texture'[n].count <= texture_calls'
                      /\ texture'[n].name = texture[n].name /\ texture'[n].id = texture[n].id
                      /\ texture'[n].normal = texture[n].normal
    OBVIOUS
  <2>1. texture[n] \in TextureRecord /\ texture[n].count <= texture_calls
    BY DEF TextureInv, TextureTypes, TextureFields
  <2>2. texture[n].count \in Nat
    BY <2>1 DEF TextureRecord
  <2>3. CASE n \in Live
    <3>1. texture'[n] = [texture[n] EXCEPT !.count = 0]
      BY <1>1, <2>3
    <3>2. /\ texture'[n] \in TextureRecord
          /\ texture'[n].count = 0
          /\ texture'[n].name = texture[n].name /\ texture'[n].id = texture[n].id
          /\ texture'[n].normal = texture[n].normal
      BY <2>1, <3>1 DEF TextureRecord
    <3> QED BY <3>2
  <2>4. CASE n \notin Live
    <3>1. texture'[n] = texture[n]
      BY <1>1, <2>4
    <3> QED BY <2>1, <2>2, <3>1
  <2> QED BY <2>3, <2>4
<1>6. texture' \in TextureFields
  BY <1>1, <1>5 DEF TextureFields
<1> QED BY <1>1, <1>2, <1>4, <1>5, <1>6 DEF Undone

\* The textures stay what they are, and the lists are still apart.
LEMMA UnchangedUndone ==
  ASSUME TextureInv, UNCHANGED <<tlist, texture>>, NodesApart',
         LoadSuspended => ToSet(tfree) \subseteq ToSet(tfree'),
         texture_calls' \in Nat, texture_calls <= texture_calls'
  PROVE  Undone
<1>1. Live' = Live /\ texture' = texture
  BY DEF Live
<1>2. texture \in TextureFields
  BY DEF TextureInv, TextureTypes
<1>3. \A n \in TextureNodes : texture[n].count <= texture_calls'
  <2> SUFFICES ASSUME NEW n \in TextureNodes
               PROVE  texture[n].count <= texture_calls'
    OBVIOUS
  <2>1. texture[n].count <= texture_calls /\ texture_calls \in Nat
    BY DEF TextureInv, TextureTypes
  <2>2. texture[n].count \in Nat
    BY <1>2 DEF TextureFields, TextureRecord
  <2> QED BY <2>1, <2>2
<1> QED BY <1>1, <1>2, <1>3 DEF Undone

\* clear_free_texture_list gives the free nodes back, outside of loads.
LEMMA ClearFreeUndone ==
  ASSUME TextureInv, clear_free_texture_list,
         texture_calls \in Nat, texture_calls' = texture_calls + 1
  PROVE  Undone
<1>1. /\ ~LoadSuspended /\ tfree' = <<>> /\ texture_heap' = texture_heap \cup ToSet(tfree)
      /\ UNCHANGED <<tlist, texture>> /\ Live' = Live
  BY DEF clear_free_texture_list, Live
<1>2. NodeList(tfree', TextureNodes) /\ ToSet(tfree') = {}
  BY <1>1, NoNodes
<1>3. NodesApart'
  BY <1>1, <1>2, TexturesAreNodes DEF TextureInv, NodesApart
<1> QED BY <1>1, <1>3, UnchangedUndone

\* create_texture_from_memory adds a texture only where find_texture found none.
LEMMA FromMemoryKeeps ==
  ASSUME TextureInv, NEW want \in Wanted, NEW fine \in BOOLEAN,
         create_texture_from_memory(want, fine),
         UNCHANGED <<texture_loading, texture_node_mode>>,
         texture_calls \in Nat, texture_calls' = texture_calls + 1,
         texture_calls' \in 0 .. MaxTextureCalls
  PROVE  TextureInv'
<1> DEFINE found == IF want.normal THEN find_texture(want) ELSE NoTexture
<1>1. /\ NodeList(Stocked.free, TextureNodes) /\ Stocked.heap \subseteq texture_heap
      /\ ToSet(Stocked.free) \cap (Live \cup Stocked.heap) = {}
      /\ tfree # <<>> => Stocked.free = tfree
  BY StockedFacts DEF TextureInv, TextureTypes
<1>2. ~LoadSuspended /\ texture_heap' = Stocked.heap
  BY DEF create_texture_from_memory
<1>3. /\ want.normal /\ found = NoTexture => \A n \in Live : ~Is(n, want)
      /\ found # NoTexture => found \in Live
  BY FindTexture DEF TextureInv
<1>4. CASE Stocked.free # <<>> /\ found = NoTexture /\ fine
  <2> DEFINE n == Head(Stocked.free)
             after == Placed(n, want)
             memory == IF after = NoMemory THEN tmu_memory ELSE after
  <2>1. tfree' = Tail(Stocked.free) /\ Linked(n, want, FALSE, memory)
    BY <1>4 DEF create_texture_from_memory
  <2>2. n \in ToSet(Stocked.free) /\ NodeList(tfree', TextureNodes)
        /\ ToSet(tfree') = ToSet(Stocked.free) \ {n}
    BY <1>1, <1>4, <2>1, Shortened
  <2>3. n \in TextureNodes /\ n \notin Live /\ n \notin texture_heap'
    BY <1>1, <1>2, <2>2, ListIndices DEF NodeList
  <2> HIDE DEF n, memory, found
  <2>4. /\ texture_heap' \subseteq TextureNodes /\ Live \cap texture_heap' = {}
        /\ ToSet(tfree') \cap (Live \cup texture_heap') = {}
        /\ n \notin ToSet(tfree')
    BY <1>1, <1>2, <2>2 DEF TextureInv, NodesApart
  <2>5. /\ NodesApart' /\ NoTwins' /\ texture' \in TextureFields
        /\ \A m \in TextureNodes : texture'[m].count <= texture_calls
    BY <1>3, <1>4, <2>1, <2>2, <2>3, <2>4, LinkedIn
  <2>6. \A m \in TextureNodes : texture'[m].count <= texture_calls'
    <3> SUFFICES ASSUME NEW m \in TextureNodes
                 PROVE  texture'[m].count <= texture_calls'
      OBVIOUS
    <3>1. texture'[m].count \in Nat
      BY <2>5 DEF TextureFields, TextureRecord
    <3> QED BY <2>5, <3>1
  <2>7. TextureTypes' /\ OneLoad'
    BY <2>5, <2>6 DEF texture_loading, TextureInv, TextureTypes, OneLoad
  <2>8. LoadStands'
    BY <1>2 DEF texture_loading, LoadSuspended, LoadStands
  <2> QED BY <2>5, <2>7, <2>8 DEF TextureInv
<1>5. CASE ~(Stocked.free # <<>> /\ found = NoTexture /\ fine)
  <2>1. /\ tfree' = Stocked.free
        /\ IF Stocked.free # <<>> /\ found # NoTexture
           THEN Reused(found) ELSE UNCHANGED <<tlist, texture, tmu_memory>>
    BY <1>5 DEF create_texture_from_memory
  <2> HIDE DEF found
  <2>2. CASE Reused(found) /\ found # NoTexture
    <3>1. found \in Live
      BY <1>3, <2>2
    <3>2. Undone
      BY <1>2, <2>1, <2>2, <3>1, ReusedUndone
    <3> QED BY <3>2, UndoneKeeps
  <2>3. CASE UNCHANGED <<tlist, texture, tmu_memory>>
    <3>1. NodesApart'
      BY <1>1, <1>2, <2>1, <2>3 DEF TextureInv, NodesApart, Live
    <3>2. texture_calls' \in Nat /\ texture_calls <= texture_calls'
      OBVIOUS
    <3>3. Undone
      BY <1>2, <2>3, <3>1, <3>2, UnchangedUndone
    <3> QED BY <3>3, UndoneKeeps
  <2> QED BY <2>1, <2>2, <2>3
<1> QED BY <1>4, <1>5

\* create_texture reuses a texture, begins the one load, or does nothing.
LEMMA CreateKeeps ==
  ASSUME TextureInv, NEW c \in TextureCallers, NEW want \in Wanted,
         create_texture(c, want), UNCHANGED texture_node_mode,
         texture_calls \in Nat, texture_calls' = texture_calls + 1,
         texture_calls' \in 0 .. MaxTextureCalls
  PROVE  TextureInv'
<1> DEFINE found == IF want.normal THEN find_texture(want) ELSE NoTexture
           search_first == ~texture_node_mode /\ found # NoTexture
           stock == IF search_first THEN [free |-> tfree, heap |-> texture_heap]
                    ELSE Stocked
           load == [node |-> Head(stock.free), want |-> want]
<1>1. /\ NodeList(Stocked.free, TextureNodes) /\ Stocked.heap \subseteq texture_heap
      /\ ToSet(Stocked.free) \cap (Live \cup Stocked.heap) = {}
      /\ tfree # <<>> => Stocked.free = tfree
  BY StockedFacts DEF TextureInv, TextureTypes
<1>2. /\ want.normal /\ found = NoTexture => \A n \in Live : ~Is(n, want)
      /\ found # NoTexture => found \in Live
  BY FindTexture DEF TextureInv
<1> HIDE DEF found
<1>3. texture_loads[c] = NoTexture /\ tfree' = stock.free /\ texture_heap' = stock.heap
  BY DEF create_texture, Stock, found
<1>4. \/ tfree' = tfree /\ texture_heap' = texture_heap
      \/ tfree' = Stocked.free /\ texture_heap' = Stocked.heap
  BY <1>3
<1>5. /\ NodeList(tfree', TextureNodes) /\ texture_heap' \subseteq texture_heap
      /\ ToSet(tfree') \cap (Live \cup texture_heap') = {}
      /\ ToSet(tfree) \subseteq ToSet(tfree')
  BY <1>1, <1>4, NoNodes DEF TextureInv, NodesApart
<1>6. \/ /\ found # NoTexture /\ Reused(found) /\ UNCHANGED texture_loading
      \/ UNCHANGED <<tlist, texture, tmu_memory, texture_loading>>
      \/ /\ stock.free # <<>> /\ found = NoTexture /\ ~texture_load_in_progress
         /\ texture_load_in_progress' = TRUE
         /\ texture_loads' = [texture_loads EXCEPT ![c] = load]
         /\ UNCHANGED <<tlist, texture, tmu_memory>>
  BY DEF create_texture, found
<1> HIDE DEF search_first, stock
<1>7. CASE found # NoTexture /\ Reused(found) /\ UNCHANGED texture_loading
  <2>1. found \in Live
    BY <1>2, <1>7
  <2>2. Undone
    BY <1>4, <1>7, <2>1, ReusedUndone
  <2> QED BY <1>7, <2>2, UndoneKeeps
<1>8. ASSUME UNCHANGED <<tlist, texture>>
      PROVE  Undone
  <2>1. NodesApart'
    BY <1>5, <1>8 DEF TextureInv, NodesApart, Live
  <2> QED BY <1>5, <1>8, <2>1, UnchangedUndone
<1>9. CASE UNCHANGED <<tlist, texture, tmu_memory, texture_loading>>
  BY <1>8, <1>9, UndoneKeeps
<1>10. CASE /\ stock.free # <<>> /\ found = NoTexture /\ ~texture_load_in_progress
            /\ texture_load_in_progress' = TRUE
            /\ texture_loads' = [texture_loads EXCEPT ![c] = load]
            /\ UNCHANGED <<tlist, texture, tmu_memory>>
  <2>1. Undone /\ Live' = Live
    BY <1>8, <1>10 DEF Live
  <2>2. Head(stock.free) \in ToSet(tfree') /\ Head(stock.free) \in TextureNodes
    <3>1. Head(tfree') \in ToSet(tfree')
      BY <1>3, <1>5, <1>10, Shortened
    <3> QED BY <1>3, <1>5, <3>1, ListIndices DEF NodeList
  <2>3. load \in TextureLoad /\ load.node = Head(stock.free) /\ load.want = want
    BY <2>2 DEF TextureLoad
  <2> HIDE DEF load
  <2>4. /\ \A d \in TextureCallers : d # c => texture_loads'[d] = NoTexture
        /\ texture_loads'[c] = load
        /\ texture_loads' \in [TextureCallers -> TextureLoad \cup {NoTexture}]
    BY <1>10, <2>3 DEF TextureInv, TextureTypes, OneLoad
  <2>5. TextureTypes' /\ OneLoad'
    BY <1>10, <2>1, <2>4 DEF Undone, TextureInv, TextureTypes, OneLoad
  <2>6. LoadStands'
    <3>1. want.normal =>
            \A n \in Live' : ~(texture'[n].name = want.name /\ texture'[n].id = want.id)
      BY <1>2, <1>10, <2>1 DEF Is
    <3> QED BY <2>2, <2>3, <2>4, <3>1 DEF LoadStands, Is
  <2> QED BY <2>1, <2>5, <2>6, UndoneTwins DEF Undone, TextureInv
<1> QED BY <1>6, <1>7, <1>9, <1>10

\* The texture of the load is linked in as the only one of its name and id.
LEMMA LoadEndsKeeps ==
  ASSUME TextureInv, LoadEnds
  PROVE  TextureInv'
<1>1. PICK c \in TextureCallers, fine \in BOOLEAN : TextureLoaded(c, fine)
  BY DEF LoadEnds
<1> DEFINE load == texture_loads[c]
           n == load.node
           after == Placed(n, load.want)
<1>2. /\ load # NoTexture /\ texture_load_in_progress' = FALSE
      /\ texture_loads' = [texture_loads EXCEPT ![c] = NoTexture]
      /\ texture_heap' = texture_heap
      /\ UNCHANGED <<texture_node_mode, texture_calls>>
  BY <1>1 DEF TextureLoaded, LoadEnds
<1>3. /\ \A d \in TextureCallers : texture_loads'[d] = NoTexture
      /\ texture_loads' \in [TextureCallers -> TextureLoad \cup {NoTexture}]
  BY <1>2 DEF TextureInv, TextureTypes, OneLoad
<1>4. /\ n \in ToSet(tfree) /\ n \in TextureNodes /\ n \notin Live
      /\ load \in TextureLoad /\ load.want \in Wanted
      /\ load.want.normal => \A m \in Live : ~Is(m, load.want)
  BY <1>2, TexturesAreNodes
    DEF TextureInv, TextureTypes, LoadStands, NodesApart, TextureLoad
<1>5. OneLoad' /\ LoadStands'
  BY <1>2, <1>3 DEF OneLoad, LoadStands
<1>6. CASE fine /\ after # NoMemory
  <2> DEFINE at == CHOOSE k \in DOMAIN tfree : tfree[k] = n
  <2>1. tfree' = NextOnwards(n) /\ Linked(n, load.want, TRUE, after)
    BY <1>1, <1>6 DEF TextureLoaded
  <2>2. tfree' = SubSeq(tfree, at + 1, Len(tfree))
    BY <1>4, <2>1 DEF NextOnwards
  <2>3. /\ at \in DOMAIN tfree /\ tfree[at] = n
        /\ DOMAIN tfree = 1 .. Len(tfree) /\ Len(tfree) \in Nat
        /\ NodeList(tfree, TextureNodes)
    <3>1. \E k \in DOMAIN tfree : tfree[k] = n
      BY <1>4 DEF ToSet
    <3> QED BY <3>1, ListIndices DEF TextureInv, NodesApart, NodeList
  <2> HIDE DEF at
  <2>4. at + 1 \in 1 .. Len(tfree) + 1
    BY <2>3
  <2>5. /\ NodeList(tfree', TextureNodes)
        /\ ToSet(tfree') = {tfree[i] : i \in at + 1 .. Len(tfree)}
    BY <2>2, <2>3, <2>4, Onwards
  <2>6. ToSet(tfree') \subseteq ToSet(tfree) /\ n \notin ToSet(tfree')
    <3>1. \A i \in at + 1 .. Len(tfree) : i \in DOMAIN tfree /\ i # at
      BY <2>3
    <3>2. \A i \in at + 1 .. Len(tfree) : tfree[i] \in ToSet(tfree) /\ tfree[i] # n
      BY <2>3, <3>1 DEF ToSet, NodeList, IsInjective
    <3> QED BY <2>5, <3>2
  <2>7. /\ texture_heap' \subseteq TextureNodes /\ n \notin texture_heap'
        /\ ToSet(tfree') \cap (Live \cup texture_heap') = {} /\ Live \cap texture_heap' = {}
    BY <1>2, <1>4, <2>6 DEF TextureInv, NodesApart
  <2> HIDE DEF n, after
  <2>8. /\ NodesApart' /\ NoTwins' /\ texture' \in TextureFields
        /\ \A m \in TextureNodes : texture'[m].count <= texture_calls
    <3> HIDE DEF load
    <3> QED BY <1>4, <2>1, <2>5, <2>6, <2>7, LinkedIn
  <2> QED BY <1>2, <1>3, <1>5, <2>8 DEF TextureInv, TextureTypes
<1>7. CASE ~(fine /\ after # NoMemory)
  <2>1. UNCHANGED <<tlist, tfree, texture, tmu_memory>>
    BY <1>1, <1>7 DEF TextureLoaded
  <2>2. NodesApart' /\ NoTwins'
    BY <1>2, <2>1 DEF TextureInv, NodesApart, NoTwins, Live
  <2> QED BY <1>2, <1>3, <1>5, <2>1, <2>2 DEF TextureInv, TextureTypes
<1> QED BY <1>6, <1>7

\* Every call that does not suspend keeps the invariant.
LEMMA ListCallKeeps ==
  ASSUME TextureInv, ListCall, UNCHANGED texture_node_mode,
         texture_calls \in Nat, texture_calls' = texture_calls + 1,
         texture_calls' \in 0 .. MaxTextureCalls
  PROVE  TextureInv'
<1>1. UNCHANGED texture_loading
  BY DEF ListCall
<1>2. \A ids : WithIds(ids) \subseteq Live
  BY DEF WithIds
<1>3. CASE \E want \in Wanted, fine \in BOOLEAN : create_texture_from_memory(want, fine)
  BY <1>1, <1>3, FromMemoryKeeps
<1>4. CASE \E n \in Live : TexturesDeleted({n})
  BY <1>1, <1>4, DeletedUndone, UndoneKeeps
<1>5. CASE \E id \in TextureIds : delete_texture_id(id)
  <2>1. PICK id \in TextureIds : delete_texture_id(id)
    BY <1>5
  <2> DEFINE found == Kept(tlist, WithIds({id}))
  <2>2. WithIds({id}) # {} /\ TexturesDeleted({Head(found)})
    BY <2>1 DEF delete_texture_id
  <2>3. NodeList(found, TextureNodes) /\ ToSet(found) = WithIds({id})
    <3>1. NodeList(found, TextureNodes) /\ ToSet(found) = ToSet(tlist) \cap WithIds({id})
      BY KeptFacts DEF TextureInv, NodesApart
    <3> QED BY <1>2, <3>1 DEF Live
  <2> HIDE DEF found
  <2>4. Head(found) \in Live
    BY <1>2, <2>2, <2>3, NoNodes, Shortened
  <2>5. Undone
    BY <2>2, <2>4, DeletedUndone
  <2> QED BY <1>1, <2>5, UndoneKeeps
<1>6. CASE \E ids \in SUBSET TextureIds :
             TexturesDeleted(WithIds(ids)) \/ ForceDeleted(WithIds(ids))
  BY <1>1, <1>2, <1>6, DeletedUndone, UndoneKeeps
<1>7. CASE clear_all_textures
  BY <1>1, <1>7, ClearAllUndone, UndoneKeeps
<1>8. CASE clear_unlocked_textures
  <2> DEFINE gone == {n \in Live : ~texture[n].locked}
  <2>1. Removed(gone, {}, {}) /\ gone \subseteq Live
    BY <1>8 DEF clear_unlocked_textures
  <2> HIDE DEF gone
  <2>2. Undone
    BY <2>1, RemovedUndone
  <2> QED BY <1>1, <2>2, UndoneKeeps
<1>9. CASE clear_locked_textures
  <2> DEFINE gone == {n \in Live : texture[n].locked}
  <2>1. Removed(gone, {}, {}) /\ gone \subseteq Live
    BY <1>9 DEF clear_locked_textures
  <2> HIDE DEF gone
  <2>2. Undone
    BY <2>1, RemovedUndone
  <2> QED BY <1>1, <2>2, UndoneKeeps
<1>10. CASE clear_free_texture_list
  BY <1>1, <1>10, ClearFreeUndone, UndoneKeeps
<1>11. CASE \/ \E n \in Live, lock \in BOOLEAN : Locked({n}, lock)
            \/ \E ids \in SUBSET TextureIds, lock \in BOOLEAN : Locked(WithIds(ids), lock)
  BY <1>1, <1>11, LockedUndone, UndoneKeeps
<1> QED BY <1>3, <1>4, <1>5, <1>6, <1>7, <1>8, <1>9, <1>10, <1>11 DEF ListCall

\* The empty lists and no load.
LEMMA TextureInitHolds ==
  ASSUME TextureInit
  PROVE  TextureInv
<1> USE DEF TextureInit
<1>1. Live = {} /\ ToSet(tfree) = {} /\ NodesApart
  BY NoNodes DEF Live, NodesApart
<1>2. texture \in TextureFields /\ \A n \in TextureNodes : texture[n].count = 0
  BY DEF TextureFields, TextureRecord
<1>3. TextureTypes
  <2>1. texture_calls \in 0 .. MaxTextureCalls
    BY TextureAssumption
  <2>2. texture_loads \in [TextureCallers -> TextureLoad \cup {NoTexture}]
    OBVIOUS
  <2>3. \A n \in TextureNodes : texture[n].count <= texture_calls
    BY <1>2
  <2>4. texture_node_mode \in BOOLEAN /\ texture_load_in_progress \in BOOLEAN
    OBVIOUS
  <2> QED BY <1>2, <2>1, <2>2, <2>3, <2>4 DEF TextureTypes
<1>4. OneLoad /\ LoadStands
  BY DEF OneLoad, LoadStands
<1> QED BY <1>1, <1>3, <1>4 DEF TextureInv, NoTwins

\* What the lists, the one load and its node are in every state.
THEOREM TextureInvariant == TextureSpec => []TextureInv
<1>1. TextureInit => TextureInv
  BY TextureInitHolds
<1>2. TextureInv /\ [TextureNext]_texture_vars => TextureInv'
  <2> SUFFICES ASSUME TextureInv, [TextureNext]_texture_vars
               PROVE  TextureInv'
    OBVIOUS
  <2>1. CASE TextureCall
    <3>1. /\ texture_calls \in Nat /\ texture_calls' = texture_calls + 1
          /\ texture_calls' \in 0 .. MaxTextureCalls /\ UNCHANGED texture_node_mode
      BY <2>1, TextureAssumption DEF TextureCall, TextureInv, TextureTypes
    <3>2. CASE \E c \in TextureCallers, want \in Wanted : create_texture(c, want)
      BY <3>1, <3>2, CreateKeeps
    <3>3. CASE ListCall
      BY <3>1, <3>3, ListCallKeeps
    <3> QED BY <2>1, <3>2, <3>3 DEF TextureCall
  <2>2. CASE LoadEnds
    BY <2>2, LoadEndsKeeps
  <2>3. CASE UNCHANGED texture_vars
    BY <2>3 DEF texture_vars, texture_lists, texture_loading, TextureInv, NodesApart,
                TextureTypes, OneLoad, LoadStands, NoTwins, Live, Is
  <2> QED BY <2>1, <2>2, <2>3 DEF TextureNext
<1> QED BY <1>1, <1>2, PTL DEF TextureSpec

\* Every variable of texture.c keeps to its type; no count exceeds the calls made.
THEOREM TextureTypesHold == TextureSpec => []TextureTypeOK
<1>1. TextureInv => TextureTypeOK
  <2> SUFFICES ASSUME TextureInv
               PROVE  TextureTypeOK
    OBVIOUS
  <2>1. \A n \in TextureNodes : texture[n].count \in 0 .. MaxTextureCalls
    <3> SUFFICES ASSUME NEW n \in TextureNodes
                 PROVE  texture[n].count \in 0 .. MaxTextureCalls
      OBVIOUS
    <3>1. texture[n].count \in Nat
      BY DEF TextureInv, TextureTypes, TextureFields, TextureRecord
    <3> QED BY <3>1, TextureAssumption DEF TextureInv, TextureTypes
  <2> QED BY <2>1, TexturesAreNodes DEF TextureInv, TextureTypes, NodesApart, TextureTypeOK
<1> QED BY <1>1, TextureInvariant, PTL

\* While a texture is loaded, other processes call what they like: no node is on two
\* lists, the node of the load stays free, and nobody gets a second texture of one name
\* and id (texture.c:250-290).
THEOREM TexturesStayExact == TextureSpec => []TexturesExact
<1>1. TextureInv => TexturesExact
  <2> SUFFICES ASSUME TextureInv
               PROVE  TexturesExact
    OBVIOUS
  <2>1. IsInjective(tlist \o tfree)
    BY Joined DEF TextureInv, NodesApart, Live, NodeList
  <2> QED BY <2>1 DEF TextureInv, NodesApart, LoadStands, NoTwins, TexturesExact
<1> QED BY <1>1, TextureInvariant, PTL

\* Every owner of texture memory is an active texture, and every texture that came from a
\* file is an owner.
MemoryInv ==
  /\ MemoryOK(tmu_memory)
  /\ Owners(tmu_memory) \subseteq Live
  /\ \A n \in Live : texture[n].file => n \in Owners(tmu_memory)

\* The memory a texture got is that of a node that had none.
LEMMA PlacedGiven ==
  ASSUME MemoryInv, NEW n \in TextureNodes, NEW want \in Wanted,
         Placed(n, want) # NoMemory
  PROVE  Given(Placed(n, want), tmu_memory, n)
<1> DEFINE kind == TextureKinds[want.name]
<1>1. want.name \in TextureNames
  BY DEF Wanted
<1>2. /\ kind.one_level \in BOOLEAN /\ kind.both \in Nat \ {0}
      /\ ~kind.one_level => kind.even \in Nat \ {0} /\ kind.odd \in Nat \ {0}
  BY <1>1, TextureAssumption
<1> HIDE DEF kind
<1>3. Kind(kind)
  BY <1>2 DEF Kind
<1>4. Placed(n, want) = texLoadTmuMemory(tmu_memory, kind, n)
  BY DEF Placed, kind
<1> QED BY <1>3, <1>4, TextureGiven DEF MemoryInv

\* A call that moves no texture, and does not touch the memory.
LEMMA UnmovedMemory ==
  ASSUME MemoryInv, UNCHANGED <<tlist, tmu_memory>>,
         \A n \in Live : texture'[n].file = texture[n].file
  PROVE  MemoryInv'
<1>1. Live' = Live /\ tmu_memory' = tmu_memory
  BY DEF Live
<1> QED BY <1>1 DEF MemoryInv

\* A texture is linked in with the memory it got, or, made from memory, without any.
LEMMA LinkedMemory ==
  ASSUME TextureInv, MemoryInv, NEW n \in TextureNodes, n \notin Live,
         NEW want, NEW file \in BOOLEAN, NEW memory, Linked(n, want, file, memory),
         \/ Given(memory, tmu_memory, n)
         \/ memory = tmu_memory /\ file = FALSE
  PROVE  MemoryInv'
<1> DEFINE new == [name |-> want.name, id |-> want.id, locked |-> want.locked,
                   normal |-> want.normal, file |-> file, count |-> 0]
<1>1. tlist' = <<n>> \o tlist /\ texture' = [texture EXCEPT ![n] = new] /\ tmu_memory' = memory
  BY DEF Linked
<1>2. Live' = Live \cup {n}
  <2>1. NodeList(<<n>>, TextureNodes) /\ ToSet(<<n>>) = {n}
    BY OneNode
  <2>2. ToSet(<<n>>) \cap ToSet(tlist) = {}
    BY <2>1 DEF Live
  <2>3. NodeList(tlist, TextureNodes)
    BY DEF TextureInv, NodesApart
  <2>4. ToSet(tlist') = ToSet(<<n>>) \cup ToSet(tlist)
    BY <1>1, <2>1, <2>2, <2>3, Joined
  <2> QED BY <2>1, <2>4 DEF Live
<1>3. new.file = file
  OBVIOUS
<1> HIDE DEF new
<1>4. texture'[n].file = file /\ \A k \in Live : texture'[k] = texture[k]
  <2>1. Live \subseteq TextureNodes
    BY TexturesAreNodes DEF TextureInv
  <2> QED BY <1>1, <1>3, <2>1 DEF TextureInv, TextureTypes, TextureFields
<1>5. CASE Given(memory, tmu_memory, n)
  BY <1>1, <1>2, <1>4, <1>5 DEF Given, MemoryInv
<1>6. CASE memory = tmu_memory /\ file = FALSE
  BY <1>1, <1>2, <1>4, <1>6 DEF MemoryInv
<1> QED BY <1>5, <1>6

\* The textures that are removed give their memory back, and only theirs.
LEMMA RemovedMemory ==
  ASSUME TextureInv, MemoryInv, NEW gone, NEW less, NEW one, Removed(gone, less, one)
  PROVE  MemoryInv'
<1>1. /\ tlist' = Kept(tlist, Live \ gone)
      /\ tmu_memory' = delete_texture_handle(tmu_memory, gone)
      /\ texture' = [n \in TextureNodes |->
                       IF n \in less \ gone THEN [texture[n] EXCEPT !.count = @ - 1]
                       ELSE IF n \in one \ gone THEN [texture[n] EXCEPT !.count = 1]
                       ELSE texture[n]]
  BY DEF Removed
<1>2. Live' = Live \ gone
  <2>1. ToSet(tlist') = ToSet(tlist) \cap (Live \ gone)
    BY <1>1, KeptFacts DEF TextureInv, NodesApart
  <2> QED BY <2>1 DEF Live
<1>3. MemoryOK(tmu_memory') /\ Owners(tmu_memory') = Owners(tmu_memory) \ gone
  BY <1>1, HandlesDeleted DEF MemoryInv
<1>4. ASSUME NEW n \in Live
      PROVE  texture'[n].file = texture[n].file
  <2>1. n \in TextureNodes
    BY TexturesAreNodes DEF TextureInv
  <2>2. texture[n] \in TextureRecord
    BY <2>1 DEF TextureInv, TextureTypes, TextureFields
  <2>3. /\ [texture[n] EXCEPT !.count = texture[n].count - 1].file = texture[n].file
        /\ [texture[n] EXCEPT !.count = 1].file = texture[n].file
    BY <2>2 DEF TextureRecord
  <2> QED BY <1>1, <2>1, <2>3
<1> QED BY <1>2, <1>3, <1>4 DEF MemoryInv

\* A texture that is asked for again, or locked, stays in its place.
LEMMA CountedMemory ==
  ASSUME TextureInv, MemoryInv,
         \/ \E n \in Live : Reused(n)
         \/ \E nodes, lock : Locked(nodes, lock)
  PROVE  MemoryInv'
<1>0. \A n \in Live : n \in TextureNodes /\ texture[n] \in TextureRecord
  BY TexturesAreNodes DEF TextureInv, TextureTypes, TextureFields
<1>1. CASE \E n \in Live : Reused(n)
  <2>1. PICK n \in Live : Reused(n)
    BY <1>1
  <2> DEFINE count == IF texture[n].locked THEN texture[n].count ELSE texture[n].count + 1
  <2>2. /\ texture' = [texture EXCEPT ![n] = [texture[n] EXCEPT !.count = count]]
        /\ UNCHANGED <<tlist, tmu_memory>>
    BY <2>1 DEF Reused
  <2> HIDE DEF count
  <2>3. [texture[n] EXCEPT !.count = count].file = texture[n].file
    BY <1>0 DEF TextureRecord
  <2>4. \A k \in Live : texture'[k].file = texture[k].file
    <3> SUFFICES ASSUME NEW k \in Live
                 PROVE  texture'[k].file = texture[k].file
      OBVIOUS
    <3>1. k = n => texture'[k] = [texture[n] EXCEPT !.count = count]
      BY <1>0, <2>2 DEF TextureInv, TextureTypes, TextureFields
    <3>2. k # n => texture'[k] = texture[k]
      BY <1>0, <2>2 DEF TextureInv, TextureTypes, TextureFields
    <3> QED BY <2>3, <3>1, <3>2
  <2> QED BY <2>2, <2>4, UnmovedMemory
<1>2. CASE \E nodes, lock : Locked(nodes, lock)
  <2>1. PICK nodes, lock : Locked(nodes, lock)
    BY <1>2
  <2>2. /\ texture' = [n \in TextureNodes |->
                         IF n \in nodes THEN [texture[n] EXCEPT !.locked = lock]
                         ELSE texture[n]]
        /\ UNCHANGED <<tlist, tmu_memory>>
    BY <2>1 DEF Locked
  <2>3. \A k \in Live : [texture[k] EXCEPT !.locked = lock].file = texture[k].file
    BY <1>0 DEF TextureRecord
  <2>4. \A k \in Live : texture'[k].file = texture[k].file
    BY <1>0, <2>2, <2>3
  <2> QED BY <2>2, <2>4, UnmovedMemory
<1> QED BY <1>1, <1>2

\* create_texture_from_memory gives memory to a new texture at most.
LEMMA FromMemoryMemory ==
  ASSUME TextureInv, MemoryInv, NEW want \in Wanted, NEW fine \in BOOLEAN,
         create_texture_from_memory(want, fine)
  PROVE  MemoryInv'
<1> DEFINE found == IF want.normal THEN find_texture(want) ELSE NoTexture
<1>1. /\ NodeList(Stocked.free, TextureNodes)
      /\ ToSet(Stocked.free) \cap (Live \cup Stocked.heap) = {}
  BY StockedFacts DEF TextureInv, TextureTypes
<1>2. found # NoTexture => found \in Live
  BY FindTexture DEF TextureInv
<1>3. CASE Stocked.free # <<>> /\ found = NoTexture /\ fine
  <2> DEFINE n == Head(Stocked.free)
             after == Placed(n, want)
             memory == IF after = NoMemory THEN tmu_memory ELSE after
  <2>1. Linked(n, want, FALSE, memory)
    BY <1>3 DEF create_texture_from_memory
  <2>2. n \in ToSet(Stocked.free)
    BY <1>1, <1>3, Shortened
  <2>3. n \in TextureNodes /\ n \notin Live
    BY <1>1, <2>2, ListIndices DEF NodeList
  <2> HIDE DEF n
  <2>4. memory = tmu_memory \/ Given(memory, tmu_memory, n)
    BY <2>3, PlacedGiven
  <2> HIDE DEF memory
  <2> QED BY <2>1, <2>3, <2>4, LinkedMemory
<1>4. CASE ~(Stocked.free # <<>> /\ found = NoTexture /\ fine)
  <2>1. IF Stocked.free # <<>> /\ found # NoTexture
        THEN Reused(found) ELSE UNCHANGED <<tlist, texture, tmu_memory>>
    BY <1>4 DEF create_texture_from_memory
  <2> HIDE DEF found
  <2>2. CASE Reused(found) /\ found # NoTexture
    BY <1>2, <2>2, CountedMemory
  <2>3. CASE UNCHANGED <<tlist, texture, tmu_memory>>
    BY <2>3, UnmovedMemory
  <2> QED BY <2>1, <2>2, <2>3
<1> QED BY <1>3, <1>4

\* A texture whose file is read is linked in with its memory, or nothing is.
LEMMA LoadEndsMemory ==
  ASSUME TextureInv, MemoryInv, LoadEnds
  PROVE  MemoryInv'
<1>1. PICK c \in TextureCallers, fine \in BOOLEAN : TextureLoaded(c, fine)
  BY DEF LoadEnds
<1> DEFINE load == texture_loads[c]
           n == load.node
           after == Placed(n, load.want)
<1>2. /\ load # NoTexture
      /\ IF fine /\ after # NoMemory
         THEN Linked(n, load.want, TRUE, after)
         ELSE UNCHANGED <<tlist, texture, tmu_memory>>
  BY <1>1 DEF TextureLoaded
<1>3. /\ n \in TextureNodes /\ n \notin Live /\ load.want \in Wanted
  BY <1>2, TexturesAreNodes
    DEF TextureInv, TextureTypes, LoadStands, NodesApart, TextureLoad
<1> HIDE DEF load, n
<1>4. CASE fine /\ after # NoMemory
  <2>1. Given(after, tmu_memory, n)
    BY <1>3, <1>4, PlacedGiven
  <2>2. Linked(n, load.want, TRUE, after)
    BY <1>2, <1>4
  <2> HIDE DEF after
  <2> QED BY <1>3, <2>1, <2>2, LinkedMemory
<1>5. CASE ~(fine /\ after # NoMemory)
  <2>1. UNCHANGED <<tlist, texture, tmu_memory>>
    BY <1>2, <1>5
  <2> QED BY <2>1, UnmovedMemory
<1> QED BY <1>4, <1>5

\* create_texture does not touch the memory: the load does.
LEMMA CreateMemory ==
  ASSUME TextureInv, MemoryInv, NEW c \in TextureCallers, NEW want \in Wanted,
         create_texture(c, want)
  PROVE  MemoryInv'
<1> DEFINE found == IF want.normal THEN find_texture(want) ELSE NoTexture
<1>1. \/ found # NoTexture /\ Reused(found)
      \/ UNCHANGED <<tlist, texture, tmu_memory>>
  BY DEF create_texture
<1>2. found # NoTexture => found \in Live
  BY FindTexture DEF TextureInv
<1> HIDE DEF found
<1>3. CASE found # NoTexture /\ Reused(found)
  BY <1>2, <1>3, CountedMemory
<1>4. CASE UNCHANGED <<tlist, texture, tmu_memory>>
  BY <1>4, UnmovedMemory
<1> QED BY <1>1, <1>3, <1>4

\* Every call that does not suspend keeps the memory right.
LEMMA ListCallMemory ==
  ASSUME TextureInv, MemoryInv, ListCall
  PROVE  MemoryInv'
<1>1. CASE \E want \in Wanted, fine \in BOOLEAN : create_texture_from_memory(want, fine)
  BY <1>1, FromMemoryMemory
<1>2. CASE \/ \E nodes : TexturesDeleted(nodes) \/ ForceDeleted(nodes)
           \/ \E id \in TextureIds : delete_texture_id(id)
           \/ clear_unlocked_textures \/ clear_locked_textures
  <2>1. \E gone, less, one : Removed(gone, less, one)
    BY <1>2 DEF delete_texture_id, clear_unlocked_textures, clear_locked_textures,
                TexturesDeleted, ForceDeleted
  <2> QED BY <2>1, RemovedMemory
<1>3. CASE clear_all_textures
  <2>1. tmu_memory' = resetTextureSystem /\ tlist' = <<>>
    BY <1>3 DEF clear_all_textures
  <2>2. Live' = {}
    BY <2>1, NoNodes DEF Live
  <2> QED BY <2>1, <2>2, MemoryReset DEF MemoryInv
<1>4. CASE clear_free_texture_list
  BY <1>4, UnmovedMemory DEF clear_free_texture_list
<1>5. CASE \E nodes, lock : Locked(nodes, lock)
  BY <1>5, CountedMemory
<1> QED BY <1>1, <1>2, <1>3, <1>4, <1>5 DEF ListCall

\* The memory and its owners in every state.
THEOREM MemoryInvariant == TextureSpec => []MemoryInv
<1>1. TextureInit => MemoryInv
  <2> SUFFICES ASSUME TextureInit
               PROVE  MemoryInv
    OBVIOUS
  <2>1. Live = {} /\ tmu_memory = resetTextureSystem
    BY NoNodes DEF TextureInit, Live
  <2> QED BY <2>1, MemoryReset DEF MemoryInv
<1>2. TextureInv /\ MemoryInv /\ [TextureNext]_texture_vars => MemoryInv'
  <2> SUFFICES ASSUME TextureInv, MemoryInv, [TextureNext]_texture_vars
               PROVE  MemoryInv'
    OBVIOUS
  <2>1. CASE \E c \in TextureCallers, want \in Wanted : create_texture(c, want)
    BY <2>1, CreateMemory
  <2>2. CASE ListCall
    BY <2>2, ListCallMemory
  <2>3. CASE LoadEnds
    BY <2>3, LoadEndsMemory
  <2>4. CASE UNCHANGED texture_vars
    BY <2>4, UnmovedMemory DEF texture_vars, texture_lists
  <2> QED BY <2>1, <2>2, <2>3, <2>4 DEF TextureNext, TextureCall
<1> QED BY <1>1, <1>2, TextureInvariant, PTL DEF TextureSpec

\* No two textures share a byte of a texture unit, every texture from a file has its own
\* memory, and no byte of a unit is lost to its counters (gext.c:1472), for units of any
\* size, textures that need any number of bytes, and any number of calls.
THEOREM TextureMemoryKept == TextureSpec => []TextureMemoryExact
<1>1. MemoryInv => TextureMemoryExact
  <2> SUFFICES ASSUME MemoryInv
               PROVE  TextureMemoryExact
    OBVIOUS
  <2> DEFINE m == tmu_memory
  <2>1. ASSUME NEW s \in Sections, NEW k \in 1 .. Len(m.pieces[s]) + 1
        PROVE  GapSize(m, s, k) >= 0
    <3>1. Laid(m.pieces[s], s)
      BY DEF MemoryInv, MemoryOK
    <3> HIDE DEF m
    <3> QED BY <2>1, <3>1, GapsStand
  <2>2. ASSUME NEW t \in TMUs
        PROVE  /\ getTotalMemTmu(m, t) + UsedBytes(m, <<t, "A">>)
                    + UsedBytes(m, <<t, "B">>) = 2 * TmuHalf
               /\ \A h \in {"A", "B"} : m.free[<<t, h>>] >= 0
    <3>1. Total(m, t) = 2 * TmuHalf
      BY DEF MemoryInv, MemoryOK
    <3>2. ASSUME NEW h \in {"A", "B"}
          PROVE  m.free[<<t, h>>] >= 0
      <4>1. <<t, h>> \in Sections
        BY DEF Sections
      <4>2. m.free[<<t, h>>] \in Nat
        BY <4>1 DEF MemoryInv, MemoryOK
      <4> QED BY <4>2
    <3> QED BY <3>1, <3>2 DEF Total
  <2> QED BY <2>1, <2>2 DEF MemoryInv, TextureMemoryExact
<1> QED BY <1>1, MemoryInvariant, PTL
=============================================================================
