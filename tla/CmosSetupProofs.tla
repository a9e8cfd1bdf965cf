--------------------------- MODULE CmosSetupProofs ---------------------------
(***************************************************************************)
(* Theorems about the CMOS and the start of a game over it, for every      *)
(* number of audits, table of adjustments and bound: its types; and, as    *)
(* long as the number of audits does not change, that a game trusts only   *)
(* what was stored, and that a power failure which leaves a good CMOS      *)
(* loses nothing.                                                          *)
(***************************************************************************)
EXTENDS CmosSetup, SequenceTheorems, FiniteSetTheorems, TLAPS

-----------------------------------------------------------------------------
(***************************************************************************)
(* Types, whatever versions of the game run.                               *)
(***************************************************************************)

\* A store changes no domain.
LEMMA WrittenDomain ==
  ASSUME NEW mem, NEW w
  PROVE  DOMAIN Written(mem, w) = DOMAIN mem
BY DEF Written

\* Every variable of the CMOS keeps to its type.
THEOREM CmosTypes == CmosSpec => []CmosTypeOK
<1>1. CmosInit => CmosTypeOK
  <2> SUFFICES ASSUME CmosInit PROVE CmosTypeOK
    OBVIOUS
  <2>1. DOMAIN Damaged = Words /\ DOMAIN Settled = Words
    BY DEF Damaged, Settled
  <2>2. cmos_bounds \in [sets : 0 .. MaxSets, cuts : 0 .. MaxCuts]
    BY CmosBoundsAssumption DEF CmosInit
  <2> QED BY <2>1, <2>2 DEF CmosInit, CmosTypeOK
<1>2. CmosTypeOK /\ [CmosNext]_cmos_vars => CmosTypeOK'
  <2> SUFFICES ASSUME CmosTypeOK, [CmosNext]_cmos_vars
               PROVE  CmosTypeOK'
    OBVIOUS
  <2> USE CmosBoundsAssumption
  <2>1. DOMAIN Damaged = Words /\ DOMAIN Pattern = Words
    BY DEF Damaged, Pattern
  <2>2. CASE UNCHANGED cmos_vars
    BY <2>2 DEF CmosTypeOK, cmos_vars
  <2>3. CASE save_cmos
    BY <2>3 DEF CmosTypeOK, save_cmos
  <2>4. CASE test_cmos
    BY <2>1, <2>4 DEF CmosTypeOK, test_cmos
  <2>5. CASE test_cmos_fails
    BY <2>1, <2>5 DEF CmosTypeOK, test_cmos_fails
  <2>6. CASE Restored
    BY <2>6 DEF CmosTypeOK, Restored, update_cmos
  <2>7. CASE WriteShadow
    BY <2>7, WrittenDomain DEF CmosTypeOK, WriteShadow
  <2>8. CASE NextItem
    BY <2>8 DEF CmosTypeOK, NextItem
  <2>9. CASE NextStage
    BY <2>9 DEF CmosTypeOK, NextStage
  <2>10. CASE Game
    <3>1. PICK stores : GameStores(stores)
      BY <2>10 DEF Game, increment_audit
    <3> QED BY <3>1 DEF CmosTypeOK, GameStores
  <2>11. CASE UpdateInterrupt
    BY <2>11 DEF CmosTypeOK, UpdateInterrupt, update_cmos
  <2>12. CASE PowerFails
    <3>1. \A from, to : \A mem \in PartCopies(from, to) : DOMAIN mem = Words
      BY DEF PartCopies, Copied
    <3>2. DOMAIN cmos_ram' = Words
      BY <2>12, <3>1 DEF PowerFails, LeftInCmos, CmosTypeOK
    <3>3. cmos_bounds' \in [sets : 0 .. MaxSets, cuts : 0 .. MaxCuts]
      BY <2>12 DEF CmosTypeOK, PowerFails
    <3> QED BY <2>1, <2>12, <3>2, <3>3 DEF CmosTypeOK, PowerFails
  <2> QED BY <2>2, <2>3, <2>4, <2>5, <2>6, <2>7, <2>8, <2>9, <2>10, <2>11, <2>12
          DEF CmosNext, CmosProgram
<1> QED BY <1>1, <1>2, PTL DEF CmosSpec

-----------------------------------------------------------------------------
(***************************************************************************)
(* The layout, as long as the number of audits stays the same.             *)
(***************************************************************************)

\* Every version of the game has the same number of audits.
OneVersion == \A m, n \in AuditCounts : m = n

N == CHOOSE n \in AuditCounts : TRUE
A == Len(Ranges)
TableAt(j) == 2 * N + j
TableEnd == 2 * N + A + 1
Rec == 2 * N + A + 2

\* The words that hold check data; the others hold numbers.
CheckWords == {2 * i + 2 : i \in 0 .. N - 1} \cup {TableEnd, Rec + 2}

\* What is stored: a number or a torn word, and check data.
Data == Seq(Nat)
Cells == Data \cup Seq({"crc"} \cup Data)

Memory == {mem \in [Words -> Cells] : \A w \in Words \ CheckWords : mem[w] \in Data}
Stores == {s \in [at : Words, word : Cells] : s.at \notin CheckWords => s.word \in Data}
            \cup {Mark}

\* The constants of the layout.
LEMMA Layout ==
  ASSUME OneVersion
  PROVE  /\ N \in AuditCounts /\ N \in Nat /\ N >= 1 /\ \A n \in AuditCounts : n = N
         /\ A \in Nat /\ A >= 2 /\ Adjustments = 1 .. A
         /\ Words = 1 .. Rec + 2
         /\ \A j \in 1 .. A : /\ Ranges[j].min \in Nat /\ Ranges[j].max \in Nat
                              /\ Ranges[j].default_val \in Ranges[j].min .. Ranges[j].max
         /\ \A j \in {FACTORY_RESTORE_ADJ, HIGH_SCORE_RESET_ADJ} :
              j \in 1 .. A /\ 0 \in Ranges[j].min .. Ranges[j].max
<1>1. N \in AuditCounts /\ N \in Nat /\ N >= 1
  <2>1. PICK n : n \in AuditCounts
    BY CmosAssumption
  <2>2. N \in AuditCounts
    BY <2>1 DEF N
  <2> QED BY <2>2, CmosAssumption
<1>2. \A n \in AuditCounts : n = N
  BY <1>1 DEF OneVersion
<1>3. A \in Nat /\ A >= 2 /\ Adjustments = 1 .. A
  BY CmosAssumption DEF A, Adjustments
<1> DEFINE Most(n) == \A m \in AuditCounts : m <= n
           most == CHOOSE n \in AuditCounts : Most(n)
<1>4. most = N
  <2>1. Most(N)
    BY <1>1, <1>2
  <2> HIDE DEF Most
  <2>2. most \in AuditCounts
    BY <1>1, <2>1
  <2> QED BY <1>2, <2>2
<1>5. Words = 1 .. Rec + 2
  <2>1. Words = 1 .. 2 * most + A + 4
    BY DEF Words, A
  <2> HIDE DEF most
  <2> QED BY <1>1, <1>3, <1>4, <2>1 DEF Rec
<1>8. \A j \in 1 .. A : Ranges[j] \in [min : Nat, max : Nat, default_val : Nat]
  <2> DEFINE S == [min : Nat, max : Nat, default_val : Nat]
  <2>1. Ranges \in Seq(S)
    BY CmosAssumption
  <2> HIDE DEF S
  <2>2. \A j \in 1 .. A : Ranges[j] \in S
    BY <2>1 DEF A
  <2> QED BY <2>2 DEF S
<1>6. \A j \in 1 .. A : /\ Ranges[j].min \in Nat /\ Ranges[j].max \in Nat
                        /\ Ranges[j].default_val \in Ranges[j].min .. Ranges[j].max
  BY <1>3, <1>8, CmosAssumption DEF Adjustments
<1>7. \A j \in {FACTORY_RESTORE_ADJ, HIGH_SCORE_RESET_ADJ} :
        j \in 1 .. A /\ 0 \in Ranges[j].min .. Ranges[j].max
  <2> SUFFICES ASSUME NEW j \in {A - 1, A}
               PROVE  j \in 1 .. A /\ 0 \in Ranges[j].min .. Ranges[j].max
    BY DEF A, FACTORY_RESTORE_ADJ, HIGH_SCORE_RESET_ADJ
  <2>1. j \in 1 .. A
    BY <1>3
  <2>2. Ranges[j].min = 0
    BY CmosAssumption DEF A
  <2> QED BY <1>6, <2>1, <2>2
<1> QED BY <1>1, <1>2, <1>3, <1>5, <1>6, <1>7

\* No two things have their words in the same place.
LEMMA Places ==
  ASSUME OneVersion
  PROVE  /\ \A i \in 0 .. N - 1 : /\ 2 * i + 1 \in Words \ CheckWords
                                  /\ 2 * i + 2 \in Words /\ 2 * i + 2 \in CheckWords
                                  /\ 2 * i + 2 < TableAt(1)
         /\ \A j \in 1 .. A : TableAt(j) \in Words \ CheckWords
         /\ TableEnd \in Words /\ TableEnd \in CheckWords
         /\ {Rec, Rec + 1} \subseteq Words \ CheckWords
         /\ Rec + 2 \in Words /\ Rec + 2 \in CheckWords
<1>1. N \in Nat /\ A \in Nat /\ A >= 2 /\ Words = 1 .. Rec + 2
  BY Layout
<1> USE <1>1 DEF CheckWords, TableAt, TableEnd, Rec
<1>2. ASSUME NEW i \in 0 .. N - 1
      PROVE  /\ 2 * i + 1 \in Words /\ 2 * i + 2 \in Words /\ 2 * i + 2 < TableAt(1)
             /\ 2 * i + 1 \notin CheckWords /\ 2 * i + 2 \in CheckWords
  OBVIOUS
<1>3. ASSUME NEW j \in 1 .. A
      PROVE  TableAt(j) \in Words \ CheckWords
  OBVIOUS
<1>4. TableEnd \in Words /\ TableEnd \in CheckWords
  OBVIOUS
<1>5. Rec \in Words \ CheckWords /\ Rec + 1 \in Words \ CheckWords
  OBVIOUS
<1>6. Rec + 2 \in Words /\ Rec + 2 \in CheckWords
  OBVIOUS
<1> QED BY <1>2, <1>3, <1>4, <1>5, <1>6

\* Numbers and torn words are data, and what a number is read as.
LEMMA NumberFacts ==
  ASSUME NEW n \in Nat
  PROVE  /\ Number(n) \in Data /\ Number(n) \in Cells /\ Len(Number(n)) = 1
         /\ AsNumber(Number(n)) = n /\ Torn \in Data /\ Torn \in Cells /\ Len(Torn) = 0
BY DEF Number, Data, Cells, AsNumber, Torn

\* A word of data is read as a number.
LEMMA ReadNumber ==
  ASSUME NEW w \in Data
  PROVE  AsNumber(w) \in Nat
BY DEF Data, AsNumber

\* The check data of one word, of two, and of any number.
LEMMA CrcFacts ==
  /\ \A u \in Data : /\ crc(<<u>>) \in Cells /\ Len(crc(<<u>>)) = 2 /\ crc(<<u>>)[2] = u
  /\ \A u, v \in Data : /\ crc(<<u, v>>) \in Cells /\ Len(crc(<<u, v>>)) = 3
                        /\ crc(<<u, v>>)[2] = u /\ crc(<<u, v>>)[3] = v
  /\ \A s \in Seq(Data) : crc(s) \in Cells /\ Len(crc(s)) = Len(s) + 1
<1> DEFINE S == {"crc"} \cup Data
<1>1. ASSUME NEW s \in Seq(Data)
      PROVE  /\ crc(s) \in Seq(S) /\ Len(crc(s)) = Len(s) + 1
             /\ \A k \in 1 .. Len(s) : crc(s)[k + 1] = s[k]
  <2>1. s \in Seq(S) /\ <<"crc">> \in Seq(S) /\ Len(<<"crc">>) = 1
    OBVIOUS
  <2> HIDE DEF S
  <2>2. /\ <<"crc">> \o s \in Seq(S) /\ Len(<<"crc">> \o s) = 1 + Len(s)
        /\ \A k \in 1 .. 1 + Len(s) :
             (<<"crc">> \o s)[k] = IF k <= 1 THEN <<"crc">>[k] ELSE s[k - 1]
    BY <2>1, ConcatProperties
  <2>3. Len(s) \in Nat
    BY <2>1
  <2> QED BY <2>2, <2>3 DEF crc
<1>2. ASSUME NEW u \in Data
      PROVE  /\ crc(<<u>>) \in Cells /\ Len(crc(<<u>>)) = 2 /\ crc(<<u>>)[2] = u
  <2>1. <<u>> \in Seq(Data) /\ Len(<<u>>) = 1 /\ <<u>>[1] = u
    OBVIOUS
  <2>2. crc(<<u>>)[1 + 1] = u
    <3>1. \A k \in 1 .. Len(<<u>>) : crc(<<u>>)[k + 1] = <<u>>[k]
      BY <2>1, <1>1
    <3>2. 1 \in 1 .. Len(<<u>>)
      BY <2>1
    <3> QED BY <2>1, <3>1, <3>2
  <2>3. crc(<<u>>) \in Cells /\ Len(crc(<<u>>)) = Len(<<u>>) + 1
    BY <2>1, <1>1 DEF Cells
  <2> QED BY <2>1, <2>2, <2>3
<1>3. ASSUME NEW u \in Data, NEW v \in Data
      PROVE  /\ crc(<<u, v>>) \in Cells /\ Len(crc(<<u, v>>)) = 3
             /\ crc(<<u, v>>)[2] = u /\ crc(<<u, v>>)[3] = v
  <2>1. <<u, v>> \in Seq(Data) /\ Len(<<u, v>>) = 2 /\ <<u, v>>[1] = u /\ <<u, v>>[2] = v
    OBVIOUS
  <2>2. crc(<<u, v>>)[1 + 1] = u /\ crc(<<u, v>>)[2 + 1] = v
    <3>1. \A k \in 1 .. Len(<<u, v>>) : crc(<<u, v>>)[k + 1] = <<u, v>>[k]
      BY <2>1, <1>1
    <3>2. 1 \in 1 .. Len(<<u, v>>) /\ 2 \in 1 .. Len(<<u, v>>)
      BY <2>1
    <3> QED BY <2>1, <3>1, <3>2
  <2>3. crc(<<u, v>>) \in Cells /\ Len(crc(<<u, v>>)) = Len(<<u, v>>) + 1
    BY <2>1, <1>1 DEF Cells
  <2> QED BY <2>1, <2>2, <2>3
<1>4. \A s \in Seq(Data) : crc(s) \in Cells /\ Len(crc(s)) = Len(s) + 1
  BY <1>1 DEF Cells
<1> QED BY <1>2, <1>3, <1>4

-----------------------------------------------------------------------------
(***************************************************************************)
(* The stores a call has yet to make.                                      *)
(***************************************************************************)

\* Every word is stored once, the flag goes up last, and the check data of the first
\* audit go before its count.
Tidy(stores) ==
  /\ stores \in Seq(Stores)
  /\ \A j, k \in DOMAIN stores : stores[j].at = stores[k].at => j = k
  /\ \A k \in DOMAIN stores : stores[k] = Mark <=> k = Len(stores)
  /\ \A k \in DOMAIN stores :
       stores[k].at = AuditAt(0) + 1 =>
         \E m \in DOMAIN stores : k < m /\ stores[m].at = AuditAt(0)

\* The element of a set of one.
Only(S) == CHOOSE v \in S : TRUE

LEMMA OnlyIs ==
  /\ \A v : Only({v}) = v
  /\ \A S : S # {} => Only(S) \in S
BY DEF Only

\* What the stores leave in a word of a memory.
LeftBy(mem, stores, w) ==
  IF PutAt(stores, w) = {} THEN mem[w] ELSE Only(PutAt(stores, w))

Left(w) == LeftBy(cmos_shadow, cmos_caller.stores, w)

\* No stores.
LEMMA NoStores ==
  /\ Tidy(<<>>) /\ \A w : PutAt(<<>>, w) = {}
  /\ \A mem, w : LeftBy(mem, <<>>, w) = mem[w]
BY DEF Tidy, PutAt, LeftBy

\* What is put at a place, the first store apart.
LEMMA PutFirst ==
  ASSUME NEW c, c \in Seq(Stores), c # <<>>, NEW w
  PROVE  PutAt(c, w) = PutAt(Tail(c), w) \cup (IF Head(c).at = w THEN {Head(c).word} ELSE {})
<1>1. /\ Len(c) \in Nat /\ Len(c) >= 1 /\ DOMAIN c = 1 .. Len(c) /\ Head(c) = c[1]
      /\ DOMAIN Tail(c) = 1 .. Len(c) - 1 /\ \A k \in 1 .. Len(c) - 1 : Tail(c)[k] = c[k + 1]
  OBVIOUS
<1> DEFINE t == Tail(c)
<1> HIDE DEF t
<1>2. ASSUME NEW v \in PutAt(c, w)
      PROVE  v \in PutAt(t, w) \cup (IF c[1].at = w THEN {c[1].word} ELSE {})
  <2>1. PICK k \in DOMAIN c : c[k].at = w /\ v = c[k].word
    BY <1>2 DEF PutAt
  <2>2. CASE k = 1
    BY <2>1, <2>2
  <2>3. CASE k # 1
    <3>1. k - 1 \in DOMAIN t /\ t[k - 1] = c[k]
      BY <1>1, <2>1, <2>3 DEF t
    <3> QED BY <2>1, <3>1 DEF PutAt
  <2> QED BY <2>2, <2>3
<1>3. ASSUME NEW v \in PutAt(t, w)
      PROVE  v \in PutAt(c, w)
  <2>1. PICK k \in DOMAIN t : t[k].at = w /\ v = t[k].word
    BY <1>3 DEF PutAt
  <2>2. k + 1 \in DOMAIN c /\ c[k + 1] = t[k]
    BY <1>1, <2>1 DEF t
  <2> QED BY <2>1, <2>2 DEF PutAt
<1>4. c[1].at = w => c[1].word \in PutAt(c, w)
  BY <1>1 DEF PutAt
<1> QED BY <1>1, <1>2, <1>3, <1>4 DEF t

\* The first store made, the others stay tidy and leave the same.
LEMMA TailTidy ==
  ASSUME OneVersion, NEW c, Tidy(c), c # <<>>, NEW mem \in Memory
  PROVE  /\ Tidy(Tail(c)) /\ Written(mem, Head(c)) \in Memory
         /\ \A w \in Words :
              /\ LeftBy(Written(mem, Head(c)), Tail(c), w) = LeftBy(mem, c, w)
              /\ Written(mem, Head(c))[w] = IF Head(c).at = w THEN Head(c).word ELSE mem[w]
              /\ PutAt(Tail(c), w) \subseteq PutAt(c, w)
              /\ Head(c).at = w => PutAt(c, w) = {Head(c).word} /\ PutAt(Tail(c), w) = {}
         /\ Head(c) = Mark => Tail(c) = <<>>
         /\ Head(c).at = AuditAt(0) => PutAt(c, AuditAt(0) + 1) = {}
<1> DEFINE h == Head(c)
           t == Tail(c)
<1>1. /\ c \in Seq(Stores) /\ Len(c) \in Nat /\ Len(c) >= 1 /\ DOMAIN c = 1 .. Len(c) /\ h = c[1]
      /\ t \in Seq(Stores) /\ Len(t) = Len(c) - 1
      /\ DOMAIN t = 1 .. Len(t) /\ \A k \in 1 .. Len(t) : t[k] = c[k + 1]
  BY DEF Tidy
<1>2. h \in Stores
  BY <1>1
<1>9. \A w : PutAt(c, w) = PutAt(t, w) \cup (IF h.at = w THEN {h.word} ELSE {})
  BY PutFirst DEF Tidy
<1> HIDE DEF h, t
<1>3. Tidy(t)
  <2>1. ASSUME NEW k \in DOMAIN t
        PROVE  t[k] = Mark <=> k = Len(t)
    <3>1. k + 1 \in DOMAIN c /\ t[k] = c[k + 1] /\ (k + 1 = Len(c) <=> k = Len(t))
      BY <1>1
    <3>2. c[k + 1] = Mark <=> k + 1 = Len(c)
      BY <3>1 DEF Tidy
    <3> QED BY <3>1, <3>2
  <2>2. ASSUME NEW j \in DOMAIN t, NEW k \in DOMAIN t, t[j].at = t[k].at
        PROVE  j = k
    <3>1. j + 1 \in DOMAIN c /\ k + 1 \in DOMAIN c /\ c[j + 1].at = c[k + 1].at
      BY <1>1, <2>2
    <3>2. j + 1 = k + 1
      BY <3>1 DEF Tidy
    <3> QED BY <1>1, <3>2
  <2>3. ASSUME NEW k \in DOMAIN t, t[k].at = AuditAt(0) + 1
        PROVE  \E m \in DOMAIN t : k < m /\ t[m].at = AuditAt(0)
    <3>1. k + 1 \in DOMAIN c /\ c[k + 1].at = AuditAt(0) + 1
      BY <1>1, <2>3
    <3>2. PICK m \in DOMAIN c : k + 1 < m /\ c[m].at = AuditAt(0)
      BY <3>1 DEF Tidy
    <3>3. m - 1 \in DOMAIN t /\ t[m - 1] = c[m] /\ k < m - 1
      BY <1>1, <3>2
    <3> QED BY <3>2, <3>3
  <2> QED BY <1>1, <2>1, <2>2, <2>3 DEF Tidy
<1>4. h = Mark => t = <<>>
  <2> SUFFICES ASSUME h = Mark PROVE t = <<>>
    OBVIOUS
  <2>1. 1 \in DOMAIN c /\ c[1] = Mark
    BY <1>1
  <2>2. 1 = Len(c)
    BY <2>1 DEF Tidy
  <2>3. Len(t) = 0
    BY <1>1, <2>2
  <2> QED BY <1>1, <2>3, EmptySeq
<1>5. h.at = AuditAt(0) => PutAt(c, AuditAt(0) + 1) = {}
  <2> SUFFICES ASSUME h.at = AuditAt(0), NEW k \in DOMAIN c, c[k].at = AuditAt(0) + 1
               PROVE  FALSE
    BY DEF PutAt
  <2>1. PICK m \in DOMAIN c : k < m /\ c[m].at = AuditAt(0)
    BY DEF Tidy
  <2>2. m = 1
    BY <1>1, <2>1 DEF Tidy
  <2> QED BY <1>1, <2>1, <2>2
<1>6. DOMAIN mem = Words /\ 0 \notin Words
  BY Layout DEF Memory
<1>7. CASE h = Mark
  <2>1. Written(mem, h) = mem /\ h.at = 0
    BY <1>7 DEF Written, Mark
  <2>2. \A w \in Words : PutAt(c, w) = PutAt(t, w)
    BY <1>6, <1>9, <2>1
  <2> QED BY <1>3, <1>4, <1>5, <1>6, <2>1, <2>2 DEF LeftBy, h, t
<1>8. CASE h # Mark
  <2>1. /\ h \in [at : Words, word : Cells] /\ (h.at \notin CheckWords => h.word \in Data)
        /\ Written(mem, h) = [mem EXCEPT ![h.at] = h.word]
    BY <1>2, <1>8 DEF Stores, Written
  <2>2. Written(mem, h) \in Memory
    BY <2>1 DEF Memory
  <2>3. \A w \in Words : Written(mem, h)[w] = IF h.at = w THEN h.word ELSE mem[w]
    BY <1>6, <2>1
  <2>4. PutAt(t, h.at) = {}
    <3> SUFFICES ASSUME NEW k \in DOMAIN t, t[k].at = h.at
                 PROVE  FALSE
      BY DEF PutAt
    <3>1. k + 1 \in DOMAIN c /\ 1 \in DOMAIN c /\ c[k + 1].at = c[1].at
      BY <1>1
    <3>2. k + 1 = 1
      BY <3>1 DEF Tidy
    <3> QED BY <1>1, <3>2
  <2>5. /\ PutAt(c, h.at) = {h.word}
        /\ \A w : h.at # w => PutAt(c, w) = PutAt(t, w)
    BY <1>9, <2>4
  <2>6. Only({h.word}) = h.word
    BY OnlyIs
  <2>7. ASSUME NEW w \in Words
        PROVE  LeftBy(Written(mem, h), t, w) = LeftBy(mem, c, w)
    <3>1. CASE h.at = w
      BY <2>3, <2>4, <2>5, <2>6, <3>1 DEF LeftBy
    <3>2. CASE h.at # w
      BY <2>3, <2>5, <3>2 DEF LeftBy
    <3> QED BY <3>1, <3>2
  <2> QED BY <1>3, <1>4, <1>5, <2>2, <2>3, <2>4, <2>5, <2>7 DEF h, t
<1> QED BY <1>7, <1>8

-----------------------------------------------------------------------------
(***************************************************************************)
(* The stores of each call.                                                *)
(***************************************************************************)

\* A call of two stores.
LEMMA TwoStores ==
  ASSUME OneVersion, NEW a \in Stores \ {Mark}, NEW b \in Stores \ {Mark}, a.at # b.at,
         b.at # AuditAt(0) + 1, a.at = AuditAt(0) + 1 => b.at = AuditAt(0)
  PROVE  LET c == <<a, b, Mark>>
         IN  /\ Tidy(c) /\ c # <<>> /\ a.at \in Words /\ b.at \in Words
             /\ \A mem : \A w \in Words :
                  LeftBy(mem, c, w) = IF w = a.at THEN a.word
                                      ELSE IF w = b.at THEN b.word ELSE mem[w]
             /\ \A w \in Words : PutAt(c, w) = IF w = a.at THEN {a.word}
                                               ELSE IF w = b.at THEN {b.word} ELSE {}
<1> DEFINE c == <<a, b, Mark>>
<1>1. a.at \in Words /\ b.at \in Words /\ 0 \notin Words /\ Mark.at = 0 /\ Mark \in Stores
  BY Layout DEF Stores, Mark
<1>2. /\ c \in Seq(Stores) /\ Len(c) = 3 /\ DOMAIN c = {1, 2, 3} /\ c # <<>>
      /\ c[1] = a /\ c[2] = b /\ c[3] = Mark
  BY <1>1
<1> HIDE DEF c
<1>3. Tidy(c)
  <2>1. \A j, k \in DOMAIN c : c[j].at = c[k].at => j = k
    BY <1>1, <1>2
  <2>2. \A k \in DOMAIN c : c[k] = Mark <=> k = Len(c)
    BY <1>1, <1>2
  <2>3. \A k \in DOMAIN c : c[k].at = AuditAt(0) + 1 =>
          \E m \in DOMAIN c : k < m /\ c[m].at = AuditAt(0)
    BY <1>1, <1>2 DEF AuditAt
  <2> QED BY <1>2, <2>1, <2>2, <2>3 DEF Tidy
<1>4. \A w \in Words : PutAt(c, w) = IF w = a.at THEN {a.word}
                                     ELSE IF w = b.at THEN {b.word} ELSE {}
  <2> SUFFICES ASSUME NEW w \in Words
               PROVE  PutAt(c, w) = IF w = a.at THEN {a.word}
                                    ELSE IF w = b.at THEN {b.word} ELSE {}
    OBVIOUS
  <2>1. {k \in DOMAIN c : c[k].at = w} = IF w = a.at THEN {1} ELSE IF w = b.at THEN {2} ELSE {}
    BY <1>1, <1>2
  <2> QED BY <1>2, <2>1 DEF PutAt
<1>5. ASSUME NEW mem, NEW w \in Words
      PROVE  LeftBy(mem, c, w) = IF w = a.at THEN a.word
                                 ELSE IF w = b.at THEN b.word ELSE mem[w]
  BY <1>4, OnlyIs DEF LeftBy
<1> QED BY <1>1, <1>2, <1>3, <1>4, <1>5 DEF c

\* set_audit: the check data and the count of audit i.
LEMMA AuditStores ==
  ASSUME OneVersion, NEW i \in 0 .. N - 1, NEW n \in Nat
  PROVE  LET c == set_audit(i, n)
         IN  /\ Tidy(c) /\ c # <<>>
             /\ \A mem : \A w \in Words :
                  LeftBy(mem, c, w) = IF w = 2 * i + 1 THEN Number(n)
                                      ELSE IF w = 2 * i + 2 THEN crc(<<Number(n)>>) ELSE mem[w]
             /\ \A w \in Words :
                  PutAt(c, w) = IF w = 2 * i + 1 THEN {Number(n)}
                                ELSE IF w = 2 * i + 2 THEN {crc(<<Number(n)>>)} ELSE {}
<1> DEFINE a == Write(AuditAt(i) + 1, crc(<<Number(n)>>))
           b == Write(AuditAt(i), Number(n))
           c == <<a, b, Mark>>
<1>1. AuditAt(i) = 2 * i + 1 /\ AuditAt(0) = 1
  BY DEF AuditAt
<1>2. a.at = 2 * i + 2 /\ a.word = crc(<<Number(n)>>) /\ b.at = 2 * i + 1 /\ b.word = Number(n)
  BY <1>1 DEF Write
<1>3. a \in Stores \ {Mark} /\ b \in Stores \ {Mark}
  <2>1. 0 \notin Words
    BY Layout
  <2>2. 2 * i + 1 \in Words /\ 2 * i + 2 \in Words /\ 2 * i + 2 \in CheckWords
    BY Places
  <2>3. a.at \in Words /\ b.at \in Words /\ a.at \in CheckWords
    BY <1>2, <2>2
  <2> QED BY <1>1, <2>1, <2>3, NumberFacts, CrcFacts DEF Stores, Write, Mark
<1>4. a.at # b.at /\ b.at # AuditAt(0) + 1 /\ (a.at = AuditAt(0) + 1 => b.at = AuditAt(0))
  <2>1. i \in Nat
    BY Layout
  <2> QED BY <1>1, <1>2, <2>1
<1>5. c = set_audit(i, n)
  BY DEF set_audit
<1> HIDE DEF a, b
<1>6. /\ Tidy(c) /\ c # <<>>
      /\ \A mem : \A w \in Words :
           LeftBy(mem, c, w) = IF w = a.at THEN a.word
                               ELSE IF w = b.at THEN b.word ELSE mem[w]
      /\ \A w \in Words : PutAt(c, w) = IF w = a.at THEN {a.word}
                                        ELSE IF w = b.at THEN {b.word} ELSE {}
  BY <1>3, <1>4, TwoStores
<1> HIDE DEF c
<1> QED BY <1>2, <1>4, <1>5, <1>6

\* set_adjustment: one adjustment and the check data of the table that has it.
LEMMA AdjustmentStores ==
  ASSUME OneVersion, max_audits = N, NEW mem \in Memory, NEW j \in 1 .. A, NEW n \in Nat
  PROVE  LET c == set_adjustment(mem, j, n)
             table == [[k \in 1 .. A |-> mem[TableAt(k)]] EXCEPT ![j] = Number(n)]
         IN  /\ Tidy(c) /\ c # <<>>
             /\ \A m : \A w \in Words :
                  LeftBy(m, c, w) = IF w = TableAt(j) THEN Number(n)
                                    ELSE IF w = TableEnd THEN crc(table) ELSE m[w]
             /\ \A w \in Words :
                  PutAt(c, w) = IF w = TableAt(j) THEN {Number(n)}
                                ELSE IF w = TableEnd THEN {crc(table)} ELSE {}
<1> DEFINE table == [[k \in 1 .. A |-> mem[TableAt(k)]] EXCEPT ![j] = Number(n)]
           a == Write(TableAt(j), Number(n))
           b == Write(TableEnd, crc(table))
           c == <<a, b, Mark>>
<1>1. crc(table) \in Cells
  <2>1. \A k \in 1 .. A : mem[TableAt(k)] \in Data
    BY Places DEF Memory
  <2>2. table \in [1 .. A -> Data]
    BY <2>1, NumberFacts
  <2> HIDE DEF table
  <2>3. table \in Seq(Data)
    BY <2>2, Layout, SeqDef
  <2> QED BY <2>3, CrcFacts
<1>2. c = set_adjustment(mem, j, n)
  <2>1. AdjustmentTable(mem) = [k \in 1 .. A |-> mem[TableAt(k)]]
    BY Layout DEF AdjustmentTable, AdjustmentAt, TableAt
  <2>2. AdjustmentAt(j) = TableAt(j) /\ AdjustmentsEnd = TableEnd
    BY DEF AdjustmentAt, AdjustmentsEnd, TableAt, TableEnd, A
  <2> QED BY <2>1, <2>2 DEF set_adjustment
<1> HIDE DEF table
<1>3. a.at = TableAt(j) /\ a.word = Number(n) /\ b.at = TableEnd /\ b.word = crc(table)
  BY DEF Write
<1>4. a \in Stores \ {Mark} /\ b \in Stores \ {Mark}
  <2>1. a.at \in Words /\ b.at \in Words /\ b.at \in CheckWords /\ 0 \notin Words
    BY <1>3, Places, Layout
  <2> QED BY <1>1, <2>1, NumberFacts DEF Stores, Write, Mark
<1>5. a.at # b.at /\ b.at # AuditAt(0) + 1 /\ a.at # AuditAt(0) + 1
  <2>1. AuditAt(0) + 1 = 2
    BY DEF AuditAt
  <2> QED BY <1>3, <2>1, Layout DEF TableAt, TableEnd
<1> HIDE DEF a, b
<1>6. /\ Tidy(c) /\ c # <<>>
      /\ \A m : \A w \in Words :
           LeftBy(m, c, w) = IF w = a.at THEN a.word
                             ELSE IF w = b.at THEN b.word ELSE m[w]
      /\ \A w \in Words : PutAt(c, w) = IF w = a.at THEN {a.word}
                                        ELSE IF w = b.at THEN {b.word} ELSE {}
  BY <1>4, <1>5, TwoStores
<1> HIDE DEF c
<1> QED BY <1>2, <1>3, <1>6 DEF table

\* set_generic_record: the two words of the record and their check data.
LEMMA RecordStores ==
  ASSUME OneVersion, max_audits = N, NEW n \in Nat
  PROVE  LET c == set_generic_record(n)
             check == crc(<<Number(n), Number(n)>>)
         IN  /\ Tidy(c) /\ c # <<>>
             /\ \A mem : \A w \in Words :
                  LeftBy(mem, c, w) = IF w \in {Rec, Rec + 1} THEN Number(n)
                                      ELSE IF w = Rec + 2 THEN check ELSE mem[w]
             /\ \A w \in Words :
                  PutAt(c, w) = IF w \in {Rec, Rec + 1} THEN {Number(n)}
                                ELSE IF w = Rec + 2 THEN {check} ELSE {}
<1> DEFINE check == crc(<<Number(n), Number(n)>>)
           a == Write(Rec, Number(n))
           b == Write(Rec + 1, Number(n))
           d == Write(Rec + 2, check)
           c == <<a, b, d, Mark>>
<1>1. check \in Cells /\ Number(n) \in Data /\ Number(n) \in Cells
  BY NumberFacts, CrcFacts
<1>2. c = set_generic_record(n)
  <2>1. RecordAt = Rec
    BY Layout DEF RecordAt, AdjustmentsEnd, Rec, A
  <2> QED BY <2>1 DEF set_generic_record
<1> HIDE DEF check
<1>3. /\ a.at = Rec /\ a.word = Number(n) /\ b.at = Rec + 1 /\ b.word = Number(n)
      /\ d.at = Rec + 2 /\ d.word = check
  BY DEF Write
<1>4. a \in Stores \ {Mark} /\ b \in Stores \ {Mark} /\ d \in Stores \ {Mark}
  <2>1. {a.at, b.at, d.at} \subseteq Words /\ d.at \in CheckWords /\ 0 \notin Words
    <3>1. 0 \notin Words
      BY Layout
    <3>2. {Rec, Rec + 1, Rec + 2} \subseteq Words /\ Rec + 2 \in CheckWords
      BY Places
    <3> QED BY <1>3, <3>1, <3>2
  <2> QED BY <1>1, <2>1 DEF Stores, Write, Mark
<1>5. /\ Rec \in Nat /\ Rec > 2 /\ AuditAt(0) + 1 = 2
      /\ Mark \in Stores /\ Mark.at = 0 /\ 0 \notin Words
  BY Layout DEF Rec, AuditAt, Stores, Mark
<1> HIDE DEF a, b, d
<1>6. /\ c \in Seq(Stores) /\ Len(c) = 4 /\ DOMAIN c = {1, 2, 3, 4} /\ c # <<>>
      /\ c[1] = a /\ c[2] = b /\ c[3] = d /\ c[4] = Mark
  BY <1>4, <1>5
<1> HIDE DEF c
<1>7. Tidy(c)
  <2>1. \A j, k \in DOMAIN c : c[j].at = c[k].at => j = k
    BY <1>3, <1>5, <1>6
  <2>2. \A k \in DOMAIN c : c[k] = Mark <=> k = Len(c)
    BY <1>4, <1>6
  <2>3. \A k \in DOMAIN c : c[k].at # AuditAt(0) + 1
    BY <1>3, <1>5, <1>6
  <2> QED BY <1>6, <2>1, <2>2, <2>3 DEF Tidy
<1>8. ASSUME NEW w \in Words
      PROVE  PutAt(c, w) = IF w \in {Rec, Rec + 1} THEN {Number(n)}
                           ELSE IF w = Rec + 2 THEN {check} ELSE {}
  <2>1. {k \in DOMAIN c : c[k].at = w} =
          IF w = Rec THEN {1} ELSE IF w = Rec + 1 THEN {2} ELSE IF w = Rec + 2 THEN {3} ELSE {}
    BY <1>3, <1>5, <1>6
  <2> QED BY <1>3, <1>5, <1>6, <2>1 DEF PutAt
<1>9. ASSUME NEW mem, NEW w \in Words
      PROVE  LeftBy(mem, c, w) = IF w \in {Rec, Rec + 1} THEN Number(n)
                                 ELSE IF w = Rec + 2 THEN check ELSE mem[w]
  BY <1>5, <1>8, OnlyIs DEF LeftBy
<1> QED BY <1>2, <1>6, <1>7, <1>8, <1>9 DEF check

-----------------------------------------------------------------------------
(***************************************************************************)
(* The inductive invariant.                                                *)
(***************************************************************************)

Early == {"off", "test", "restore"}

\* The restore that a wrong marker asks for, which no start gets to: the check of all
\* audits before it leaves none that does not check.
MarkerStages ==
  {"clear", "mark", "all_defaults", "all_factory", "all_records", "all_reset"}

Callers == [at : (Early \cup SetupStages \cup {"ready"}) \ MarkerStages,
            item : Nat \ {0}, status : {0, 1}, stores : Seq(Stores)]

Typed ==
  /\ max_audits = N
  /\ cmos_ram \in Memory /\ cmos_shadow \in Memory
  /\ cmos_update \in BOOLEAN
  /\ cmos_caller \in Callers /\ Tidy(cmos_caller.stores)
  /\ given \in [audit : SUBSET Data, record : SUBSET Data]

\* Nothing is stored, and so nothing copied, before the first audit has been looked at;
\* the number of items a loop has looked at.
Begun ==
  /\ cmos_caller.at \in Early => cmos_caller.stores = <<>>
  /\ cmos_caller.at \in {"off", "test"} => ~cmos_update
  /\ cmos_caller.at = "audits" /\ cmos_caller.item = 1 => cmos_caller.stores = <<>> /\ ~cmos_update
  /\ cmos_caller.at \in SetupStages => cmos_caller.item <= Items(cmos_caller.at) + 1

\* What the start has looked at already.
AuditSeen(i) ==
  \/ cmos_caller.at = "audits" /\ i < cmos_caller.item - 1
  \/ cmos_caller.at \notin Early \cup {"audits"}
AdjustmentSeen(j) ==
  \/ cmos_caller.at = "adjustments" /\ j < cmos_caller.item
  \/ cmos_caller.at \notin Early \cup {"audits", "adjustments"}
RecordSeen ==
  \/ cmos_caller.at = "records" /\ cmos_caller.item = 2
  \/ cmos_caller.at \notin Early \cup {"audits", "adjustments", "defaults", "records"}

Ranged(j, w) == AsNumber(w) \in Ranges[j].min .. Ranges[j].max

\* When the call in progress has made its stores, what has been looked at checks.
Repaired ==
  /\ \A i \in 0 .. N - 1 : AuditSeen(i) => Left(2 * i + 2) = crc(<<Left(2 * i + 1)>>)
  /\ \A j \in 1 .. A : AdjustmentSeen(j) =>
       Left(TableEnd) = crc([k \in 1 .. A |-> Left(TableAt(k))]) /\ Ranged(j, Left(TableAt(j)))
  /\ RecordSeen => /\ Left(Rec) = Left(Rec + 1)
                   /\ Left(Rec + 2) = crc(<<Left(Rec), Left(Rec)>>)

\* What may be found in a word by a copy that is broken off anywhere.
May(w) == {cmos_ram[w], cmos_shadow[w]} \cup PutAt(cmos_caller.stores, w)

\* Check data are only of what was stored, as far as it can be found beside them.
RecordValues == {Number(n) : n \in 0 .. 2}
Origins ==
  /\ \A c \in May(2) : Len(c) = 2 => c[2] \in given.audit
  /\ \A c \in May(Rec + 2) :
       Len(c) = 3 => /\ c[2] = c[3] /\ c[2] \in RecordValues
                     /\ c[2] \in May(Rec) => c[2] \in given.record
  /\ AuditSeen(0) => Left(1) \in given.audit
  /\ RecordSeen => Left(Rec) \in given.record

\* Before a copy is made the check data of the first audit are of a count that is in its
\* word or about to be stored there.
Copyable ==
  cmos_caller.at \notin Early /\ cmos_update =>
    \A c \in {cmos_shadow[2]} \cup PutAt(cmos_caller.stores, 2) :
      Len(c) = 2 => c[2] \in {cmos_shadow[1]} \cup PutAt(cmos_caller.stores, 1)

\* What a good CMOS holds when the power has failed, and what the start does to it.
Good(mem) ==
  /\ \A i \in 0 .. N - 1 : mem[2 * i + 2] = crc(<<mem[2 * i + 1]>>)
  /\ mem[TableEnd] = crc([j \in 1 .. A |-> mem[TableAt(j)]])
  /\ \A j \in 1 .. A : Ranged(j, mem[TableAt(j)])
  /\ mem[Rec + 2] = crc(<<mem[Rec], mem[Rec + 1]>>)

Asked(j) == AsNumber(intact[TableAt(j)]) # 0
Unchanged == cmos_shadow = intact /\ cmos_caller.stores = <<>> /\ cmos_caller.status = 0
Looking == {"test", "restore", "audits", "adjustments", "records", "marker", "factory"}
Factory == {"factory_defaults", "factory_taken"}
Resetting == {"reset_records", "reset_taken"}

Kept ==
  intact # Damaged =>
    /\ intact \in Memory /\ Good(intact)
    /\ cmos_caller.at = "off" => cmos_ram = intact
    /\ cmos_caller.at \in Looking => Unchanged
    /\ cmos_caller.at # "defaults"
    /\ cmos_caller.at \in Factory => Asked(FACTORY_RESTORE_ADJ)
    /\ cmos_caller.at = "reset" => Asked(FACTORY_RESTORE_ADJ) \/ Unchanged
    /\ cmos_caller.at \in Resetting => Asked(FACTORY_RESTORE_ADJ) \/ Asked(HIGH_SCORE_RESET_ADJ)
    /\ cmos_caller.at \notin Early =>
         /\ \A i \in 0 .. N - 1 : Left(2 * i + 1) = intact[2 * i + 1]
         /\ \A j \in (1 .. A) \ {FACTORY_RESTORE_ADJ, HIGH_SCORE_RESET_ADJ} :
              Asked(FACTORY_RESTORE_ADJ) \/ Left(TableAt(j)) = intact[TableAt(j)]
         /\ \/ Asked(FACTORY_RESTORE_ADJ) \/ Asked(HIGH_SCORE_RESET_ADJ)
            \/ Left(Rec) = intact[Rec]

CmosInv == Typed /\ Begun /\ Repaired /\ Origins /\ Copyable /\ Kept

-----------------------------------------------------------------------------
(***************************************************************************)
(* What the model's looks at a memory say, in terms of the layout.         *)
(***************************************************************************)

\* The looks of the code are those of the invariant.
LEMMA Looks ==
  ASSUME OneVersion, max_audits = N, NEW mem
  PROVE  /\ Audits = 0 .. N - 1 /\ RecordAt = Rec
         /\ \A i : /\ AuditAt(i) = 2 * i + 1
                   /\ i \in 0 .. N - 1 => AuditAt(i) + 1 = 2 * i + 2
         /\ \A j : AdjustmentAt(j) = TableAt(j)
         /\ \A i \in 0 .. N - 1 :
              _check_audit(mem, i) <=> mem[2 * i + 2] = crc(<<mem[2 * i + 1]>>)
         /\ check_adjustments(mem) <=> mem[TableEnd] = crc([j \in 1 .. A |-> mem[TableAt(j)]])
         /\ \A j \in 1 .. A : InRange(mem, j) <=> Ranged(j, mem[TableAt(j)])
         /\ check_generic_record(mem) <=> mem[Rec + 2] = crc(<<mem[Rec], mem[Rec + 1]>>)
<1>1. Audits = 0 .. N - 1
  BY DEF Audits
<1>2. \A i : AuditAt(i) = 2 * i + 1
  BY DEF AuditAt
<1>3. \A i \in 0 .. N - 1 : AuditAt(i) + 1 = 2 * i + 2
  BY <1>2, Layout
<1>4. \A j : AdjustmentAt(j) = TableAt(j)
  BY DEF AdjustmentAt, TableAt
<1>5. AdjustmentsEnd = TableEnd /\ RecordAt = Rec
  BY Layout DEF RecordAt, AdjustmentsEnd, TableEnd, Rec, A
<1>6. AdjustmentTable(mem) = [j \in 1 .. A |-> mem[TableAt(j)]]
  BY <1>4, Layout DEF AdjustmentTable
<1>7. \A i \in 0 .. N - 1 :
        _check_audit(mem, i) <=> mem[2 * i + 2] = crc(<<mem[2 * i + 1]>>)
  BY <1>2, <1>3 DEF _check_audit
<1>8. check_adjustments(mem) <=> mem[TableEnd] = crc([j \in 1 .. A |-> mem[TableAt(j)]])
  BY <1>5, <1>6 DEF check_adjustments
<1>9. \A j \in 1 .. A : InRange(mem, j) <=> Ranged(j, mem[TableAt(j)])
  BY <1>4 DEF InRange, Ranged, get_adjustment
<1>10. check_generic_record(mem) <=> mem[Rec + 2] = crc(<<mem[Rec], mem[Rec + 1]>>)
  BY <1>5 DEF check_generic_record
<1> QED BY <1>1, <1>2, <1>3, <1>4, <1>5, <1>7, <1>8, <1>9, <1>10

\* A good memory is one in which everything checks and is in range.
LEMMA GoodIs ==
  ASSUME OneVersion, max_audits = N, NEW mem
  PROVE  Good(mem) <=> AllCheck(mem) /\ \A j \in Adjustments : InRange(mem, j)
BY Looks, Layout DEF Good, AllCheck

\* Nothing checks in a damaged memory.
LEMMA DamagedIsBad ==
  ASSUME OneVersion
  PROVE  Damaged \in Memory /\ ~Good(Damaged)
<1>1. Damaged \in Memory
  BY NumberFacts DEF Damaged, Memory
<1>2. Damaged[1] = Torn /\ Damaged[2] = Torn
  BY Layout DEF Damaged, Rec
<1>3. Damaged[2] # crc(<<Damaged[1]>>)
  BY <1>2, NumberFacts, CrcFacts
<1>4. 0 \in 0 .. N - 1 /\ 2 * 0 + 2 = 2 /\ 2 * 0 + 1 = 1
  BY Layout
<1>5. ~Good(Damaged)
  BY <1>3, <1>4 DEF Good
<1> QED BY <1>1, <1>5

\* The stages, and which follow each other.
LEMMA Stages ==
  /\ SetupStages = {"audits", "adjustments", "defaults", "records", "marker", "factory",
                    "factory_defaults", "factory_taken", "reset", "reset_records",
                    "reset_taken"} \cup MarkerStages
  /\ Following["audits"] = "adjustments" /\ Following["adjustments"] = "defaults"
  /\ Following["defaults"] = "records" /\ Following["records"] = "marker"
  /\ Following["marker"] = "clear" /\ Following["factory"] = "factory_defaults"
  /\ Following["factory_defaults"] = "factory_taken" /\ Following["factory_taken"] = "reset"
  /\ Following["reset"] = "reset_records" /\ Following["reset_records"] = "reset_taken"
  /\ Following["reset_taken"] = "ready"
BY DEF SetupStages, Following, MarkerStages

\* Nothing has been looked at before the start looks.
LEMMA NothingSeen ==
  ASSUME cmos_caller.at \in Early \/ (cmos_caller.at = "audits" /\ cmos_caller.item = 1)
  PROVE  (\A i \in Nat : ~AuditSeen(i)) /\ (\A j : ~AdjustmentSeen(j)) /\ ~RecordSeen
BY DEF AuditSeen, AdjustmentSeen, RecordSeen, Early

\* What the stores leave, while there are none.
LEMMA LeftNow ==
  ASSUME cmos_caller.stores = <<>>
  PROVE  \A w : Left(w) = cmos_shadow[w] /\ PutAt(cmos_caller.stores, w) = {}
BY NoStores DEF Left

\* Nothing new has been looked at, and what is left is the same.
LEMMA RepairedStays ==
  ASSUME OneVersion, Repaired,
         \A i \in 0 .. N - 1 : AuditSeen(i)' => AuditSeen(i),
         \A j \in 1 .. A : AdjustmentSeen(j)' => AdjustmentSeen(j),
         RecordSeen' => RecordSeen,
         \A w \in Words : Left(w)' = Left(w)
  PROVE  Repaired'
<1>1. ASSUME NEW i \in 0 .. N - 1, AuditSeen(i)'
      PROVE  (Left(2 * i + 2) = crc(<<Left(2 * i + 1)>>))'
  <2>1. 2 * i + 2 \in Words /\ 2 * i + 1 \in Words
    BY Places
  <2>2. Left(2 * i + 2) = crc(<<Left(2 * i + 1)>>)
    BY <1>1 DEF Repaired
  <2> QED BY <2>1, <2>2
<1>2. ASSUME NEW j \in 1 .. A, AdjustmentSeen(j)'
      PROVE  (/\ Left(TableEnd) = crc([k \in 1 .. A |-> Left(TableAt(k))])
              /\ Ranged(j, Left(TableAt(j))))'
  <2>1. Left(TableEnd) = crc([k \in 1 .. A |-> Left(TableAt(k))]) /\ Ranged(j, Left(TableAt(j)))
    BY <1>2 DEF Repaired
  <2>2. TableEnd \in Words /\ \A k \in 1 .. A : TableAt(k) \in Words
    BY Places
  <2>3. [k \in 1 .. A |-> Left(TableAt(k))'] = [k \in 1 .. A |-> Left(TableAt(k))]
    BY <2>2
  <2>4. Left(TableEnd)' = Left(TableEnd) /\ Left(TableAt(j))' = Left(TableAt(j))
    BY <2>2
  <2> QED BY <2>1, <2>3, <2>4 DEF Ranged
<1>3. ASSUME RecordSeen'
      PROVE  (/\ Left(Rec) = Left(Rec + 1)
              /\ Left(Rec + 2) = crc(<<Left(Rec), Left(Rec)>>))'
  <2>1. Rec \in Words /\ Rec + 1 \in Words /\ Rec + 2 \in Words
    BY Places
  <2>2. Left(Rec) = Left(Rec + 1) /\ Left(Rec + 2) = crc(<<Left(Rec), Left(Rec)>>)
    BY <1>3 DEF Repaired
  <2> QED BY <2>1, <2>2
<1> QED BY <1>1, <1>2, <1>3 DEF Repaired

-----------------------------------------------------------------------------
(***************************************************************************)
(* A call begins.                                                          *)
(***************************************************************************)

\* A call's check data are of what it stores beside them.
Honest(c) ==
  /\ \A x \in PutAt(c, 2) : Len(x) = 2 => x[2] \in PutAt(c, 1)
  /\ \A x \in PutAt(c, Rec + 2) :
       Len(x) = 3 => x[2] = x[3] /\ x[2] \in RecordValues /\ x[2] \in PutAt(c, Rec)

\* Nothing is stored where these two words are not.
LEMMA HonestElsewhere ==
  ASSUME NEW c, PutAt(c, 2) = {}, PutAt(c, Rec + 2) = {}
  PROVE  Honest(c)
BY DEF Honest

\* All calls are honest, given a record the game may store.
LEMMA CallsHonest ==
  ASSUME OneVersion, max_audits = N
  PROVE  /\ Honest(<<>>)
         /\ \A i \in 0 .. N - 1, n \in Nat : Honest(set_audit(i, n))
         /\ \A mem \in Memory, j \in 1 .. A, n \in Nat : Honest(set_adjustment(mem, j, n))
         /\ \A n \in 0 .. 2 : Honest(set_generic_record(n))
<1>1. /\ 1 \in Words /\ 2 \in Words /\ Rec \in Words /\ Rec + 2 \in Words
      /\ N \in Nat /\ A \in Nat /\ N >= 1 /\ A >= 2
  BY Layout, Places DEF Rec
<1>2. ASSUME NEW i \in 0 .. N - 1, NEW n \in Nat
      PROVE  Honest(set_audit(i, n))
  <2> DEFINE c == set_audit(i, n)
  <2>1. \A w \in Words : PutAt(c, w) = IF w = 2 * i + 1 THEN {Number(n)}
                                       ELSE IF w = 2 * i + 2 THEN {crc(<<Number(n)>>)} ELSE {}
    BY AuditStores
  <2> HIDE DEF c
  <2>2. PutAt(c, Rec + 2) = {}
    BY <1>1, <2>1 DEF Rec
  <2>3. CASE i = 0
    <3>1. PutAt(c, 2) = {crc(<<Number(n)>>)} /\ PutAt(c, 1) = {Number(n)}
      BY <1>1, <2>1, <2>3
    <3> QED BY <2>2, <3>1, NumberFacts, CrcFacts DEF Honest, c
  <2>4. CASE i # 0
    <3>1. PutAt(c, 2) = {}
      BY <1>1, <2>1, <2>4
    <3> QED BY <2>2, <3>1, HonestElsewhere DEF c
  <2> QED BY <2>3, <2>4
<1>3. ASSUME NEW mem \in Memory, NEW j \in 1 .. A, NEW n \in Nat
      PROVE  Honest(set_adjustment(mem, j, n))
  <2> DEFINE c == set_adjustment(mem, j, n)
  <2>1. \A w \in Words : w \notin {TableAt(j), TableEnd} => PutAt(c, w) = {}
    BY AdjustmentStores
  <2>2. 2 \notin {TableAt(j), TableEnd} /\ Rec + 2 \notin {TableAt(j), TableEnd}
    BY <1>1 DEF TableAt, TableEnd, Rec
  <2> QED BY <1>1, <2>1, <2>2, HonestElsewhere
<1>4. ASSUME NEW n \in 0 .. 2
      PROVE  Honest(set_generic_record(n))
  <2> DEFINE c == set_generic_record(n)
  <2>1. \A w \in Words : PutAt(c, w) = IF w \in {Rec, Rec + 1} THEN {Number(n)}
                                       ELSE IF w = Rec + 2 THEN {crc(<<Number(n), Number(n)>>)}
                                       ELSE {}
    BY RecordStores
  <2> HIDE DEF c
  <2>2. PutAt(c, 2) = {}
    BY <1>1, <2>1 DEF Rec
  <2>3. PutAt(c, Rec) = {Number(n)} /\ PutAt(c, Rec + 2) = {crc(<<Number(n), Number(n)>>)}
    BY <1>1, <2>1 DEF Rec
  <2>4. Number(n) \in RecordValues
    BY DEF RecordValues
  <2> QED BY <2>2, <2>3, <2>4, NumberFacts, CrcFacts DEF Honest, c
<1>5. Honest(<<>>)
  BY NoStores, HonestElsewhere
<1> QED BY <1>2, <1>3, <1>4, <1>5

\* Data at the places of data.
LEMMA PutData ==
  ASSUME NEW c, Tidy(c), NEW w \in Words \ CheckWords
  PROVE  PutAt(c, w) \subseteq Data
<1> SUFFICES ASSUME NEW k \in DOMAIN c, c[k].at = w
             PROVE  c[k].word \in Data
  BY DEF PutAt
<1>1. c[k] \in Stores
  BY DEF Tidy
<1>2. c[k] # Mark \/ c[k].word \in Data
  BY NumberFacts DEF Mark
<1> QED BY <1>1, <1>2 DEF Stores

\* What a call leaves of the types, of the origins, and of what may be copied.
LEMMA CallKeeps ==
  ASSUME OneVersion, CmosInv, cmos_caller.at \notin Early, cmos_caller.stores = <<>>,
         NEW c, Tidy(c), Honest(c), cmos_caller'.stores = c, given' = Giving(c),
         cmos_caller'.at = cmos_caller.at,
         UNCHANGED <<cmos_ram, cmos_shadow, cmos_update, max_audits>>
  PROVE  /\ given' \in [audit : SUBSET Data, record : SUBSET Data]
         /\ given.audit \subseteq given'.audit /\ given.record \subseteq given'.record
         /\ PutAt(c, 1) \subseteq given'.audit /\ PutAt(c, Rec) \subseteq given'.record
         /\ \A x \in May(2)' : Len(x) = 2 => x[2] \in given'.audit
         /\ \A x \in May(Rec + 2)' :
              Len(x) = 3 => /\ x[2] = x[3] /\ x[2] \in RecordValues
                            /\ x[2] \in May(Rec)' => x[2] \in given'.record
         /\ Copyable'
<1>1. given' = [audit |-> given.audit \cup PutAt(c, 1), record |-> given.record \cup PutAt(c, Rec)]
  <2>1. AuditAt(0) = 1
    BY DEF AuditAt
  <2>2. RecordAt = Rec
    BY Looks DEF CmosInv, Typed
  <2> QED BY <2>1, <2>2 DEF Giving
<1>2. /\ 1 \in Words \ CheckWords /\ Rec \in Words \ CheckWords
      /\ 2 \in Words /\ Rec + 2 \in Words
  <2>1. 0 \in 0 .. N - 1 /\ 2 * 0 + 1 = 1 /\ 2 * 0 + 2 = 2
    BY Layout
  <2> QED BY <2>1, Places
<1>3. given' \in [audit : SUBSET Data, record : SUBSET Data]
  BY <1>1, <1>2, PutData DEF CmosInv, Typed
<1>4. \A w : May(w)' = May(w) \cup PutAt(c, w)
  BY LeftNow DEF May
<1>5. \A x \in May(2)' : Len(x) = 2 => x[2] \in given'.audit
  BY <1>1, <1>4 DEF CmosInv, Origins, Honest
<1>6. ASSUME NEW x \in May(Rec + 2)', Len(x) = 3
      PROVE  /\ x[2] = x[3] /\ x[2] \in RecordValues
             /\ x[2] \in May(Rec)' => x[2] \in given'.record
  BY <1>1, <1>4, <1>6 DEF CmosInv, Origins, Honest
<1>7. Copyable'
  <2> SUFFICES ASSUME cmos_update, NEW x \in {cmos_shadow[2]} \cup PutAt(c, 2), Len(x) = 2
               PROVE  x[2] \in {cmos_shadow[1]} \cup PutAt(c, 1)
    BY DEF Copyable
  <2>1. CASE x \in PutAt(c, 2)
    BY <2>1 DEF Honest
  <2>2. CASE x = cmos_shadow[2]
    <3>1. x[2] \in {cmos_shadow[1]} \cup PutAt(cmos_caller.stores, 1)
      BY <2>2 DEF CmosInv, Copyable
    <3> QED BY <3>1, LeftNow
  <2> QED BY <2>1, <2>2
<1> QED BY <1>1, <1>3, <1>5, <1>6, <1>7

\* set_audit repairs the audit it stores.
LEMMA AuditRepairs ==
  ASSUME OneVersion, Repaired, NEW i \in 0 .. N - 1, NEW n \in Nat,
         cmos_caller.stores = <<>>, cmos_caller'.stores = set_audit(i, n),
         UNCHANGED cmos_shadow,
         \A k \in 0 .. N - 1 : AuditSeen(k)' => AuditSeen(k) \/ k = i,
         \A j \in 1 .. A : AdjustmentSeen(j)' => AdjustmentSeen(j),
         RecordSeen' => RecordSeen
  PROVE  /\ Repaired'
         /\ Left(2 * i + 1)' = Number(n)
         /\ \A w \in Words : w \notin {2 * i + 1, 2 * i + 2} => Left(w)' = Left(w)
<1>1. \A w \in Words : Left(w)' = IF w = 2 * i + 1 THEN Number(n)
                                  ELSE IF w = 2 * i + 2 THEN crc(<<Number(n)>>)
                                  ELSE cmos_shadow[w]
  BY AuditStores DEF Left
<1>2. \A w \in Words : w \notin {2 * i + 1, 2 * i + 2} => Left(w)' = Left(w)
  BY <1>1, LeftNow
<1>3. i \in Nat /\ N \in Nat /\ A \in Nat
  BY Layout
<1>4. Left(2 * i + 1)' = Number(n) /\ Left(2 * i + 2)' = crc(<<Number(n)>>)
  <2>1. 2 * i + 1 \in Words /\ 2 * i + 2 \in Words /\ 2 * i + 2 # 2 * i + 1
    BY <1>3, Places
  <2> QED BY <1>1, <2>1
<1>5. ASSUME NEW k \in 0 .. N - 1, AuditSeen(k)'
      PROVE  (Left(2 * k + 2) = crc(<<Left(2 * k + 1)>>))'
  <2>1. CASE k = i
    BY <1>4, <2>1
  <2>2. CASE k # i
    <3>1. /\ 2 * k + 1 \in Words /\ 2 * k + 2 \in Words
          /\ 2 * k + 1 \notin {2 * i + 1, 2 * i + 2} /\ 2 * k + 2 \notin {2 * i + 1, 2 * i + 2}
      BY <1>3, <2>2, Places
    <3>2. Left(2 * k + 1)' = Left(2 * k + 1) /\ Left(2 * k + 2)' = Left(2 * k + 2)
      BY <1>2, <3>1
    <3> QED BY <1>5, <2>2, <3>2 DEF Repaired
  <2> QED BY <2>1, <2>2
<1>6. /\ \A j \in 1 .. A : Left(TableAt(j))' = Left(TableAt(j))
      /\ Left(TableEnd)' = Left(TableEnd)
      /\ \A w \in {Rec, Rec + 1, Rec + 2} : Left(w)' = Left(w)
  <2>1. \A j \in 1 .. A : TableAt(j) \in Words /\ TableAt(j) \notin {2 * i + 1, 2 * i + 2}
    <3>1. \A j \in 1 .. A : TableAt(j) \in Words
      BY Places
    <3>2. \A j \in 1 .. A : TableAt(j) > 2 * i + 2
      BY <1>3 DEF TableAt
    <3>3. \A j \in 1 .. A : TableAt(j) \in Int
      BY <1>3 DEF TableAt
    <3> QED BY <1>3, <3>1, <3>2, <3>3
  <2>2. TableEnd \in Words /\ TableEnd \notin {2 * i + 1, 2 * i + 2}
    BY <1>3, Places DEF TableEnd
  <2>3. \A w \in {Rec, Rec + 1, Rec + 2} : w \in Words /\ w \notin {2 * i + 1, 2 * i + 2}
    BY <1>3, Places DEF Rec
  <2> QED BY <1>2, <2>1, <2>2, <2>3
<1>7. [j \in 1 .. A |-> Left(TableAt(j))'] = [j \in 1 .. A |-> Left(TableAt(j))]
  BY <1>6
<1>8. \A j \in 1 .. A : AdjustmentSeen(j)' =>
        (Left(TableEnd) = crc([k \in 1 .. A |-> Left(TableAt(k))]) /\ Ranged(j, Left(TableAt(j))))'
  BY <1>6, <1>7 DEF Repaired, Ranged
<1>9. RecordSeen' => (/\ Left(Rec) = Left(Rec + 1)
                      /\ Left(Rec + 2) = crc(<<Left(Rec), Left(Rec)>>))'
  BY <1>6 DEF Repaired
<1>10. Repaired'
  BY <1>5, <1>8, <1>9 DEF Repaired
<1> QED BY <1>2, <1>4, <1>10

\* set_adjustment with a value in range repairs the table it stores in.
LEMMA AdjustmentRepairs ==
  ASSUME OneVersion, max_audits = N, cmos_shadow \in Memory, Repaired, NEW j \in 1 .. A,
         NEW n \in Ranges[j].min .. Ranges[j].max,
         cmos_caller.stores = <<>>, cmos_caller'.stores = set_adjustment(cmos_shadow, j, n),
         UNCHANGED cmos_shadow,
         \A i \in 0 .. N - 1 : AuditSeen(i)' => AuditSeen(i),
         \A k \in 1 .. A : AdjustmentSeen(k)' => AdjustmentSeen(k) \/ k = j,
         RecordSeen' => RecordSeen
  PROVE  /\ Repaired'
         /\ \A w \in Words : w \notin {TableAt(j), TableEnd} => Left(w)' = Left(w)
<1>1. n \in Nat
  BY Layout
<1> DEFINE table == [[k \in 1 .. A |-> cmos_shadow[TableAt(k)]] EXCEPT ![j] = Number(n)]
<1>2. \A w \in Words : Left(w)' = IF w = TableAt(j) THEN Number(n)
                                  ELSE IF w = TableEnd THEN crc(table) ELSE cmos_shadow[w]
  <2>1. \A m : \A w \in Words :
          LeftBy(m, set_adjustment(cmos_shadow, j, n), w) =
            IF w = TableAt(j) THEN Number(n) ELSE IF w = TableEnd THEN crc(table) ELSE m[w]
    BY <1>1, AdjustmentStores
  <2> HIDE DEF table
  <2> QED BY <2>1 DEF Left
<1>3. N \in Nat /\ A \in Nat
  BY Layout
<1>4. \A k \in 1 .. A : Left(TableAt(k))' = table[k]
  <2>1. \A k \in 1 .. A : TableAt(k) \in Words /\ TableAt(k) # TableEnd
                          /\ (TableAt(k) = TableAt(j) => k = j)
    <3>1. \A k \in 1 .. A : TableAt(k) \in Words
      BY Places
    <3>2. \A k \in 1 .. A : TableAt(k) # TableEnd /\ (TableAt(k) = TableAt(j) => k = j)
      BY <1>3 DEF TableAt, TableEnd
    <3> QED BY <3>1, <3>2
  <2> QED BY <1>2, <2>1
<1>5. [k \in 1 .. A |-> Left(TableAt(k))'] = table
  BY <1>4
<1> HIDE DEF table
<1>6. \A w \in Words : w \notin {TableAt(j), TableEnd} => Left(w)' = Left(w)
  BY <1>2, LeftNow
<1>7. Left(TableEnd)' = crc(table)
  <2>1. TableEnd \in Words /\ TableEnd # TableAt(j)
    BY <1>3, Places DEF TableAt, TableEnd
  <2> QED BY <1>2, <2>1
<1>8. ASSUME NEW k \in 1 .. A, AdjustmentSeen(k)'
      PROVE  Ranged(k, Left(TableAt(k)))'
  <2>1. CASE k = j
    <3>1. Left(TableAt(k))' = Number(n)
      BY <1>2, <2>1, Places
    <3> QED BY <1>1, <2>1, <3>1, NumberFacts DEF Ranged
  <2>2. CASE k # j
    <3>1. Left(TableAt(k))' = Left(TableAt(k))
      <4>1. TableAt(k) \in Words
        BY Places
      <4>2. TableAt(k) \notin {TableAt(j), TableEnd}
        BY <1>3, <2>2 DEF TableAt, TableEnd
      <4> QED BY <1>6, <4>1, <4>2
    <3>2. Ranged(k, Left(TableAt(k)))
      BY <1>8, <2>2 DEF Repaired
    <3> QED BY <3>1, <3>2 DEF Ranged
  <2> QED BY <2>1, <2>2
<1>9. /\ \A i \in 0 .. N - 1 : /\ Left(2 * i + 1)' = Left(2 * i + 1)
                               /\ Left(2 * i + 2)' = Left(2 * i + 2)
      /\ \A w \in {Rec, Rec + 1, Rec + 2} : Left(w)' = Left(w)
  <2>1. ASSUME NEW i \in 0 .. N - 1
        PROVE  /\ 2 * i + 1 \in Words /\ 2 * i + 2 \in Words
               /\ 2 * i + 1 \notin {TableAt(j), TableEnd} /\ 2 * i + 2 \notin {TableAt(j), TableEnd}
    BY <1>3, Places DEF TableAt, TableEnd
  <2>2. \A w \in {Rec, Rec + 1, Rec + 2} : w \in Words /\ w \notin {TableAt(j), TableEnd}
    BY <1>3, Places DEF TableAt, TableEnd, Rec
  <2> QED BY <1>6, <2>1, <2>2
<1>10. Repaired'
  BY <1>5, <1>7, <1>8, <1>9 DEF Repaired
<1> QED BY <1>6, <1>10

\* set_generic_record repairs the record.
LEMMA RecordRepairs ==
  ASSUME OneVersion, max_audits = N, Repaired, NEW n \in Nat,
         cmos_caller.stores = <<>>, cmos_caller'.stores = set_generic_record(n),
         UNCHANGED cmos_shadow,
         \A i \in 0 .. N - 1 : AuditSeen(i)' => AuditSeen(i),
         \A j \in 1 .. A : AdjustmentSeen(j)' => AdjustmentSeen(j)
  PROVE  /\ Repaired'
         /\ Left(Rec)' = Number(n)
         /\ \A w \in Words : w \notin {Rec, Rec + 1, Rec + 2} => Left(w)' = Left(w)
<1>1. \A w \in Words : Left(w)' = IF w \in {Rec, Rec + 1} THEN Number(n)
                                  ELSE IF w = Rec + 2 THEN crc(<<Number(n), Number(n)>>)
                                  ELSE cmos_shadow[w]
  BY RecordStores DEF Left
<1>2. \A w \in Words : w \notin {Rec, Rec + 1, Rec + 2} => Left(w)' = Left(w)
  BY <1>1, LeftNow
<1>3. N \in Nat /\ A \in Nat
  BY Layout
<1>4. /\ Left(Rec)' = Number(n) /\ Left(Rec + 1)' = Number(n)
      /\ Left(Rec + 2)' = crc(<<Number(n), Number(n)>>)
  <2>1. Rec \in Words /\ Rec + 1 \in Words /\ Rec + 2 \in Words /\ Rec + 2 \notin {Rec, Rec + 1}
    BY <1>3, Places DEF Rec
  <2> QED BY <1>1, <2>1
<1>5. /\ \A i \in 0 .. N - 1 : /\ Left(2 * i + 1)' = Left(2 * i + 1)
                               /\ Left(2 * i + 2)' = Left(2 * i + 2)
      /\ \A j \in 1 .. A : Left(TableAt(j))' = Left(TableAt(j))
      /\ Left(TableEnd)' = Left(TableEnd)
  <2>1. ASSUME NEW i \in 0 .. N - 1
        PROVE  /\ 2 * i + 1 \in Words /\ 2 * i + 2 \in Words
               /\ 2 * i + 1 \notin {Rec, Rec + 1, Rec + 2}
               /\ 2 * i + 2 \notin {Rec, Rec + 1, Rec + 2}
    BY <1>3, Places DEF Rec
  <2>2. \A j \in 1 .. A : TableAt(j) \in Words /\ TableAt(j) \notin {Rec, Rec + 1, Rec + 2}
    BY <1>3, Places DEF TableAt, Rec
  <2>3. TableEnd \in Words /\ TableEnd \notin {Rec, Rec + 1, Rec + 2}
    BY <1>3, Places DEF TableEnd, Rec
  <2> QED BY <1>2, <2>1, <2>2, <2>3
<1>6. [j \in 1 .. A |-> Left(TableAt(j))'] = [j \in 1 .. A |-> Left(TableAt(j))]
  BY <1>5
<1>7. \A j \in 1 .. A : AdjustmentSeen(j)' =>
        (Left(TableEnd) = crc([k \in 1 .. A |-> Left(TableAt(k))]) /\ Ranged(j, Left(TableAt(j))))'
  BY <1>5, <1>6 DEF Repaired, Ranged
<1>8. Repaired'
  BY <1>4, <1>5, <1>7 DEF Repaired
<1> QED BY <1>2, <1>4, <1>8

-----------------------------------------------------------------------------
(***************************************************************************)
(* The steps of setup_cmos2.                                               *)
(***************************************************************************)

\* The two adjustments that ask for a reset may be taken back, and defaults are in range.
LEMMA DefaultsInRange ==
  ASSUME OneVersion
  PROVE  /\ \A j \in 1 .. A : Ranges[j].default_val \in Ranges[j].min .. Ranges[j].max
         /\ \A j \in {FACTORY_RESTORE_ADJ, HIGH_SCORE_RESET_ADJ} :
              j \in 1 .. A /\ 0 \in Ranges[j].min .. Ranges[j].max
BY Layout

\* What an item of a loop does, by its stage.
LEMMA ItemKinds ==
  ASSUME OneVersion, CmosInv, NextItem
  PROVE  LET k == cmos_caller.item
             c == cmos_caller'.stores
         IN  /\ cmos_caller.stores = <<>> /\ given' = Giving(c)
             /\ cmos_caller'.at = cmos_caller.at /\ cmos_caller'.item = k + 1
             /\ cmos_caller'.status = IF c = <<>> THEN cmos_caller.status ELSE 1
             /\ \/ /\ cmos_caller.at = "audits" /\ k - 1 \in 0 .. N - 1
                   /\ c = IF _check_audit(cmos_shadow, k - 1) THEN <<>> ELSE set_audit(k - 1, 0)
                \/ /\ cmos_caller.at = "adjustments" /\ k \in 1 .. A
                   /\ c = IF Bogus(k) THEN SetDefault(k) ELSE <<>>
                \/ /\ cmos_caller.at \in {"defaults", "factory_defaults"} /\ k \in 1 .. A
                   /\ c = SetDefault(k)
                \/ /\ cmos_caller.at = "records" /\ k = 1
                   /\ c = IF check_generic_record(cmos_shadow) THEN <<>> ELSE set_generic_record(0)
                \/ cmos_caller.at = "factory_taken" /\ c = TakeBack(FACTORY_RESTORE_ADJ)
                \/ cmos_caller.at = "reset_records" /\ c = set_generic_record(0)
                \/ cmos_caller.at = "reset_taken" /\ c = TakeBack(HIGH_SCORE_RESET_ADJ)
<1> DEFINE k == cmos_caller.item
           c == cmos_caller'.stores
<1>1. /\ cmos_caller \in Callers /\ max_audits = N
      /\ cmos_caller.at \in SetupStages \ MarkerStages /\ k \in Nat \ {0}
  BY DEF CmosInv, Typed, NextItem, Callers
<1>2. /\ cmos_caller.stores = <<>> /\ k <= Items(cmos_caller.at)
      /\ c = StoresOf(cmos_caller.at, k) /\ given' = Giving(c)
      /\ cmos_caller'.at = cmos_caller.at /\ cmos_caller'.item = k + 1
      /\ cmos_caller'.status = IF c = <<>> THEN cmos_caller.status ELSE 1
  BY <1>1 DEF NextItem, Callers
<1>3. /\ N \in Nat /\ A \in Nat /\ Len(Ranges) = A
  BY Layout DEF A
<1> HIDE DEF c, k
<1>4. CASE cmos_caller.at = "audits"
  <2>1. k - 1 \in 0 .. N - 1
    <3>1. Items("audits") = N
      BY <1>1 DEF Items, Defaults
    <3>2. k <= N
      BY <1>2, <1>4, <3>1
    <3> QED BY <1>1, <1>3, <3>2
  <2>2. c = IF _check_audit(cmos_shadow, k - 1) THEN <<>> ELSE set_audit(k - 1, 0)
    <3>1. StoresOf("audits", k) = IF _check_audit(cmos_shadow, k - 1) THEN <<>>
                                  ELSE set_audit(k - 1, 0)
      BY DEF StoresOf, Defaults
    <3> QED BY <1>2, <1>4, <3>1
  <2> QED BY <1>2, <1>4, <2>1, <2>2 DEF c, k
<1>5. CASE cmos_caller.at = "adjustments"
  <2>1. k \in 1 .. A
    BY <1>1, <1>2, <1>3, <1>5 DEF Items
  <2>2. c = IF Bogus(k) THEN SetDefault(k) ELSE <<>>
    <3>1. StoresOf("adjustments", k) = IF Bogus(k) THEN SetDefault(k) ELSE <<>>
      BY DEF StoresOf, Defaults
    <3> QED BY <1>2, <1>5, <3>1
  <2> QED BY <1>2, <1>5, <2>1, <2>2 DEF c, k
<1>6. CASE cmos_caller.at \in {"defaults", "factory_defaults"}
  <2>1. k \in 1 .. A
    BY <1>1, <1>2, <1>3, <1>6 DEF Items, Defaults
  <2>2. c = SetDefault(k)
    BY <1>2, <1>6 DEF StoresOf, Defaults
  <2> QED BY <1>2, <1>6, <2>1, <2>2 DEF c, k
<1>7. CASE cmos_caller.at = "records"
  <2>1. k = 1
    BY <1>1, <1>2, <1>3, <1>7 DEF Items, Defaults
  <2>2. c = IF check_generic_record(cmos_shadow) THEN <<>> ELSE set_generic_record(0)
    BY <1>2, <1>7 DEF StoresOf, Defaults
  <2> QED BY <1>2, <1>7, <2>1, <2>2 DEF c, k
<1>8. CASE cmos_caller.at = "factory_taken"
  <2>1. c = TakeBack(FACTORY_RESTORE_ADJ)
    BY <1>2, <1>8 DEF StoresOf, Defaults
  <2> QED BY <1>2, <1>8, <2>1 DEF c, k
<1>9. CASE cmos_caller.at = "reset_records"
  <2>1. c = set_generic_record(0)
    BY <1>2, <1>9 DEF StoresOf, Defaults
  <2> QED BY <1>2, <1>9, <2>1 DEF c, k
<1>10. CASE cmos_caller.at = "reset_taken"
  <2>1. c = TakeBack(HIGH_SCORE_RESET_ADJ)
    BY <1>2, <1>10 DEF StoresOf, Defaults
  <2> QED BY <1>2, <1>10, <2>1 DEF c, k
<1>11. CASE cmos_caller.at \in {"marker", "factory", "reset"}
  <2>1. Items(cmos_caller.at) = 0
    BY <1>11 DEF Items, Defaults
  <2> QED BY <1>1, <1>2, <2>1
<1> QED BY <1>1, <1>4, <1>5, <1>6, <1>7, <1>8, <1>9, <1>10, <1>11, Stages

\* An item is tidy and honest, repairs what it looks at, and leaves there what was stored.
LEMMA ItemRepairs ==
  ASSUME OneVersion, CmosInv, NextItem
  PROVE  /\ Tidy(cmos_caller'.stores) /\ Honest(cmos_caller'.stores)
         /\ Repaired'
         /\ AuditSeen(0)' => Left(1)' \in given'.audit
         /\ RecordSeen' => Left(Rec)' \in given'.record
<1> DEFINE k == cmos_caller.item
           c == cmos_caller'.stores
<1>1. /\ cmos_caller.stores = <<>> /\ cmos_caller'.at = cmos_caller.at
      /\ cmos_caller'.item = k + 1 /\ UNCHANGED cmos_shadow /\ k \in Nat \ {0}
      /\ max_audits = N /\ cmos_shadow \in Memory /\ Repaired
  BY ItemKinds DEF CmosInv, Typed, Callers, NextItem
<1>2. AuditAt(0) = 1 /\ RecordAt = Rec
  <2>1. AuditAt(0) = 1
    BY DEF AuditAt
  <2>2. RecordAt = Rec
    BY <1>1, Looks
  <2> QED BY <2>1, <2>2
<1>3. /\ given'.audit = given.audit \cup PutAt(c, 1)
      /\ given'.record = given.record \cup PutAt(c, Rec)
  BY <1>2, ItemKinds DEF Giving
<1>4. /\ 0 \in 0 .. N - 1 /\ 1 \in Words /\ 2 \in Words /\ 2 * 0 + 1 = 1 /\ 2 * 0 + 2 = 2
      /\ {Rec, Rec + 1, Rec + 2} \subseteq Words /\ Rec \in Nat /\ Rec > 2 /\ N \in Nat /\ A \in Nat
  <2>1. 0 \in 0 .. N - 1 /\ N \in Nat /\ A \in Nat /\ 2 * 0 + 1 = 1 /\ 2 * 0 + 2 = 2
    BY Layout
  <2>2. 1 \in Words /\ 2 \in Words
    BY <2>1, Places
  <2>3. {Rec, Rec + 1, Rec + 2} \subseteq Words
    BY Places
  <2>4. Rec \in Nat /\ Rec > 2
    BY <2>1 DEF Rec
  <2> QED BY <2>1, <2>2, <2>3, <2>4
<1>5. /\ cmos_shadow[2] \in May(2) /\ cmos_shadow[Rec] \in May(Rec)
      /\ cmos_shadow[Rec + 2] \in May(Rec + 2)
  BY DEF May
<1>6. \A w : Left(w) = cmos_shadow[w]
  BY <1>1, LeftNow
<1>7. \A w : Left(w)' = IF PutAt(c, w) = {} THEN cmos_shadow[w] ELSE Only(PutAt(c, w))
  BY <1>1 DEF Left, LeftBy
<1>8. /\ AuditSeen(0) => Left(1)' \in given'.audit
      /\ RecordSeen => Left(Rec)' \in given'.record
  BY <1>3, <1>6, <1>7, OnlyIs DEF CmosInv, Origins
<1>9. /\ Tidy(<<>>) /\ Honest(<<>>)
      /\ c = <<>> => \A w : Left(w)' = Left(w)
  <2>1. c = <<>> => \A w : Left(w)' = Left(w)
    BY <1>6, <1>7, NoStores
  <2> QED BY <1>1, <2>1, NoStores, CallsHonest
<1> HIDE DEF c, k
<1>10. CASE /\ cmos_caller.at = "audits" /\ k - 1 \in 0 .. N - 1
            /\ c = IF _check_audit(cmos_shadow, k - 1) THEN <<>> ELSE set_audit(k - 1, 0)
  <2>1. /\ \A i \in 0 .. N - 1 : AuditSeen(i)' => AuditSeen(i) \/ i = k - 1
        /\ \A j : ~AdjustmentSeen(j)' /\ ~RecordSeen'
    BY <1>1, <1>10 DEF AuditSeen, AdjustmentSeen, RecordSeen, k
  <2>2. CASE _check_audit(cmos_shadow, k - 1)
    <3>1. c = <<>> /\ \A w : Left(w)' = Left(w)
      BY <1>9, <1>10, <2>2
    <3>2. Left(2 * (k - 1) + 2) = crc(<<Left(2 * (k - 1) + 1)>>)
      BY <1>1, <1>6, <1>10, <2>2, Looks
    <3>3. Repaired'
      BY <1>1, <2>1, <3>1, <3>2 DEF Repaired
    <3>4. k - 1 = 0 => Left(1) \in given.audit
      <4> SUFFICES ASSUME k - 1 = 0 PROVE cmos_shadow[1] \in given.audit
        BY <1>6
      <4>1. cmos_shadow[2] = crc(<<cmos_shadow[1]>>)
        BY <1>4, <1>6, <3>2
      <4>2. cmos_shadow[1] \in Data
        BY <1>1, <1>4, Places DEF Memory
      <4>3. Len(cmos_shadow[2]) = 2 /\ cmos_shadow[2][2] = cmos_shadow[1]
        BY <4>1, <4>2, CrcFacts
      <4> QED BY <1>5, <4>3 DEF CmosInv, Origins
    <3>5. AuditSeen(0)' => Left(1)' \in given'.audit
      BY <1>3, <1>4, <1>8, <2>1, <3>1, <3>4
    <3> QED BY <1>9, <2>1, <3>1, <3>3, <3>5 DEF c
  <2>3. CASE ~_check_audit(cmos_shadow, k - 1)
    <3>1. c = set_audit(k - 1, 0)
      BY <1>10, <2>3
    <3>2. Tidy(c) /\ Honest(c)
      <4>1. 0 \in Nat
        OBVIOUS
      <4>2. Tidy(c)
        BY <1>10, <3>1, <4>1, AuditStores
      <4> QED BY <1>1, <1>10, <3>1, <4>1, <4>2, CallsHonest
    <3>3. Repaired'
      BY <1>1, <1>10, <2>1, <3>1, AuditRepairs DEF c
    <3>4. k - 1 = 0 => Left(1)' \in PutAt(c, 1)
      <4> SUFFICES ASSUME k - 1 = 0 PROVE PutAt(c, 1) # {}
        BY <1>7, OnlyIs
      <4>1. \A w \in Words : w = 2 * (k - 1) + 1 => PutAt(c, w) = {Number(0)}
        BY <1>10, <3>1, AuditStores
      <4> QED BY <1>4, <4>1
    <3>5. AuditSeen(0)' => Left(1)' \in given'.audit
      BY <1>3, <1>4, <1>8, <2>1, <3>4
    <3> QED BY <2>1, <3>2, <3>3, <3>5 DEF c
  <2> QED BY <2>2, <2>3
<1>11. CASE /\ cmos_caller.at = "adjustments" /\ k \in 1 .. A
            /\ c = IF Bogus(k) THEN SetDefault(k) ELSE <<>>
  <2>1. /\ \A i : AuditSeen(i)' => AuditSeen(i)
        /\ \A j \in 1 .. A : AdjustmentSeen(j)' => AdjustmentSeen(j) \/ j = k
        /\ ~RecordSeen'
    BY <1>1, <1>11 DEF AuditSeen, AdjustmentSeen, RecordSeen, Early, k
  <2>2. AuditSeen(0)' => Left(1)' \in given'.audit
    BY <1>8, <2>1
  <2>3. CASE Bogus(k)
    <3>1. c = set_adjustment(cmos_shadow, k, Ranges[k].default_val)
      BY <1>11, <2>3 DEF SetDefault
    <3>2. Ranges[k].default_val \in Ranges[k].min .. Ranges[k].max /\ Ranges[k].default_val \in Nat
      BY <1>11, Layout
    <3>3. Tidy(c) /\ Honest(c)
      BY <1>1, <1>11, <3>1, <3>2, AdjustmentStores, CallsHonest
    <3>4. Repaired'
      BY <1>1, <1>11, <2>1, <3>1, <3>2, AdjustmentRepairs DEF c
    <3> QED BY <2>1, <2>2, <3>3, <3>4 DEF c
  <2>4. CASE ~Bogus(k)
    <3>1. c = <<>> /\ \A w : Left(w)' = Left(w)
      BY <1>9, <1>11, <2>4
    <3>2. /\ cmos_shadow[TableEnd] = crc([j \in 1 .. A |-> cmos_shadow[TableAt(j)]])
          /\ Ranged(k, cmos_shadow[TableAt(k)])
      BY <1>1, <1>11, <2>4, Looks DEF Bogus
    <3>3. [j \in 1 .. A |-> Left(TableAt(j))] = [j \in 1 .. A |-> cmos_shadow[TableAt(j)]]
      BY <1>6
    <3>4. /\ Left(TableEnd) = crc([j \in 1 .. A |-> Left(TableAt(j))])
          /\ Ranged(k, Left(TableAt(k)))
      BY <1>6, <3>2, <3>3
    <3>5. [j \in 1 .. A |-> Left(TableAt(j))'] = [j \in 1 .. A |-> Left(TableAt(j))]
      BY <3>1
    <3>6. Repaired'
      BY <1>1, <2>1, <3>1, <3>4, <3>5 DEF Repaired, Ranged
    <3> QED BY <1>9, <2>1, <2>2, <3>1, <3>6 DEF c
  <2> QED BY <2>3, <2>4
<1>12. ASSUME cmos_caller.at \in {"defaults", "factory_defaults", "factory_taken", "reset_taken"},
              NEW j \in 1 .. A, NEW n \in Ranges[j].min .. Ranges[j].max,
              c = set_adjustment(cmos_shadow, j, n)
       PROVE  /\ Tidy(c) /\ Honest(c) /\ Repaired'
              /\ AuditSeen(0)' => Left(1)' \in given'.audit
              /\ RecordSeen' => Left(Rec)' \in given'.record
  <2>1. /\ \A i : AuditSeen(i)' => AuditSeen(i)
        /\ \A l : AdjustmentSeen(l)' => AdjustmentSeen(l)
        /\ RecordSeen' => RecordSeen
    BY <1>1, <1>12 DEF AuditSeen, AdjustmentSeen, RecordSeen, Early
  <2>2. n \in Nat
    BY Layout
  <2>3. Tidy(c) /\ Honest(c)
    BY <1>1, <1>12, <2>2, AdjustmentStores, CallsHonest
  <2>4. Repaired'
    BY <1>1, <1>12, <2>1, AdjustmentRepairs DEF c
  <2> QED BY <1>8, <2>1, <2>3, <2>4
<1>13. CASE /\ cmos_caller.at \in {"records", "reset_records"}
            /\ cmos_caller.at = "records" => k = 1
            /\ c = set_generic_record(0)
  <2>1. /\ \A i : AuditSeen(i)' => AuditSeen(i)
        /\ \A l : AdjustmentSeen(l)' => AdjustmentSeen(l)
    BY <1>1, <1>13 DEF AuditSeen, AdjustmentSeen, Early
  <2>2. Tidy(c) /\ Honest(c)
    <3>1. 0 \in Nat /\ 0 \in 0 .. 2
      OBVIOUS
    <3>2. Tidy(c)
      BY <1>1, <1>13, <3>1, RecordStores
    <3> QED BY <1>1, <1>13, <3>1, <3>2, CallsHonest
  <2>3. Repaired'
    BY <1>1, <1>13, <2>1, RecordRepairs DEF c
  <2>4. PutAt(c, Rec) = {Number(0)}
    <3>1. \A w \in Words : w \in {Rec, Rec + 1} => PutAt(c, w) = {Number(0)}
      BY <1>1, <1>13, RecordStores
    <3> QED BY <1>4, <3>1
  <2>5. Left(Rec)' \in given'.record
    BY <1>3, <1>7, <2>4, OnlyIs
  <2> QED BY <1>8, <2>1, <2>2, <2>3, <2>5 DEF c
<1>14. CASE /\ cmos_caller.at = "records" /\ k = 1
            /\ c = <<>> /\ check_generic_record(cmos_shadow)
  <2>1. /\ \A i : AuditSeen(i)' => AuditSeen(i)
        /\ \A l : AdjustmentSeen(l)' => AdjustmentSeen(l)
    BY <1>1, <1>14 DEF AuditSeen, AdjustmentSeen, Early
  <2>2. \A w : Left(w)' = Left(w)
    BY <1>9, <1>14
  <2>3. cmos_shadow[Rec + 2] = crc(<<cmos_shadow[Rec], cmos_shadow[Rec + 1]>>)
    BY <1>1, <1>14, Looks
  <2>4. cmos_shadow[Rec] \in Data /\ cmos_shadow[Rec + 1] \in Data
    BY <1>1, Places DEF Memory
  <2>5. /\ Len(cmos_shadow[Rec + 2]) = 3
        /\ cmos_shadow[Rec + 2][2] = cmos_shadow[Rec]
        /\ cmos_shadow[Rec + 2][3] = cmos_shadow[Rec + 1]
    BY <2>3, <2>4, CrcFacts
  <2>6. cmos_shadow[Rec] = cmos_shadow[Rec + 1] /\ cmos_shadow[Rec] \in given.record
    BY <1>5, <2>5 DEF CmosInv, Origins
  <2>7. [j \in 1 .. A |-> Left(TableAt(j))'] = [j \in 1 .. A |-> Left(TableAt(j))]
    BY <2>2
  <2>8. Repaired'
    BY <1>1, <1>6, <2>1, <2>2, <2>3, <2>6, <2>7 DEF Repaired, Ranged
  <2>9. Left(Rec)' \in given'.record
    BY <1>3, <1>6, <2>2, <2>6
  <2> QED BY <1>8, <1>9, <1>14, <2>1, <2>8, <2>9 DEF c
<1> QED
  <2>1. CASE cmos_caller.at \in {"audits", "adjustments"}
    BY <1>10, <1>11, <2>1, ItemKinds DEF c, k
  <2>2. CASE cmos_caller.at \in {"defaults", "factory_defaults"}
    <3>1. k \in 1 .. A /\ c = SetDefault(k)
      BY <2>2, ItemKinds DEF c, k
    <3> QED BY <1>12, <2>2, <3>1, DefaultsInRange DEF SetDefault, c
  <2>3. CASE cmos_caller.at = "factory_taken"
    <3>1. c = TakeBack(FACTORY_RESTORE_ADJ)
      BY <2>3, ItemKinds DEF c
    <3> QED BY <1>12, <2>3, <3>1, DefaultsInRange DEF TakeBack, c
  <2>4. CASE cmos_caller.at = "reset_taken"
    <3>1. c = TakeBack(HIGH_SCORE_RESET_ADJ)
      BY <2>4, ItemKinds DEF c
    <3> QED BY <1>12, <2>4, <3>1, DefaultsInRange DEF TakeBack, c
  <2>5. CASE cmos_caller.at \in {"records", "reset_records"}
    BY <1>13, <1>14, <2>5, ItemKinds DEF c, k
  <2> QED BY <2>1, <2>2, <2>3, <2>4, <2>5, ItemKinds

\* The words that hold numbers, apart from each other and from check data.
LEMMA Apart ==
  ASSUME OneVersion
  PROVE  /\ \A i \in 0 .. N - 1 : \A j \in 1 .. A :
              2 * i + 1 \notin {TableAt(j), TableEnd, Rec, Rec + 1, Rec + 2}
         /\ \A j, l \in 1 .. A : /\ TableAt(j) \notin {TableEnd, Rec, Rec + 1, Rec + 2}
                                 /\ TableAt(j) = TableAt(l) => j = l
         /\ Rec # TableEnd
<1>1. N \in Nat /\ A \in Nat
  BY Layout
<1>2. \A i \in 0 .. N - 1 : \A j \in 1 .. A :
        2 * i + 1 \notin {TableAt(j), TableEnd, Rec, Rec + 1, Rec + 2}
  BY <1>1 DEF TableAt, TableEnd, Rec
<1>3. \A j, l \in 1 .. A : /\ TableAt(j) \notin {TableEnd, Rec, Rec + 1, Rec + 2}
                           /\ TableAt(j) = TableAt(l) => j = l
  BY <1>1 DEF TableAt, TableEnd, Rec
<1>4. Rec # TableEnd
  BY <1>1 DEF TableEnd, Rec
<1> QED BY <1>2, <1>3, <1>4

\* After a power failure that left a good CMOS an item stores only where a reset that was
\* asked for does.
LEMMA ItemTouches ==
  ASSUME OneVersion, CmosInv, NextItem, intact # Damaged
  PROVE  LET c == cmos_caller'.stores
         IN  /\ cmos_caller.at \in Looking => c = <<>>
             /\ \A i \in 0 .. N - 1 : PutAt(c, 2 * i + 1) = {}
             /\ \A j \in (1 .. A) \ {FACTORY_RESTORE_ADJ, HIGH_SCORE_RESET_ADJ} :
                  Asked(FACTORY_RESTORE_ADJ) \/ PutAt(c, TableAt(j)) = {}
             /\ \/ Asked(FACTORY_RESTORE_ADJ) \/ Asked(HIGH_SCORE_RESET_ADJ)
                \/ PutAt(c, Rec) = {}
<1> DEFINE k == cmos_caller.item
           c == cmos_caller'.stores
<1>1. /\ max_audits = N /\ cmos_shadow \in Memory
      /\ Good(intact) /\ (cmos_caller.at \in Looking => Unchanged) /\ cmos_caller.at # "defaults"
      /\ (cmos_caller.at \in Factory => Asked(FACTORY_RESTORE_ADJ))
      /\ (cmos_caller.at \in Resetting =>
            Asked(FACTORY_RESTORE_ADJ) \/ Asked(HIGH_SCORE_RESET_ADJ))
  BY DEF CmosInv, Typed, Kept
<1>2. /\ \A i \in 0 .. N - 1 : 2 * i + 1 \in Words
      /\ \A j \in 1 .. A : TableAt(j) \in Words
      /\ Rec \in Words
  BY Places
<1> HIDE DEF c, k
<1>3. ASSUME c = <<>>
      PROVE  \A w : PutAt(c, w) = {}
  BY <1>3, NoStores
<1>4. ASSUME cmos_caller.at \in Looking
      PROVE  c = <<>>
  <2>1. Good(cmos_shadow)
    BY <1>1, <1>4 DEF Unchanged
  <2>2. /\ \A i \in 0 .. N - 1 : _check_audit(cmos_shadow, i)
        /\ check_generic_record(cmos_shadow)
        /\ \A j \in 1 .. A : ~Bogus(j)
    BY <1>1, <2>1, Looks DEF Good, Bogus
  <2>3. CASE /\ cmos_caller.at = "audits" /\ k - 1 \in 0 .. N - 1
             /\ c = IF _check_audit(cmos_shadow, k - 1) THEN <<>> ELSE set_audit(k - 1, 0)
    BY <2>2, <2>3
  <2>4. CASE /\ cmos_caller.at = "adjustments" /\ k \in 1 .. A
             /\ c = IF Bogus(k) THEN SetDefault(k) ELSE <<>>
    BY <2>2, <2>4
  <2>5. CASE /\ cmos_caller.at = "records" /\ k = 1
             /\ c = IF check_generic_record(cmos_shadow) THEN <<>> ELSE set_generic_record(0)
    BY <2>2, <2>5
  <2>6. cmos_caller.at \notin {"defaults", "factory_defaults", "factory_taken", "reset_records",
                               "reset_taken"}
    BY <1>4 DEF Looking
  <2> QED BY <2>3, <2>4, <2>5, <2>6, ItemKinds DEF c, k
<1>5. ASSUME NEW j \in 1 .. A, NEW n \in Nat, c = set_adjustment(cmos_shadow, j, n)
      PROVE  \A w \in Words : w \notin {TableAt(j), TableEnd} => PutAt(c, w) = {}
  BY <1>1, <1>5, AdjustmentStores
<1>6. CASE c = <<>>
  BY <1>3, <1>6 DEF c
<1>7. ASSUME cmos_caller.at \in Factory, NEW j \in 1 .. A, NEW n \in Nat,
             c = set_adjustment(cmos_shadow, j, n)
      PROVE  \A i \in 0 .. N - 1 : PutAt(c, 2 * i + 1) = {}
  BY <1>2, <1>5, <1>7, Apart
<1>8. CASE cmos_caller.at = "factory_defaults"
  <2>1. k \in 1 .. A /\ c = set_adjustment(cmos_shadow, k, Ranges[k].default_val)
    BY <1>8, ItemKinds DEF c, k, SetDefault
  <2>2. Ranges[k].default_val \in Nat
    BY <2>1, Layout
  <2>3. cmos_caller.at \in Factory
    BY <1>8 DEF Factory
  <2>4. \A i \in 0 .. N - 1 : PutAt(c, 2 * i + 1) = {}
    BY <1>7, <2>1, <2>2, <2>3
  <2>5. cmos_caller.at \notin Looking
    BY <1>8 DEF Looking
  <2> QED BY <1>1, <2>3, <2>4, <2>5 DEF c
<1>9. CASE cmos_caller.at = "factory_taken"
  <2>1. FACTORY_RESTORE_ADJ \in 1 .. A /\ c = set_adjustment(cmos_shadow, FACTORY_RESTORE_ADJ, 0)
    BY <1>9, ItemKinds, DefaultsInRange DEF c, TakeBack
  <2>3. cmos_caller.at \in Factory
    BY <1>9 DEF Factory
  <2>4. \A i \in 0 .. N - 1 : PutAt(c, 2 * i + 1) = {}
    BY <1>7, <2>1, <2>3
  <2>5. cmos_caller.at \notin Looking
    BY <1>9 DEF Looking
  <2> QED BY <1>1, <2>3, <2>4, <2>5 DEF c
<1>10. CASE cmos_caller.at = "reset_records"
  <2>1. c = set_generic_record(0)
    BY <1>10, ItemKinds DEF c
  <2>2. \A w \in Words : w \notin {Rec, Rec + 1, Rec + 2} => PutAt(c, w) = {}
    BY <1>1, <2>1, RecordStores
  <2>3. /\ \A i \in 0 .. N - 1 : 2 * i + 1 \notin {Rec, Rec + 1, Rec + 2}
        /\ \A j \in 1 .. A : TableAt(j) \notin {Rec, Rec + 1, Rec + 2}
    BY Apart, DefaultsInRange
  <2>4. /\ \A i \in 0 .. N - 1 : PutAt(c, 2 * i + 1) = {}
        /\ \A j \in 1 .. A : PutAt(c, TableAt(j)) = {}
    BY <1>2, <2>2, <2>3
  <2>5. cmos_caller.at \in Resetting /\ cmos_caller.at \notin Looking
    BY <1>10 DEF Looking, Resetting
  <2> QED BY <1>1, <2>4, <2>5 DEF c
<1>11. CASE cmos_caller.at = "reset_taken"
  <2> DEFINE h == HIGH_SCORE_RESET_ADJ
  <2>1. h \in 1 .. A /\ c = set_adjustment(cmos_shadow, h, 0)
    BY <1>11, ItemKinds, DefaultsInRange DEF c, TakeBack
  <2> HIDE DEF h
  <2>2. \A w \in Words : w \notin {TableAt(h), TableEnd} => PutAt(c, w) = {}
    BY <1>5, <2>1
  <2>3. \A i \in 0 .. N - 1 : PutAt(c, 2 * i + 1) = {}
    BY <1>2, <2>1, <2>2, Apart
  <2>4. \A j \in (1 .. A) \ {h} : PutAt(c, TableAt(j)) = {}
    BY <1>2, <2>1, <2>2, Apart
  <2>5. cmos_caller.at \in Resetting /\ cmos_caller.at \notin Looking
    BY <1>11 DEF Looking, Resetting
  <2> QED BY <1>1, <2>3, <2>4, <2>5 DEF c, h
<1>12. cmos_caller.at \in {"audits", "adjustments", "records"} => c = <<>>
  BY <1>4 DEF Looking
<1> QED BY <1>1, <1>6, <1>8, <1>9, <1>10, <1>11, <1>12, ItemKinds

\* The number of items of a stage.
LEMMA ItemsNat ==
  ASSUME OneVersion, max_audits = N
  PROVE  /\ \A stage : Items(stage) \in Nat
         /\ Items("audits") = N /\ Items("adjustments") = A /\ Items("records") = 1
BY Layout DEF Items, Defaults, A

\* An item keeps the invariant.
LEMMA ItemKeeps ==
  ASSUME OneVersion, CmosInv, NextItem
  PROVE  CmosInv'
<1> DEFINE k == cmos_caller.item
           c == cmos_caller'.stores
<1>1. /\ max_audits = N /\ cmos_caller \in Callers /\ k \in Nat \ {0}
      /\ cmos_caller.at \notin Early \cup {"ready"}
      /\ cmos_caller.stores = <<>> /\ k <= Items(cmos_caller.at)
      /\ cmos_caller' = [cmos_caller EXCEPT !.item = k + 1, !.stores = c,
                           !.status = IF c = <<>> THEN cmos_caller.status ELSE 1]
      /\ UNCHANGED <<cmos_ram, cmos_shadow, cmos_update, max_audits, intact>>
  <2>1. cmos_caller.at \in SetupStages
    BY DEF NextItem
  <2>2. cmos_caller.at \notin Early \cup {"ready"}
    BY <2>1, Stages DEF Early, MarkerStages
  <2> QED BY <2>2 DEF CmosInv, Typed, Callers, NextItem
<1>2. Tidy(c) /\ Honest(c) /\ given' = Giving(c)
  BY ItemRepairs, ItemKinds
<1>3. /\ cmos_caller'.at = cmos_caller.at /\ cmos_caller'.item = k + 1
      /\ cmos_caller'.status = IF c = <<>> THEN cmos_caller.status ELSE 1
  BY <1>1 DEF Callers
<1>4. Typed'
  <2>1. c \in Seq(Stores)
    BY <1>2 DEF Tidy
  <2>2. cmos_caller' \in Callers
    <3>1. \A i \in Nat \ {0}, s \in Seq(Stores), v \in {0, 1} :
            [cmos_caller EXCEPT !.item = i, !.stores = s, !.status = v] \in Callers
      BY <1>1 DEF Callers
    <3> DEFINE v == IF c = <<>> THEN cmos_caller.status ELSE 1
    <3>2. k + 1 \in Nat \ {0} /\ v \in {0, 1}
      BY <1>1 DEF Callers
    <3>3. [cmos_caller EXCEPT !.item = k + 1, !.stores = c, !.status = v] \in Callers
      BY <2>1, <3>1, <3>2
    <3> QED BY <1>1, <3>3
  <2>3. given' \in [audit : SUBSET Data, record : SUBSET Data]
    BY <1>1, <1>2, <1>3, CallKeeps
  <2> QED BY <1>1, <1>2, <2>2, <2>3 DEF CmosInv, Typed, Memory
<1>5. Begun'
  <2>1. Items(cmos_caller.at)' = Items(cmos_caller.at)
    BY <1>1, <1>3 DEF Items
  <2>2. k + 1 <= Items(cmos_caller.at) + 1 /\ k + 1 # 1
    BY <1>1, ItemsNat
  <2> QED BY <1>1, <1>3, <2>1, <2>2 DEF Begun, Early
<1>6. Origins' /\ Copyable'
  BY <1>1, <1>2, <1>3, CallKeeps, ItemRepairs DEF Origins
<1>7. Kept'
  <2> SUFFICES ASSUME intact # Damaged PROVE Kept'
    BY <1>1 DEF Kept, Damaged
  <2>1. Kept
    BY DEF CmosInv
  <2>2. cmos_caller'.at \in Looking => Unchanged'
    BY <1>1, <1>3, <2>1, ItemTouches DEF Kept, Unchanged
  <2>3. \A w : PutAt(c, w) = {} => Left(w)' = Left(w)
    BY <1>1, LeftNow DEF Left, LeftBy
  <2>4. /\ \A i \in 0 .. N - 1 : Left(2 * i + 1)' = intact[2 * i + 1]
        /\ \A j \in (1 .. A) \ {FACTORY_RESTORE_ADJ, HIGH_SCORE_RESET_ADJ} :
             Asked(FACTORY_RESTORE_ADJ) \/ Left(TableAt(j))' = intact[TableAt(j)]
        /\ \/ Asked(FACTORY_RESTORE_ADJ) \/ Asked(HIGH_SCORE_RESET_ADJ)
           \/ Left(Rec)' = intact[Rec]
    BY <1>1, <2>1, <2>3, ItemTouches DEF Kept
  <2>5. \A j : Asked(j)' <=> Asked(j)
    BY <1>1 DEF Asked
  <2>6. cmos_caller.at # "reset" /\ cmos_caller.at # "off"
    BY <1>1, ItemKinds DEF Early
  <2> QED BY <1>1, <1>3, <2>1, <2>2, <2>4, <2>5, <2>6 DEF Kept
<1> QED BY <1>4, <1>5, <1>6, <1>7, ItemRepairs DEF CmosInv

\* The stage that comes next, when its loop is done.
LEMMA StageKinds ==
  ASSUME OneVersion, CmosInv, NextStage
  PROVE  LET from == cmos_caller.at
             to == cmos_caller'.at
         IN  /\ cmos_caller.stores = <<>> /\ cmos_caller.item = Items(from) + 1
             /\ cmos_caller' = At(to) /\ cmos_caller' \in Callers
             /\ \/ from = "audits" /\ to = "adjustments"
                \/ from = "adjustments" /\ to = "defaults" /\ cmos_caller.status # 0
                \/ from \in {"adjustments", "defaults"} /\ to = "records"
                \/ from = "records" /\ to = "marker"
                \/ from = "marker" /\ to = "factory"
                \/ from = "factory" /\ to = "factory_defaults" /\ AskedFor(FACTORY_RESTORE_ADJ)
                \/ from = "factory" /\ to = "reset"
                \/ from = "factory_defaults" /\ to = "factory_taken"
                \/ from = "factory_taken" /\ to = "reset"
                \/ from = "reset" /\ to = "reset_records" /\ AskedFor(HIGH_SCORE_RESET_ADJ)
                \/ from = "reset" /\ to = "ready"
                \/ from = "reset_records" /\ to = "reset_taken"
                \/ from = "reset_taken" /\ to = "ready"
<1> DEFINE from == cmos_caller.at
           to == StageAfter(from)
<1>1. /\ max_audits = N /\ cmos_caller \in Callers /\ from \in SetupStages \ MarkerStages
      /\ cmos_caller.stores = <<>> /\ cmos_caller.item > Items(from)
      /\ cmos_caller.item <= Items(from) + 1 /\ cmos_caller' = At(to)
  BY DEF CmosInv, Typed, Begun, NextStage, Callers
<1>2. cmos_caller.item = Items(from) + 1
  <2>1. Items(from) \in Nat /\ cmos_caller.item \in Nat
    BY <1>1, ItemsNat DEF Callers
  <2> QED BY <1>1, <2>1
<1>3. from = "marker" => ~MarkerWrong
  <2> SUFFICES ASSUME from = "marker" PROVE _check_audit(cmos_shadow, N - 1)
    BY <1>1 DEF MarkerWrong
  <2>1. N - 1 \in 0 .. N - 1
    BY Layout
  <2>2. AuditSeen(N - 1)
    BY DEF AuditSeen, Early
  <2>3. Left(2 * (N - 1) + 2) = crc(<<Left(2 * (N - 1) + 1)>>)
    BY <2>1, <2>2 DEF CmosInv, Repaired
  <2>4. cmos_shadow[2 * (N - 1) + 2] = crc(<<cmos_shadow[2 * (N - 1) + 1]>>)
    BY <1>1, <2>3, LeftNow
  <2> QED BY <1>1, <2>1, <2>4, Looks
<1> DEFINE Kinds ==
             \/ from = "audits" /\ to = "adjustments"
             \/ from = "adjustments" /\ to = "defaults" /\ cmos_caller.status # 0
             \/ from \in {"adjustments", "defaults"} /\ to = "records"
             \/ from = "records" /\ to = "marker"
             \/ from = "marker" /\ to = "factory"
             \/ from = "factory" /\ to = "factory_defaults" /\ AskedFor(FACTORY_RESTORE_ADJ)
             \/ from = "factory" /\ to = "reset"
             \/ from = "factory_defaults" /\ to = "factory_taken"
             \/ from = "factory_taken" /\ to = "reset"
             \/ from = "reset" /\ to = "reset_records" /\ AskedFor(HIGH_SCORE_RESET_ADJ)
             \/ from = "reset" /\ to = "ready"
             \/ from = "reset_records" /\ to = "reset_taken"
             \/ from = "reset_taken" /\ to = "ready"
<1>4. Kinds
  <2>1. CASE from \in {"audits", "defaults", "records", "factory_defaults", "factory_taken",
                       "reset_records", "reset_taken"}
    <3>1. to = Following[from]
      BY <2>1 DEF StageAfter
    <3> QED BY <2>1, <3>1, Stages
  <2>2. CASE from = "adjustments"
    <3>1. to = IF cmos_caller.status = 0 THEN "records" ELSE Following[from]
      BY <2>2 DEF StageAfter
    <3> QED BY <2>2, <3>1, Stages
  <2>3. CASE from = "marker"
    <3>1. to = "factory"
      BY <1>3, <2>3 DEF StageAfter
    <3> QED BY <2>3, <3>1
  <2>4. CASE from = "factory"
    <3>1. to = IF AskedFor(FACTORY_RESTORE_ADJ) THEN Following[from] ELSE "reset"
      BY <2>4 DEF StageAfter
    <3> QED BY <2>4, <3>1, Stages
  <2>5. CASE from = "reset"
    <3>1. to = IF AskedFor(HIGH_SCORE_RESET_ADJ) THEN Following[from] ELSE "ready"
      BY <2>5 DEF StageAfter
    <3> QED BY <2>5, <3>1, Stages
  <2> QED BY <1>1, <2>1, <2>2, <2>3, <2>4, <2>5, Stages
<1>5. to \in (SetupStages \cup {"ready"}) \ MarkerStages
  BY <1>4, Stages DEF MarkerStages
<1> HIDE DEF to
<1>6. cmos_caller'.at = to /\ cmos_caller' \in Callers
  <2>1. <<>> \in Seq(Stores)
    OBVIOUS
  <2> QED BY <1>1, <1>5, <2>1 DEF At, Callers
<1> QED BY <1>1, <1>2, <1>4, <1>6

\* A new stage has seen nothing that was not seen before it.
LEMMA StageSeen ==
  ASSUME OneVersion, CmosInv, NextStage
  PROVE  /\ \A i \in 0 .. N - 1 : AuditSeen(i)
         /\ \A j \in 1 .. A : AdjustmentSeen(j)' => AdjustmentSeen(j)
         /\ RecordSeen' => RecordSeen
         /\ cmos_caller'.at \notin Early \cup {"audits"} /\ cmos_caller.at \notin Early
<1> DEFINE from == cmos_caller.at
           to == cmos_caller'.at
<1>1. /\ max_audits = N /\ N \in Nat /\ A \in Nat
      /\ Items("audits") = N /\ Items("adjustments") = A /\ Items("records") = 1
  BY ItemsNat, Layout DEF CmosInv, Typed
<1>2. cmos_caller.item = Items(from) + 1 /\ cmos_caller'.item = 1
  BY StageKinds DEF At
<1>3. /\ from \in SetupStages \ MarkerStages
      /\ to \notin Early \cup {"audits"}
  BY StageKinds DEF CmosInv, Typed, Callers, NextStage, Early
<1>4. from \notin Early
  BY <1>3, Stages DEF Early, MarkerStages
<1>5. to \in {"adjustments", "defaults", "records"} \/ from \in {"records", "marker", "factory",
         "factory_defaults", "factory_taken", "reset", "reset_records", "reset_taken"}
  BY StageKinds
<1>6. to = "adjustments" \/ from \in {"adjustments", "defaults", "records", "marker", "factory",
         "factory_defaults", "factory_taken", "reset", "reset_records", "reset_taken"}
  BY StageKinds
<1>7. \A i \in 0 .. N - 1 : AuditSeen(i)
  BY <1>1, <1>2, <1>4 DEF AuditSeen
<1>8. \A j \in 1 .. A : AdjustmentSeen(j)' => AdjustmentSeen(j)
  BY <1>1, <1>2, <1>6 DEF AdjustmentSeen, Early
<1>9. RecordSeen' => RecordSeen
  BY <1>1, <1>2, <1>5 DEF RecordSeen, Early
<1> QED BY <1>3, <1>4, <1>7, <1>8, <1>9

\* Over an unchanged memory a reset is asked for if the good CMOS asks for it.
LEMMA AskedIs ==
  ASSUME OneVersion, max_audits = N, Good(intact), Unchanged,
         NEW j \in {FACTORY_RESTORE_ADJ, HIGH_SCORE_RESET_ADJ}
  PROVE  AskedFor(j) <=> Asked(j)
<1>1. check_adjustments(cmos_shadow)
  BY Looks DEF Good, Unchanged
<1>2. AdjustmentAt(j) = TableAt(j)
  BY Looks
<1> QED BY <1>1, <1>2 DEF AskedFor, Asked, get_adjustment, Unchanged

\* A new stage keeps the invariant.
LEMMA StageKeeps ==
  ASSUME OneVersion, CmosInv, NextStage
  PROVE  CmosInv'
<1> DEFINE from == cmos_caller.at
           to == cmos_caller'.at
<1>1. /\ max_audits = N
      /\ UNCHANGED <<cmos_ram, cmos_shadow, cmos_update, max_audits, given, intact>>
  BY DEF CmosInv, Typed, NextStage
<1>2. /\ cmos_caller.stores = <<>> /\ cmos_caller' = At(to) /\ cmos_caller' \in Callers
      /\ cmos_caller'.item = 1 /\ cmos_caller'.stores = <<>> /\ cmos_caller'.status = 0
  BY StageKinds DEF At
<1>3. \A w : /\ Left(w)' = Left(w) /\ Left(w) = cmos_shadow[w]
             /\ PutAt(cmos_caller'.stores, w) = PutAt(cmos_caller.stores, w)
             /\ May(w)' = May(w)
  BY <1>1, <1>2, NoStores DEF Left, May
<1>4. Typed'
  BY <1>1, <1>2, NoStores DEF CmosInv, Typed, Memory
<1>5. Begun'
  <2>1. Items(cmos_caller.at)' \in Nat
    BY <1>1, Layout DEF Items, Defaults, A
  <2> QED BY <1>2, <2>1, StageSeen DEF Begun, Early
<1>6. Repaired'
  BY <1>3, StageSeen, RepairedStays DEF CmosInv
<1>7. Origins'
  <2>1. AuditSeen(0)
    BY StageSeen, Layout
  <2> QED BY <1>1, <1>3, <2>1, StageSeen DEF CmosInv, Origins
<1>8. Copyable'
  BY <1>1, <1>2, <1>3, StageSeen DEF CmosInv, Copyable
<1>9. Kept'
  <2> SUFFICES ASSUME intact # Damaged PROVE Kept'
    BY <1>1 DEF Kept, Damaged
  <2>1. Kept /\ Good(intact)
    BY DEF CmosInv, Kept
  <2>2. \A j : Asked(j)' <=> Asked(j)
    BY <1>1 DEF Asked
  <2>3. /\ \A i \in 0 .. N - 1 : Left(2 * i + 1)' = intact[2 * i + 1]
        /\ \A j \in (1 .. A) \ {FACTORY_RESTORE_ADJ, HIGH_SCORE_RESET_ADJ} :
             Asked(FACTORY_RESTORE_ADJ) \/ Left(TableAt(j))' = intact[TableAt(j)]
        /\ \/ Asked(FACTORY_RESTORE_ADJ) \/ Asked(HIGH_SCORE_RESET_ADJ)
           \/ Left(Rec)' = intact[Rec]
    BY <1>3, <2>1, StageSeen DEF Kept
  <2>4. from \in Looking => Unchanged /\ Unchanged'
    BY <1>1, <1>2, <2>1 DEF Kept, Unchanged
  <2>5. from # "defaults" /\ to # "defaults"
    <3>1. from = "adjustments" => cmos_caller.status = 0
      BY <2>4 DEF Looking, Unchanged
    <3> QED BY <2>1, <3>1, StageKinds DEF Kept
  <2>6. to \in Looking => Unchanged'
    <3>1. to \in Looking => from \in Looking
      BY <2>5, StageKinds DEF Looking
    <3> QED BY <2>4, <3>1
  <2>7. to \in Factory => Asked(FACTORY_RESTORE_ADJ)
    <3>1. CASE from = "factory"
      BY <1>1, <2>1, <2>4, <3>1, AskedIs, StageKinds DEF Looking, Factory
    <3>2. CASE from # "factory"
      <4>1. to \in Factory => from \in Factory
        BY <3>2, StageKinds DEF Factory
      <4> QED BY <2>1, <4>1 DEF Kept
    <3> QED BY <3>1, <3>2
  <2>8. to = "reset" => Asked(FACTORY_RESTORE_ADJ) \/ Unchanged'
    <3>1. to = "reset" => from \in Looking \cup Factory
      BY StageKinds DEF Looking, Factory
    <3> QED BY <2>1, <2>4, <3>1 DEF Kept
  <2>9. to \in Resetting => Asked(FACTORY_RESTORE_ADJ) \/ Asked(HIGH_SCORE_RESET_ADJ)
    <3>1. CASE from = "reset"
      <4>1. to \in Resetting => AskedFor(HIGH_SCORE_RESET_ADJ)
        BY <3>1, StageKinds DEF Resetting
      <4> QED BY <1>1, <2>1, <3>1, <4>1, AskedIs DEF Kept
    <3>2. CASE from # "reset"
      <4>1. to \in Resetting => from \in Resetting
        BY <3>2, StageKinds DEF Resetting
      <4> QED BY <2>1, <4>1 DEF Kept
    <3> QED BY <3>1, <3>2
  <2>10. to # "off"
    BY StageSeen DEF Early
  <2> QED BY <1>1, <2>1, <2>2, <2>3, <2>5, <2>6, <2>7, <2>8, <2>9, <2>10 DEF Kept
<1> QED BY <1>4, <1>5, <1>6, <1>7, <1>8, <1>9 DEF CmosInv

-----------------------------------------------------------------------------
(***************************************************************************)
(* The stores, the copies, and the start of the driver.                    *)
(***************************************************************************)

\* The words the invariant speaks of.
LEMMA FirstWords ==
  ASSUME OneVersion
  PROVE  /\ 0 \in 0 .. N - 1 /\ 2 * 0 + 1 = 1 /\ 2 * 0 + 2 = 2 /\ AuditAt(0) = 1
         /\ 1 \in Words \ CheckWords /\ 2 \in Words
         /\ Rec \in Words \ CheckWords /\ Rec + 2 \in Words /\ Rec \in Nat
<1>1. 0 \in 0 .. N - 1 /\ 2 * 0 + 1 = 1 /\ 2 * 0 + 2 = 2 /\ AuditAt(0) = 1
  BY Layout DEF AuditAt
<1>2. 1 \in Words \ CheckWords /\ 2 \in Words
  BY <1>1, Places
<1>3. Rec \in Words \ CheckWords /\ Rec + 2 \in Words
  BY Places
<1>4. Rec \in Nat
  BY Layout DEF Rec
<1> QED BY <1>1, <1>2, <1>3, <1>4

\* A store keeps the invariant.
LEMMA WriteKeeps ==
  ASSUME OneVersion, CmosInv, WriteShadow
  PROVE  CmosInv'
<1> DEFINE c == cmos_caller.stores
           h == Head(c)
<1>1. /\ max_audits = N /\ cmos_shadow \in Memory /\ Tidy(c) /\ c # <<>>
      /\ cmos_caller \in Callers
      /\ cmos_shadow' = Written(cmos_shadow, h) /\ cmos_update' = (cmos_update \/ h = Mark)
      /\ cmos_update \in BOOLEAN
      /\ cmos_caller' = [cmos_caller EXCEPT !.stores = Tail(c)]
      /\ UNCHANGED <<cmos_ram, max_audits, given, intact>>
  BY DEF CmosInv, Typed, WriteShadow
<1>2. /\ cmos_caller'.at = cmos_caller.at /\ cmos_caller'.item = cmos_caller.item
      /\ cmos_caller'.status = cmos_caller.status /\ cmos_caller'.stores = Tail(c)
  BY <1>1 DEF Callers
<1>3. /\ Tidy(Tail(c)) /\ Written(cmos_shadow, h) \in Memory
      /\ \A w \in Words :
           /\ LeftBy(Written(cmos_shadow, h), Tail(c), w) = LeftBy(cmos_shadow, c, w)
           /\ Written(cmos_shadow, h)[w] = IF h.at = w THEN h.word ELSE cmos_shadow[w]
           /\ PutAt(Tail(c), w) \subseteq PutAt(c, w)
           /\ h.at = w => PutAt(c, w) = {h.word} /\ PutAt(Tail(c), w) = {}
      /\ h = Mark => Tail(c) = <<>>
      /\ h.at = AuditAt(0) => PutAt(c, AuditAt(0) + 1) = {}
  BY <1>1, TailTidy
<1>4. \A w \in Words : Left(w)' = Left(w)
  BY <1>1, <1>2, <1>3 DEF Left
<1>5. \A w \in Words : May(w)' \subseteq May(w)
  BY <1>1, <1>2, <1>3 DEF May
<1>6. cmos_caller.at \notin Early /\ ~(cmos_caller.at = "audits" /\ cmos_caller.item = 1)
  BY <1>1 DEF CmosInv, Begun
<1>7. Typed'
  <2>1. Tail(c) \in Seq(Stores)
    BY <1>3 DEF Tidy
  <2>2. cmos_caller' \in Callers
    BY <1>1, <2>1 DEF Callers
  <2> QED BY <1>1, <1>2, <1>3, <2>2 DEF CmosInv, Typed, Memory
<1>8. Begun'
  <2>1. Items(cmos_caller.at)' = Items(cmos_caller.at)
    BY <1>1, <1>2 DEF Items
  <2> QED BY <1>2, <1>6, <2>1 DEF CmosInv, Begun, Early
<1>9. /\ \A i : AuditSeen(i)' <=> AuditSeen(i)
      /\ \A j : AdjustmentSeen(j)' <=> AdjustmentSeen(j)
      /\ RecordSeen' <=> RecordSeen
  BY <1>2 DEF AuditSeen, AdjustmentSeen, RecordSeen
<1>10. Repaired'
  BY <1>4, <1>9, RepairedStays DEF CmosInv
<1>11. Origins'
  <2>1. Left(1)' = Left(1) /\ Left(Rec)' = Left(Rec)
    BY <1>4, FirstWords
  <2>2. /\ May(2)' \subseteq May(2) /\ May(Rec + 2)' \subseteq May(Rec + 2)
        /\ May(Rec)' \subseteq May(Rec)
    BY <1>5, FirstWords
  <2> QED BY <1>1, <1>9, <2>1, <2>2 DEF CmosInv, Origins
<1>12. Copyable'
  <2>1. AuditSeen(0)
    <3>1. cmos_caller.item \in Nat \ {0}
      BY <1>1 DEF Callers
    <3> QED BY <1>6, <3>1 DEF AuditSeen
  <2> DEFINE s == Written(cmos_shadow, h)
             t == Tail(c)
  <2>2. ASSUME PutAt(t, 1) = {}, PutAt(t, 2) = {}
        PROVE  Len(s[2]) = 2 => s[2][2] = s[1]
    <3>1. Left(2)' = crc(<<Left(1)'>>)
      BY <1>9, <1>10, <2>1, FirstWords DEF Repaired
    <3>2. Left(2)' = s[2] /\ Left(1)' = s[1]
      BY <1>1, <1>2, <2>2 DEF Left, LeftBy
    <3>3. s[1] \in Data
      BY <1>3, FirstWords DEF Memory
    <3> QED BY <3>1, <3>2, <3>3, CrcFacts
  <2>3. CASE h = Mark
    <3>1. PutAt(t, 1) = {} /\ PutAt(t, 2) = {}
      BY <1>3, <2>3, NoStores
    <3> QED BY <1>1, <1>2, <2>2, <3>1 DEF Copyable
  <2>4. CASE h # Mark /\ h.at = 1
    <3>1. PutAt(t, 1) = {} /\ PutAt(c, 2) = {}
      BY <1>3, <2>4, FirstWords
    <3>2. PutAt(t, 2) = {}
      BY <1>3, <3>1, FirstWords
    <3> QED BY <1>1, <1>2, <2>2, <3>1, <3>2 DEF Copyable
  <2>5. CASE h # Mark /\ h.at # 1
    <3>1. s[1] = cmos_shadow[1] /\ PutAt(t, 1) = PutAt(c, 1)
      <4>1. s[1] = cmos_shadow[1]
        BY <1>3, <2>5, FirstWords
      <4>2. c \in Seq(Stores)
        BY <1>1 DEF Tidy
      <4>3. PutAt(c, 1) = PutAt(t, 1) \cup (IF h.at = 1 THEN {h.word} ELSE {})
        BY <1>1, <4>2, PutFirst
      <4> QED BY <2>5, <4>1, <4>3
    <3>2. {s[2]} \cup PutAt(t, 2) \subseteq {cmos_shadow[2]} \cup PutAt(c, 2)
      BY <1>3, FirstWords
    <3> QED BY <1>1, <1>2, <1>6, <2>5, <3>1, <3>2 DEF CmosInv, Copyable
  <2> QED BY <2>3, <2>4, <2>5
<1>13. Kept'
  <2> SUFFICES ASSUME intact # Damaged PROVE Kept'
    BY <1>1 DEF Kept, Damaged
  <2>1. Kept /\ ~Unchanged
    BY <1>1 DEF CmosInv, Unchanged
  <2>2. \A j : Asked(j)' <=> Asked(j)
    BY <1>1 DEF Asked
  <2>3. /\ \A i \in 0 .. N - 1 : Left(2 * i + 1)' = Left(2 * i + 1)
        /\ \A j \in 1 .. A : Left(TableAt(j))' = Left(TableAt(j))
        /\ Left(Rec)' = Left(Rec)
    BY <1>4, Places
  <2> QED BY <1>1, <1>2, <1>6, <2>1, <2>2, <2>3 DEF Kept, Early
<1> QED BY <1>7, <1>8, <1>10, <1>11, <1>12, <1>13 DEF CmosInv

\* The interrupt's copy keeps the invariant.
LEMMA CopyKeeps ==
  ASSUME OneVersion, CmosInv, UpdateInterrupt
  PROVE  CmosInv'
<1>1. /\ max_audits = N /\ cmos_caller.at \notin Early /\ cmos_update = TRUE
      /\ cmos_update' = FALSE /\ cmos_ram' = cmos_shadow /\ given' = CopyTaken
      /\ UNCHANGED <<cmos_shadow, max_audits, cmos_caller, intact>>
  BY DEF CmosInv, Typed, UpdateInterrupt, update_cmos, Early
<1>2. given' = [audit |-> {cmos_shadow[1]} \cup PutAt(cmos_caller.stores, 1),
                record |-> {cmos_shadow[Rec]} \cup PutAt(cmos_caller.stores, Rec)]
  <2>1. RecordAt = Rec
    BY <1>1, Looks
  <2>2. AuditAt(0) = 1
    BY FirstWords
  <2> QED BY <1>1, <2>1, <2>2 DEF CopyTaken
<1>3. \A w : /\ Left(w)' = Left(w)
             /\ May(w)' = {cmos_shadow[w]} \cup PutAt(cmos_caller.stores, w)
             /\ May(w)' \subseteq May(w)
  BY <1>1 DEF Left, LeftBy, May
<1>4. Typed'
  <2>1. cmos_shadow[1] \in Data /\ cmos_shadow[Rec] \in Data
    BY FirstWords DEF CmosInv, Typed, Memory
  <2>2. /\ PutAt(cmos_caller.stores, 1) \subseteq Data
        /\ PutAt(cmos_caller.stores, Rec) \subseteq Data
    BY FirstWords, PutData DEF CmosInv, Typed
  <2>3. given' \in [audit : SUBSET Data, record : SUBSET Data]
    BY <1>2, <2>1, <2>2
  <2> QED BY <1>1, <2>3 DEF CmosInv, Typed
<1>5. Begun'
  <2>1. Items(cmos_caller.at)' = Items(cmos_caller.at)
    BY <1>1 DEF Items
  <2> QED BY <1>1, <2>1 DEF CmosInv, Begun
<1>6. /\ \A i : AuditSeen(i)' <=> AuditSeen(i)
      /\ \A j : AdjustmentSeen(j)' <=> AdjustmentSeen(j)
      /\ RecordSeen' <=> RecordSeen
  BY <1>1 DEF AuditSeen, AdjustmentSeen, RecordSeen
<1>7. Repaired'
  BY <1>3, <1>6, RepairedStays DEF CmosInv
<1>8. Origins'
  <2>1. \A x \in May(2)' : Len(x) = 2 => x[2] \in given'.audit
    BY <1>1, <1>2, <1>3 DEF CmosInv, Copyable
  <2>2. \A x \in May(Rec + 2)' :
          Len(x) = 3 => /\ x[2] = x[3] /\ x[2] \in RecordValues
                        /\ x[2] \in May(Rec)' => x[2] \in given'.record
    BY <1>2, <1>3 DEF CmosInv, Origins
  <2>3. Left(1)' \in given'.audit /\ Left(Rec)' \in given'.record
    BY <1>2, <1>3, OnlyIs DEF Left, LeftBy
  <2> QED BY <2>1, <2>2, <2>3 DEF Origins
<1>9. Copyable'
  BY <1>1 DEF Copyable
<1>10. Kept'
  <2>1. \A j : Asked(j)' <=> Asked(j)
    BY <1>1 DEF Asked
  <2>2. Unchanged' <=> Unchanged
    BY <1>1 DEF Unchanged
  <2> QED BY <1>1, <1>3, <2>1, <2>2 DEF CmosInv, Kept, Early, Damaged
<1> QED BY <1>4, <1>5, <1>7, <1>8, <1>9, <1>10 DEF CmosInv

\* The words of the test's pattern are no check data, and no record.
LEMMA PatternFacts ==
  ASSUME OneVersion
  PROVE  /\ Pattern \in Memory
         /\ \A w \in Words : Len(Pattern[w]) = 1
         /\ Pattern[Rec] \notin RecordValues
<1>1. \A w \in Words : w \in Nat /\ 500 + w \in Nat /\ Pattern[w] = Number(500 + w)
  BY Layout DEF Pattern
<1>2. \A w \in Words : Pattern[w] \in Data /\ Pattern[w] \in Cells /\ Len(Pattern[w]) = 1
  BY <1>1, NumberFacts
<1>3. Pattern \in Memory
  <2>1. DOMAIN Pattern = Words /\ Pattern = [w \in Words |-> Pattern[w]]
    BY DEF Pattern
  <2> QED BY <1>2, <2>1 DEF Memory
<1>4. Pattern[Rec] \notin RecordValues
  <2> SUFFICES ASSUME NEW n \in 0 .. 2, Number(500 + Rec) = Number(n)
               PROVE  FALSE
    BY <1>1, FirstWords DEF RecordValues
  <2> QED BY FirstWords DEF Number
<1> QED BY <1>2, <1>3, <1>4

\* Before the start looks, words may also be torn or of the test's pattern.
LEMMA OriginsStay ==
  ASSUME OneVersion, Origins, UNCHANGED given,
         cmos_caller'.at \in Early \/ (cmos_caller'.at = "audits" /\ cmos_caller'.item = 1),
         \A w \in Words : May(w)' \subseteq May(w) \cup {Pattern[w], Torn}
  PROVE  Repaired' /\ Origins'
<1>1. (\A i \in 0 .. N - 1 : ~AuditSeen(i)') /\ (\A j : ~AdjustmentSeen(j)') /\ ~RecordSeen'
  BY DEF AuditSeen, AdjustmentSeen, RecordSeen, Early
<1>2. Repaired'
  BY <1>1 DEF Repaired
<1>7. Len(Torn) = 0 /\ \A w \in Words : Len(Pattern[w]) = 1
  <2>1. Len(Torn) = 0
    BY DEF Torn
  <2> QED BY <2>1, PatternFacts
<1>3. \A x \in May(2)' : Len(x) = 2 => x \in May(2)
  <2>1. May(2)' \subseteq May(2) \cup {Pattern[2], Torn} /\ Len(Pattern[2]) = 1
    BY <1>7, FirstWords
  <2> QED BY <1>7, <2>1
<1>4. \A x \in May(Rec + 2)' : Len(x) = 3 => x \in May(Rec + 2)
  <2>1. /\ May(Rec + 2)' \subseteq May(Rec + 2) \cup {Pattern[Rec + 2], Torn}
        /\ Len(Pattern[Rec + 2]) = 1
    BY <1>7, FirstWords
  <2> QED BY <1>7, <2>1
<1>5. \A v \in RecordValues : v \in May(Rec)' => v \in May(Rec)
  <2>1. Torn \notin RecordValues
    BY NumberFacts DEF RecordValues
  <2> QED BY <2>1, FirstWords, PatternFacts
<1>6. ~AuditSeen(0)' /\ ~RecordSeen'
  BY <1>1, FirstWords
<1> QED BY <1>2, <1>3, <1>4, <1>5, <1>6 DEF Origins

\* A caller with no stores, at the beginning of a stage of the start.
LEMMA AtCaller ==
  ASSUME NEW stage \in Early \cup {"audits", "ready"}
  PROVE  /\ At(stage) \in Callers /\ Tidy(<<>>)
         /\ At(stage).at = stage /\ At(stage).item = 1 /\ At(stage).status = 0
         /\ At(stage).stores = <<>>
<1>1. <<>> \in Seq(Stores)
  OBVIOUS
<1>2. stage \in (Early \cup SetupStages \cup {"ready"}) \ MarkerStages
  BY Stages DEF Early, MarkerStages
<1> QED BY <1>1, <1>2, NoStores DEF At, Callers

\* The start of the driver, up to the first look, keeps the invariant.
LEMMA StartKeeps ==
  ASSUME OneVersion, CmosInv, save_cmos \/ test_cmos \/ test_cmos_fails \/ Restored
  PROVE  CmosInv'
<1> DEFINE from == cmos_caller.at
           to == cmos_caller'.at
<1>1. /\ max_audits = N /\ Typed /\ Begun /\ Origins /\ Kept
      /\ cmos_ram \in Memory /\ cmos_shadow \in Memory
  BY DEF CmosInv, Typed
<1>2. /\ from \in Early /\ cmos_caller.stores = <<>>
      /\ to \in {"test", "restore", "audits"} /\ cmos_caller' = At(to) /\ given' = given
      /\ max_audits' = N
  <2>1. max_audits' \in AuditCounts => max_audits' = N
    BY Layout
  <2>2. from \in Early
    BY DEF save_cmos, test_cmos, test_cmos_fails, Restored, Early
  <2> QED BY <1>1, <2>1, <2>2, AtCaller
          DEF Begun, save_cmos, test_cmos, test_cmos_fails, Restored, Early
<1>3. /\ cmos_caller' \in Callers /\ cmos_caller'.item = 1 /\ cmos_caller'.status = 0
      /\ cmos_caller'.stores = <<>>
  BY <1>2, AtCaller DEF Early
<1>4. /\ intact' = intact
      /\ from = "off" => cmos_shadow' = cmos_ram
      /\ from # "off" => cmos_shadow' = cmos_shadow
      /\ to = "test" <=> from = "off"
      /\ cmos_update' \in BOOLEAN /\ (to # "restore" => ~cmos_update')
  <2>1. CASE save_cmos
    <3>1. to = "test"
      BY <2>1, AtCaller DEF save_cmos, Early
    <3>2. ~resized'
      BY <1>1, <1>2, <2>1 DEF save_cmos
    <3> QED BY <2>1, <3>1, <3>2 DEF save_cmos
  <2>2. CASE test_cmos
    <3>1. to = "restore"
      BY <2>2, AtCaller DEF test_cmos, Early
    <3> QED BY <2>2, <3>1 DEF test_cmos
  <2>3. CASE test_cmos_fails
    <3>1. to = "audits"
      BY <2>3, AtCaller DEF test_cmos_fails
    <3>2. cmos_update = FALSE
      BY <1>1, <2>3 DEF Typed, Begun, test_cmos_fails
    <3> QED BY <2>3, <3>1, <3>2 DEF test_cmos_fails
  <2>4. CASE Restored
    <3>1. to = "audits"
      BY <2>4, AtCaller DEF Restored
    <3> QED BY <2>4, <3>1 DEF Restored, update_cmos
  <2> QED BY <2>1, <2>2, <2>3, <2>4
<1>6. \/ cmos_ram' \in {cmos_ram, cmos_shadow}
      \/ cmos_ram' = Pattern
  BY DEF save_cmos, test_cmos, test_cmos_fails, Restored, update_cmos
<1>7. Typed'
  <2>1. cmos_ram' \in Memory /\ cmos_shadow' \in Memory
    BY <1>1, <1>4, <1>6, PatternFacts
  <2> QED BY <1>1, <1>2, <1>3, <1>4, <2>1, NoStores DEF Typed, Memory
<1>8. Begun'
  <2>1. Items(cmos_caller.at)' \in Nat
    BY <1>2, Layout DEF Items, Defaults, A
  <2> QED BY <1>2, <1>3, <1>4, <2>1 DEF Begun, Early
<1>9. Repaired' /\ Origins'
  <2>1. \A w \in Words : May(w)' \subseteq May(w) \cup {Pattern[w], Torn}
    BY <1>3, <1>4, <1>6, NoStores DEF May
  <2> QED BY <1>1, <1>2, <1>3, <2>1, OriginsStay DEF Early
<1>10. Copyable'
  BY <1>2, <1>4 DEF Copyable, Early
<1>11. Kept'
  <2> SUFFICES ASSUME intact # Damaged PROVE Kept'
    BY <1>4 DEF Kept, Damaged
  <2>1. cmos_shadow' = intact
    BY <1>1, <1>2, <1>4 DEF Kept, Unchanged, Looking, Early
  <2>2. Unchanged'
    BY <1>3, <1>4, <2>1 DEF Unchanged
  <2>3. \A w : Left(w)' = intact[w]
    BY <1>3, <2>1, NoStores DEF Left
  <2>4. intact \in Memory /\ Good(intact)
    BY <1>1 DEF Kept
  <2> QED BY <1>2, <1>4, <2>2, <2>3, <2>4 DEF Kept, Looking, Factory, Resetting, Memory
<1> QED BY <1>7, <1>8, <1>9, <1>10, <1>11 DEF CmosInv

-----------------------------------------------------------------------------
(***************************************************************************)
(* The power, the game, and the first start.                               *)
(***************************************************************************)

\* A power failure keeps the invariant.
LEMMA PowerKeeps ==
  ASSUME OneVersion, CmosInv, PowerFails
  PROVE  CmosInv'
<1>1. /\ max_audits = N /\ Typed /\ Begun /\ Origins
      /\ cmos_ram \in Memory /\ cmos_shadow \in Memory
      /\ cmos_ram' \in LeftInCmos /\ cmos_shadow' = Damaged /\ cmos_update' = FALSE
      /\ cmos_caller' = At("off") /\ given' = given /\ max_audits' = max_audits
  BY DEF CmosInv, Typed, PowerFails
<1>2. /\ cmos_caller' \in Callers /\ cmos_caller'.at = "off" /\ cmos_caller'.item = 1
      /\ cmos_caller'.stores = <<>>
  BY <1>1, AtCaller DEF Early
<1>3. /\ DOMAIN cmos_ram' = Words /\ cmos_ram' = [w \in Words |-> cmos_ram'[w]]
      /\ \A w \in Words : cmos_ram'[w] \in {cmos_ram[w], cmos_shadow[w], Pattern[w], Torn}
  <2>1. ASSUME NEW from, NEW to, NEW mem \in PartCopies(from, to)
        PROVE  /\ DOMAIN mem = Words /\ mem = [w \in Words |-> mem[w]]
               /\ \A w \in Words : mem[w] \in {from[w], to[w], Torn}
    <3>1. PICK n \in 0 .. Cardinality(Words), torn \in BOOLEAN : mem = Copied(from, to, n, torn)
      BY DEF PartCopies
    <3>2. \A w \in Words : mem[w] \in {from[w], to[w], Torn}
      BY <3>1 DEF Copied
    <3> QED BY <3>1, <3>2 DEF Copied
  <2>2. CASE cmos_ram' \in PartCopies(Pattern, cmos_ram)
    BY <2>1, <2>2
  <2>3. CASE cmos_ram' \in PartCopies(cmos_shadow, cmos_ram)
    BY <2>1, <2>3
  <2>4. CASE cmos_ram' = cmos_ram
    BY <1>1, <2>4 DEF Memory
  <2> QED BY <1>1, <2>2, <2>3, <2>4 DEF LeftInCmos
<1>4. cmos_ram' \in Memory
  <2>1. \A w \in Words : cmos_ram'[w] \in Cells /\ (w \notin CheckWords => cmos_ram'[w] \in Data)
    <3>1. Torn \in Data /\ Torn \in Cells
      BY NumberFacts
    <3> QED BY <1>1, <1>3, <3>1, PatternFacts DEF Memory
  <2> QED BY <1>3, <2>1 DEF Memory
<1>5. Typed'
  BY <1>1, <1>2, <1>4, DamagedIsBad, NoStores DEF Typed
<1>6. Begun'
  BY <1>1, <1>2, Stages DEF Begun, MarkerStages
<1>7. Repaired' /\ Origins'
  <2>1. \A w \in Words : May(w)' \subseteq May(w) \cup {Pattern[w], Torn}
    <3>1. \A w \in Words : May(w)' = {cmos_ram'[w], Torn}
      BY <1>1, <1>2, NoStores DEF May, Damaged
    <3> QED BY <1>3, <3>1 DEF May
  <2> QED BY <1>1, <1>2, <2>1, OriginsStay DEF Early
<1>8. Copyable'
  BY <1>1 DEF Copyable
<1>9. Kept'
  <2> SUFFICES ASSUME intact' # Damaged PROVE Kept'
    BY DEF Kept, Damaged
  <2>1. /\ intact' = cmos_ram' /\ AllCheck(cmos_ram')
        /\ \A j \in Adjustments : InRange(cmos_ram', j)
    BY DEF PowerFails
  <2>2. Good(cmos_ram')
    BY <1>1, <2>1, GoodIs
  <2>3. "off" \notin Looking \cup Factory \cup Resetting \cup {"defaults", "reset"}
    BY DEF Looking, Factory, Resetting
  <2> QED BY <1>2, <1>4, <2>1, <2>2, <2>3 DEF Kept, Early
<1> QED BY <1>5, <1>6, <1>7, <1>8, <1>9 DEF CmosInv

\* A call of the running game keeps the invariant.
LEMMA GameKeeps ==
  ASSUME OneVersion, CmosInv, Game
  PROVE  CmosInv'
<1>1. max_audits = N /\ cmos_shadow \in Memory /\ Repaired
  BY DEF CmosInv, Typed
<1>2. cmos_caller.at = "ready" /\ cmos_caller.stores = <<>>
  <2>1. cmos_caller = At("ready")
    BY DEF Game, GameStores, increment_audit
  <2> QED BY <2>1, AtCaller
<1>3. \A stores : GameStores(stores) =>
        /\ cmos_caller' = [At("ready") EXCEPT !.stores = stores]
        /\ cmos_caller'.at = "ready" /\ cmos_caller'.stores = stores
        /\ given' = Giving(stores) /\ intact' = Damaged
        /\ UNCHANGED <<cmos_ram, cmos_shadow, cmos_update, max_audits>>
  BY DEF GameStores, At
<1>4. ASSUME NEW stores, GameStores(stores)
      PROVE  /\ \A i : AuditSeen(i) /\ AuditSeen(i)'
             /\ \A j : AdjustmentSeen(j) /\ AdjustmentSeen(j)'
             /\ RecordSeen /\ RecordSeen'
  BY <1>2, <1>3, <1>4 DEF AuditSeen, AdjustmentSeen, RecordSeen, Early
<1>5. \E c : GameStores(c) /\ Tidy(c) /\ Honest(c) /\ Repaired'
  <2>1. ASSUME NEW i \in Audits \ {max_audits - 1}, increment_audit(i)
        PROVE  \E c : GameStores(c) /\ Tidy(c) /\ Honest(c) /\ Repaired'
    <3> DEFINE n == AsNumber(cmos_shadow[AuditAt(i)]) + 1
    <3>1. i \in 0 .. N - 1 /\ AuditAt(i) = 2 * i + 1
      BY <1>1, Looks
    <3>2. n \in Nat
      BY <1>1, <3>1, Places, ReadNumber DEF Memory
    <3>3. GameStores(set_audit(i, n))
      BY <2>1 DEF increment_audit
    <3> HIDE DEF n
    <3>4. Tidy(set_audit(i, n)) /\ Honest(set_audit(i, n))
      BY <1>1, <3>1, <3>2, AuditStores, CallsHonest
    <3>5. cmos_caller'.stores = set_audit(i, n) /\ UNCHANGED cmos_shadow
      BY <1>3, <3>3
    <3>6. Repaired'
      BY <1>1, <1>2, <1>4, <3>1, <3>2, <3>3, <3>5, AuditRepairs
    <3> QED BY <3>3, <3>4, <3>6
  <2>2. ASSUME NEW j \in Adjustments, NEW n \in Ranges[j].min .. Ranges[j].max,
               GameStores(set_adjustment(cmos_shadow, j, n))
        PROVE  \E c : GameStores(c) /\ Tidy(c) /\ Honest(c) /\ Repaired'
    <3> DEFINE c == set_adjustment(cmos_shadow, j, n)
    <3>1. j \in 1 .. A /\ n \in Nat
      BY Layout
    <3>2. Tidy(c) /\ Honest(c)
      BY <1>1, <3>1, AdjustmentStores, CallsHonest
    <3>3. cmos_caller'.stores = c /\ UNCHANGED cmos_shadow
      BY <1>3, <2>2
    <3>4. Repaired'
      BY <1>1, <1>2, <1>4, <2>2, <3>1, <3>3, AdjustmentRepairs
    <3> QED BY <2>2, <3>2, <3>4
  <2>3. ASSUME NEW n \in 1 .. 2, GameStores(set_generic_record(n))
        PROVE  \E c : GameStores(c) /\ Tidy(c) /\ Honest(c) /\ Repaired'
    <3> DEFINE c == set_generic_record(n)
    <3>1. n \in Nat /\ n \in 0 .. 2
      OBVIOUS
    <3>2. Tidy(c) /\ Honest(c)
      BY <1>1, <3>1, RecordStores, CallsHonest
    <3>3. cmos_caller'.stores = c /\ UNCHANGED cmos_shadow
      BY <1>3, <2>3
    <3>4. Repaired'
      BY <1>1, <1>2, <1>4, <2>3, <3>1, <3>3, RecordRepairs
    <3> QED BY <2>3, <3>2, <3>4
  <2> QED BY <2>1, <2>2, <2>3 DEF Game
<1>6. PICK c : GameStores(c) /\ Tidy(c) /\ Honest(c) /\ Repaired'
  BY <1>5
<1>7. /\ cmos_caller' = [At("ready") EXCEPT !.stores = c]
      /\ cmos_caller'.at = "ready" /\ cmos_caller'.stores = c
      /\ given' = Giving(c) /\ intact' = Damaged
      /\ UNCHANGED <<cmos_ram, cmos_shadow, cmos_update, max_audits>>
  BY <1>3, <1>6
<1>8. /\ given' \in [audit : SUBSET Data, record : SUBSET Data]
      /\ given.audit \subseteq given'.audit /\ given.record \subseteq given'.record
      /\ PutAt(c, 1) \subseteq given'.audit /\ PutAt(c, Rec) \subseteq given'.record
      /\ \A x \in May(2)' : Len(x) = 2 => x[2] \in given'.audit
      /\ \A x \in May(Rec + 2)' :
           Len(x) = 3 => /\ x[2] = x[3] /\ x[2] \in RecordValues
                         /\ x[2] \in May(Rec)' => x[2] \in given'.record
      /\ Copyable'
  <2>1. cmos_caller.at \notin Early /\ cmos_caller'.at = cmos_caller.at
    BY <1>2, <1>7 DEF Early
  <2> QED BY <1>2, <1>6, <1>7, <2>1, CallKeeps
<1>9. Typed'
  <2>1. At("ready") \in Callers /\ c \in Seq(Stores)
    BY <1>6, AtCaller DEF Tidy
  <2>2. [At("ready") EXCEPT !.stores = c] \in Callers
    BY <2>1 DEF Callers
  <2> QED BY <1>6, <1>7, <1>8, <2>2 DEF CmosInv, Typed, Memory
<1>10. Begun'
  BY <1>7, Stages DEF Begun, Early, MarkerStages
<1>11. Origins'
  <2>1. Left(1)' \in given'.audit
    <3>1. Left(1)' \in {Left(1)} \cup PutAt(c, 1)
      BY <1>2, <1>7, LeftNow, OnlyIs DEF Left, LeftBy
    <3>2. Left(1) \in given.audit
      BY <1>4, <1>6 DEF CmosInv, Origins
    <3> QED BY <1>8, <3>1, <3>2
  <2>2. Left(Rec)' \in given'.record
    <3>1. Left(Rec)' \in {Left(Rec)} \cup PutAt(c, Rec)
      BY <1>2, <1>7, LeftNow, OnlyIs DEF Left, LeftBy
    <3>2. Left(Rec) \in given.record
      BY <1>4, <1>6 DEF CmosInv, Origins
    <3> QED BY <1>8, <3>1, <3>2
  <2> QED BY <1>8, <2>1, <2>2 DEF Origins
<1>12. Kept'
  BY <1>7 DEF Kept, Damaged
<1> QED BY <1>6, <1>8, <1>9, <1>10, <1>11, <1>12 DEF CmosInv

\* A CMOS with the defaults is a memory whose first audit and record check.
LEMMA SettledFacts ==
  ASSUME OneVersion, max_audits = N
  PROVE  /\ Settled \in Memory
         /\ Settled[1] = Number(0) /\ Settled[2] = crc(<<Number(0)>>)
         /\ Settled[Rec] = Number(0) /\ Settled[Rec + 2] = crc(<<Number(0), Number(0)>>)
<1>1. /\ N \in Nat /\ N >= 1 /\ A \in Nat /\ A >= 2 /\ Adjustments = 1 .. A
      /\ Words = 1 .. Rec + 2
      /\ \A j \in 1 .. A : Ranges[j].default_val \in Nat
  BY Layout
<1> DEFINE adjustments == [j \in Adjustments |->
                             Number(IF j < FACTORY_RESTORE_ADJ
                                    THEN Ranges[j].default_val ELSE 0)]
<1>2. adjustments \in Seq(Data)
  <2>1. \A j \in 1 .. A : adjustments[j] \in Data
    BY <1>1, NumberFacts
  <2>2. adjustments \in [1 .. A -> Data]
    BY <1>1, <2>1
  <2> HIDE DEF adjustments
  <2> QED BY <1>1, <2>2, SeqDef
<1>3. /\ AdjustmentAt(1) = 2 * N + 1 /\ \A j : AdjustmentAt(j) = 2 * N + j
      /\ AdjustmentsEnd = TableEnd /\ RecordAt = Rec
  BY <1>1 DEF AdjustmentAt, AdjustmentsEnd, RecordAt, TableEnd, Rec, A
<1> DEFINE word(w) ==
             CASE w < AdjustmentAt(1) ->
                    IF w % 2 = 1 THEN Number(0) ELSE crc(<<Number(0)>>)
               [] w \in {AdjustmentAt(j) : j \in Adjustments} ->
                    adjustments[w - AdjustmentAt(0)]
               [] w = AdjustmentsEnd -> crc(adjustments)
               [] w \in {RecordAt, RecordAt + 1} -> Number(0)
               [] w = RecordAt + 2 -> crc(<<Number(0), Number(0)>>)
               [] OTHER -> Torn
<1>4. Settled = [w \in Words |-> word(w)]
  BY DEF Settled
<1> HIDE DEF adjustments
<1>5. Number(0) \in Data /\ Number(0) \in Cells /\ Torn \in Data /\ Torn \in Cells
  BY NumberFacts
<1>6. /\ crc(<<Number(0)>>) \in Cells /\ crc(<<Number(0), Number(0)>>) \in Cells
      /\ crc(adjustments) \in Cells
  BY <1>2, <1>5, CrcFacts
<1>7. ASSUME NEW w \in Words
      PROVE  word(w) \in Cells /\ (w \notin CheckWords => word(w) \in Data)
  <2>1. CASE w < 2 * N + 1
    <3>1. word(w) = IF w % 2 = 1 THEN Number(0) ELSE crc(<<Number(0)>>)
      <4>1. w \notin {AdjustmentAt(j) : j \in Adjustments}
        BY <1>1, <1>3, <2>1
      <4>2. w \notin {AdjustmentsEnd, RecordAt, RecordAt + 1, RecordAt + 2}
        BY <1>1, <1>3, <2>1 DEF TableEnd, Rec
      <4> QED BY <1>3, <2>1, <4>1, <4>2
    <3>2. w % 2 # 1 => w \in CheckWords
      <4> SUFFICES ASSUME w % 2 # 1
                   PROVE  \E i \in 0 .. N - 1 : w = 2 * i + 2
        BY DEF CheckWords
      <4> DEFINE i == (w \div 2) - 1
      <4>1. i \in 0 .. N - 1 /\ w = 2 * i + 2
        BY <1>1, <2>1
      <4> QED BY <4>1
    <3> QED BY <1>5, <1>6, <3>1, <3>2
  <2>2. CASE w \in {AdjustmentAt(j) : j \in Adjustments}
    <3>1. PICK j \in 1 .. A : w = 2 * N + j
      BY <1>1, <1>3, <2>2
    <3>2. ~(w < AdjustmentAt(1)) /\ w \notin {AdjustmentsEnd, RecordAt, RecordAt + 1, RecordAt + 2}
      BY <1>1, <1>3, <3>1 DEF TableEnd, Rec
    <3>3. word(w) = adjustments[w - AdjustmentAt(0)]
      BY <2>2, <3>2
    <3>4. w - AdjustmentAt(0) = j
      BY <1>1, <1>3, <3>1
    <3>5. adjustments[j] \in Data
      BY <1>1, NumberFacts DEF adjustments
    <3> QED BY <3>3, <3>4, <3>5 DEF Data, Cells
  <2>3. CASE ~(w < 2 * N + 1) /\ w \notin {AdjustmentAt(j) : j \in Adjustments}
    <3>1. AdjustmentsEnd \in CheckWords /\ RecordAt + 2 \in CheckWords
      BY <1>3 DEF CheckWords
    <3>2. ~(w < AdjustmentAt(1))
      BY <1>3, <2>3
    <3>3. word(w) \in {crc(adjustments), Number(0), crc(<<Number(0), Number(0)>>), Torn}
      BY <2>3, <3>2
    <3>4. w \notin CheckWords => word(w) \in {Number(0), Torn}
      BY <2>3, <3>1, <3>2
    <3> QED BY <1>5, <1>6, <3>3, <3>4
  <2> QED BY <2>1, <2>2, <2>3
<1>8. ASSUME NEW w \in {Rec, Rec + 2}
      PROVE  word(w) = IF w = Rec THEN Number(0) ELSE crc(<<Number(0), Number(0)>>)
  <2>1. /\ ~(w < AdjustmentAt(1)) /\ w # AdjustmentsEnd
        /\ w \notin {AdjustmentAt(j) : j \in Adjustments}
    BY <1>1, <1>3 DEF TableEnd, Rec
  <2>2. Rec + 2 \notin {Rec, Rec + 1} /\ RecordAt = Rec
    BY <1>1, <1>3 DEF Rec
  <2> QED BY <2>1, <2>2
<1>9. ASSUME NEW w \in {1, 2}
      PROVE  word(w) = IF w = 1 THEN Number(0) ELSE crc(<<Number(0)>>)
  <2>1. /\ w < AdjustmentAt(1) /\ w \notin {AdjustmentAt(j) : j \in Adjustments}
        /\ w \notin {AdjustmentsEnd, RecordAt, RecordAt + 1, RecordAt + 2}
    BY <1>1, <1>3 DEF TableEnd, Rec
  <2>2. 1 % 2 = 1 /\ 2 % 2 # 1
    OBVIOUS
  <2> QED BY <2>1, <2>2
<1> HIDE DEF word
<1>10. Rec \in Words /\ Rec + 2 \in Words /\ 1 \in Words /\ 2 \in Words /\ Rec + 2 # Rec
  BY FirstWords
<1> QED BY <1>4, <1>7, <1>8, <1>9, <1>10 DEF Memory

\* The invariant holds at first.
LEMMA InitHolds ==
  ASSUME OneVersion, CmosInit
  PROVE  CmosInv
<1>1. /\ max_audits = N /\ cmos_shadow = Damaged /\ cmos_update = FALSE
      /\ cmos_caller = At("off") /\ intact = Damaged
  BY Layout DEF CmosInit
<1>2. cmos_ram \in Memory
  BY <1>1, SettledFacts, DamagedIsBad DEF CmosInit
<1>3. /\ cmos_caller \in Callers /\ cmos_caller.at = "off" /\ cmos_caller.item = 1
      /\ cmos_caller.stores = <<>> /\ Tidy(<<>>)
  BY <1>1, AtCaller DEF Early
<1>4. given = [audit |-> {cmos_ram[1]}, record |-> {cmos_ram[Rec]}]
  <2>1. RecordAt = Rec /\ AuditAt(0) = 1
    BY <1>1, Looks, FirstWords
  <2> QED BY <2>1 DEF CmosInit
<1>5. Typed
  <2>1. cmos_ram[1] \in Data /\ cmos_ram[Rec] \in Data
    BY <1>2, FirstWords DEF Memory
  <2>2. given \in [audit : SUBSET Data, record : SUBSET Data]
    BY <1>4, <2>1
  <2> QED BY <1>1, <1>2, <1>3, <2>2, DamagedIsBad DEF Typed
<1>6. Begun
  BY <1>1, <1>3, Stages DEF Begun, MarkerStages
<1>7. (\A i \in 0 .. N - 1 : ~AuditSeen(i)) /\ (\A j : ~AdjustmentSeen(j)) /\ ~RecordSeen
  BY <1>3 DEF AuditSeen, AdjustmentSeen, RecordSeen, Early
<1>8. Repaired
  BY <1>7 DEF Repaired
<1>9. Origins
  <2>1. \A w \in Words : May(w) = {cmos_ram[w], Torn}
    BY <1>1, <1>3, NoStores DEF May, Damaged
  <2>2. Len(Torn) = 0
    BY DEF Torn
  <2>3. CASE cmos_ram = Damaged
    <3>1. \A x \in May(2) \cup May(Rec + 2) : Len(x) = 0
      BY <2>1, <2>2, <2>3, FirstWords DEF Damaged
    <3> QED BY <1>7, <3>1, FirstWords DEF Origins
  <2>4. CASE cmos_ram = Settled
    <3> DEFINE z == Number(0)
    <3>1. /\ cmos_ram[1] = z /\ cmos_ram[2] = crc(<<z>>)
          /\ cmos_ram[Rec] = z /\ cmos_ram[Rec + 2] = crc(<<z, z>>)
      BY <1>1, <2>4, SettledFacts
    <3>2. z \in Data /\ z \in RecordValues
      BY NumberFacts DEF RecordValues
    <3> HIDE DEF z
    <3>3. \A x \in May(2) : Len(x) = 2 => x[2] \in given.audit
      BY <1>4, <2>1, <2>2, <3>1, <3>2, FirstWords, CrcFacts
    <3>4. \A x \in May(Rec + 2) :
            Len(x) = 3 => x[2] = x[3] /\ x[2] \in RecordValues /\ x[2] \in given.record
      BY <1>4, <2>1, <2>2, <3>1, <3>2, FirstWords, CrcFacts
    <3> QED BY <1>7, <3>3, <3>4, FirstWords DEF Origins
  <2> QED BY <2>3, <2>4 DEF CmosInit
<1>10. Copyable
  BY <1>1 DEF Copyable
<1>11. Kept
  BY <1>1 DEF Kept
<1> QED BY <1>5, <1>6, <1>8, <1>9, <1>10, <1>11 DEF CmosInv

\* So does it when nothing happens.
LEMMA StutterKeeps ==
  ASSUME OneVersion, CmosInv, UNCHANGED cmos_vars
  PROVE  CmosInv'
<1>1. UNCHANGED <<cmos_ram, cmos_shadow, cmos_update, max_audits, cmos_caller, given, intact>>
  BY DEF cmos_vars
<1>2. \A w : Left(w)' = Left(w) /\ May(w)' = May(w)
  BY <1>1 DEF Left, LeftBy, May
<1>3. /\ \A i : AuditSeen(i)' <=> AuditSeen(i)
      /\ \A j : AdjustmentSeen(j)' <=> AdjustmentSeen(j)
      /\ RecordSeen' <=> RecordSeen
  BY <1>1 DEF AuditSeen, AdjustmentSeen, RecordSeen
<1>4. Typed'
  BY <1>1 DEF CmosInv, Typed
<1>5. Begun'
  <2>1. Items(cmos_caller.at)' = Items(cmos_caller.at)
    BY <1>1 DEF Items
  <2> QED BY <1>1, <2>1 DEF CmosInv, Begun
<1>6. Repaired'
  BY <1>2, <1>3, RepairedStays DEF CmosInv
<1>7. Origins'
  BY <1>1, <1>2, <1>3 DEF CmosInv, Origins
<1>8. Copyable'
  BY <1>1 DEF CmosInv, Copyable
<1>9. Kept'
  <2>1. Unchanged' <=> Unchanged
    BY <1>1 DEF Unchanged
  <2>2. \A j : Asked(j)' <=> Asked(j)
    BY <1>1 DEF Asked
  <2> QED BY <1>1, <1>2, <2>1, <2>2 DEF CmosInv, Kept, Damaged
<1> QED BY <1>4, <1>5, <1>6, <1>7, <1>8, <1>9 DEF CmosInv

-----------------------------------------------------------------------------
(***************************************************************************)
(* The theorems.                                                           *)
(***************************************************************************)

\* While every version of the game has the same number of audits, the invariant above
\* holds of every start, call, copy and power failure.
THEOREM CmosInvariant == OneVersion => (CmosSpec => []CmosInv)
<1> SUFFICES ASSUME OneVersion PROVE CmosSpec => []CmosInv
  OBVIOUS
<1>1. CmosInit => CmosInv
  BY InitHolds
<1>2. CmosInv /\ [CmosNext]_cmos_vars => CmosInv'
  <2> SUFFICES ASSUME CmosInv, [CmosNext]_cmos_vars
               PROVE  CmosInv'
    OBVIOUS
  <2>1. CASE save_cmos \/ test_cmos \/ test_cmos_fails \/ Restored
    BY <2>1, StartKeeps
  <2>2. CASE WriteShadow
    BY <2>2, WriteKeeps
  <2>3. CASE NextItem
    BY <2>3, ItemKeeps
  <2>4. CASE NextStage
    BY <2>4, StageKeeps
  <2>5. CASE Game
    BY <2>5, GameKeeps
  <2>6. CASE UpdateInterrupt
    BY <2>6, CopyKeeps
  <2>7. CASE PowerFails
    BY <2>7, PowerKeeps
  <2>8. CASE UNCHANGED cmos_vars
    BY <2>8, StutterKeeps
  <2> QED BY <2>1, <2>2, <2>3, <2>4, <2>5, <2>6, <2>7, <2>8 DEF CmosNext, CmosProgram
<1> QED BY <1>1, <1>2, PTL DEF CmosSpec

\* Once the game runs, whatever the power did before, everything it reads checks and is in
\* range, and the first audit and the record hold what was stored there since the last
\* whole copy or what that copy holds: the checks and restores of setup_cmos2, the order of
\* the stores in vcmosdrv.c, and the copy in the interrupt let no mixture through.
THEOREM StoredIsTrusted == OneVersion => (CmosSpec => []StoredTrusted)
<1> SUFFICES ASSUME OneVersion PROVE CmosSpec => []StoredTrusted
  OBVIOUS
<1>1. CmosInv => StoredTrusted
  <2> SUFFICES ASSUME CmosInv, Ready
               PROVE  /\ AllCheck(cmos_shadow)
                      /\ \A j \in Adjustments : InRange(cmos_shadow, j)
                      /\ cmos_shadow[AuditAt(0)] \in given.audit
                      /\ cmos_shadow[RecordAt] \in given.record
                      /\ cmos_shadow[RecordAt] = cmos_shadow[RecordAt + 1]
    BY DEF StoredTrusted
  <2>1. max_audits = N /\ cmos_caller.at = "ready" /\ cmos_caller.stores = <<>>
    BY AtCaller DEF CmosInv, Typed, Ready
  <2>2. /\ \A i \in 0 .. N - 1 : AuditSeen(i)
        /\ \A j \in 1 .. A : AdjustmentSeen(j)
        /\ RecordSeen
    BY <2>1 DEF AuditSeen, AdjustmentSeen, RecordSeen, Early
  <2>3. \A w : Left(w) = cmos_shadow[w]
    BY <2>1, LeftNow
  <2>4. [j \in 1 .. A |-> Left(TableAt(j))] = [j \in 1 .. A |-> cmos_shadow[TableAt(j)]]
    BY <2>3
  <2>5. 1 \in 1 .. A /\ Adjustments = 1 .. A
    BY Layout
  <2>6. Good(cmos_shadow) /\ cmos_shadow[Rec] = cmos_shadow[Rec + 1]
    BY <2>2, <2>3, <2>4, <2>5 DEF CmosInv, Repaired, Good
  <2>7. AllCheck(cmos_shadow) /\ \A j \in Adjustments : InRange(cmos_shadow, j)
    BY <2>1, <2>6, GoodIs
  <2>8. AuditAt(0) = 1 /\ RecordAt = Rec
    BY <2>1, Looks, FirstWords
  <2>9. cmos_shadow[1] \in given.audit /\ cmos_shadow[Rec] \in given.record
    BY <2>2, <2>3, FirstWords DEF CmosInv, Origins
  <2> QED BY <2>6, <2>7, <2>8, <2>9
<1> QED BY <1>1, CmosInvariant, PTL

\* A power failure that leaves a CMOS in which everything checks and is in range loses
\* nothing: once the game runs again it has every audit, and every adjustment and record
\* too unless a restore or a reset had been asked for.
THEOREM NothingLost == OneVersion => (CmosSpec => []KeptAcrossPower)
<1> SUFFICES ASSUME OneVersion PROVE CmosSpec => []KeptAcrossPower
  OBVIOUS
<1>1. CmosInv => KeptAcrossPower
  <2> SUFFICES ASSUME CmosInv, Ready, intact # Damaged
               PROVE  KeptAcrossPower
    BY DEF KeptAcrossPower
  <2>1. max_audits = N /\ cmos_caller.at = "ready" /\ cmos_caller.stores = <<>>
    BY AtCaller DEF CmosInv, Typed, Ready
  <2>2. \A w : Left(w) = cmos_shadow[w]
    BY <2>1, LeftNow
  <2>3. /\ Audits = 0 .. N - 1 /\ Adjustments = 1 .. A /\ RecordAt = Rec
        /\ \A i : AuditAt(i) = 2 * i + 1
        /\ \A j : AdjustmentAt(j) = TableAt(j)
    BY <2>1, Looks, Layout
  <2>4. \A j : get_adjustment(intact, j) = 0 <=> ~Asked(j)
    BY <2>3 DEF get_adjustment, Asked
  <2>5. /\ \A i \in 0 .. N - 1 : cmos_shadow[2 * i + 1] = intact[2 * i + 1]
        /\ \A j \in (1 .. A) \ {FACTORY_RESTORE_ADJ, HIGH_SCORE_RESET_ADJ} :
             Asked(FACTORY_RESTORE_ADJ) \/ cmos_shadow[TableAt(j)] = intact[TableAt(j)]
        /\ \/ Asked(FACTORY_RESTORE_ADJ) \/ Asked(HIGH_SCORE_RESET_ADJ)
           \/ cmos_shadow[Rec] = intact[Rec]
    BY <2>1, <2>2 DEF CmosInv, Kept, Early
  <2> QED BY <2>3, <2>4, <2>5 DEF KeptAcrossPower
<1> QED BY <1>1, CmosInvariant, PTL

=============================================================================
