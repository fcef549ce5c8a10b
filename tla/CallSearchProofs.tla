-------------------------- MODULE CallSearchProofs --------------------------
(***************************************************************************)
(* Proofs about CallSearch: no record is in two places of the pipeline or  *)
(* put back into the pool twice, and the answer is the window of the       *)
(* records that pass, whatever the log, the requests and the sizes of the  *)
(* channels.                                                               *)
(***************************************************************************)
EXTENDS CallSearch, FiniteSetTheorems, TLAPS

-----------------------------------------------------------------------------
(* Sequences *)

\* The last element joins the others.
LEMMA AppendFacts ==
  ASSUME NEW S, NEW s \in Seq(S), NEW e \in S
  PROVE  /\ Append(s, e) \in Seq(S)
         /\ Len(Append(s, e)) = Len(s) + 1
         /\ DOMAIN Append(s, e) = 1..(Len(s) + 1)
         /\ \A i \in 1..Len(s) : Append(s, e)[i] = s[i]
         /\ Append(s, e)[Len(s) + 1] = e
         /\ Range(Append(s, e)) = Range(s) \cup {e}
         /\ IsInjective(s) /\ e \notin Range(s) => IsInjective(Append(s, e))
  <1> DEFINE t == Append(s, e)
  <1>1. t \in Seq(S) /\ Len(t) = Len(s) + 1 /\ DOMAIN t = 1..(Len(s) + 1) /\ Len(s) \in Nat /\ DOMAIN s = 1..Len(s)
    OBVIOUS
  <1>2. \A i \in 1..Len(s) : t[i] = s[i]
    OBVIOUS
  <1>3. t[Len(s) + 1] = e
    OBVIOUS
  <1> HIDE DEF t
  <1>4. Range(t) = Range(s) \cup {e}
    <2>1. ASSUME NEW x \in Range(t) PROVE x \in Range(s) \cup {e}
      <3>1. PICK i \in DOMAIN t : x = t[i]
        BY <2>1 DEF Range
      <3>2. CASE i \in 1..Len(s)
        BY <3>1, <3>2, <1>1, <1>2 DEF Range
      <3>3. CASE i = Len(s) + 1
        BY <3>1, <3>3, <1>3
      <3> QED BY <3>2, <3>3, <1>1
    <2>2. ASSUME NEW x \in Range(s) PROVE x \in Range(t)
      BY <2>2, <1>1, <1>2 DEF Range
    <2>3. e \in Range(t)
      BY <1>1, <1>3 DEF Range
    <2> QED BY <2>1, <2>2, <2>3
  <1>5. ASSUME IsInjective(s), e \notin Range(s) PROVE IsInjective(t)
    <2>1. \A i \in 1..Len(s) : t[i] # e
      BY <1>1, <1>2, <1>5 DEF Range
    <2>2. \A i, j \in 1..Len(s) : t[i] = t[j] => i = j
      BY <1>1, <1>2, <1>5 DEF IsInjective
    <2> QED BY <1>1, <1>3, <2>1, <2>2 DEF IsInjective
  <1> QED BY <1>1, <1>2, <1>3, <1>4, <1>5 DEF t

\* The first element leaves the others.
LEMMA TailFacts ==
  ASSUME NEW S, NEW s \in Seq(S), s # <<>>
  PROVE  /\ Tail(s) \in Seq(S)
         /\ Len(Tail(s)) = Len(s) - 1 /\ Len(s) > 0
         /\ DOMAIN Tail(s) = 1..(Len(s) - 1)
         /\ \A i \in 1..(Len(s) - 1) : Tail(s)[i] = s[i + 1]
         /\ Head(s) = s[1] /\ Head(s) \in S /\ Head(s) \in Range(s)
         /\ Range(s) = {Head(s)} \cup Range(Tail(s))
         /\ IsInjective(s) => IsInjective(Tail(s)) /\ Head(s) \notin Range(Tail(s))
  <1> DEFINE t == Tail(s)
  <1>1. t \in Seq(S) /\ Len(t) = Len(s) - 1 /\ Len(s) > 0 /\ DOMAIN t = 1..(Len(s) - 1) /\ Len(s) \in Nat /\ DOMAIN s = 1..Len(s)
    OBVIOUS
  <1>2. \A i \in 1..(Len(s) - 1) : t[i] = s[i + 1]
    OBVIOUS
  <1>3. Head(s) = s[1] /\ Head(s) \in S
    OBVIOUS
  <1> HIDE DEF t
  <1>4. Head(s) \in Range(s)
    BY <1>1, <1>3 DEF Range
  <1>5. Range(s) = {Head(s)} \cup Range(t)
    <2>1. ASSUME NEW x \in Range(s) PROVE x \in {Head(s)} \cup Range(t)
      <3>1. PICK i \in DOMAIN s : x = s[i]
        BY <2>1 DEF Range
      <3>2. CASE i = 1
        BY <3>1, <3>2, <1>3
      <3>3. CASE i # 1
        <4>1. i - 1 \in 1..(Len(s) - 1) /\ (i - 1) + 1 = i
          BY <1>1, <3>3
        <4>2. t[i - 1] = s[i]
          BY <4>1, <1>2
        <4> QED BY <4>1, <4>2, <3>1, <1>1 DEF Range
      <3> QED BY <3>2, <3>3
    <2>2. ASSUME NEW x \in Range(t) PROVE x \in Range(s)
      <3>1. PICK i \in DOMAIN t : x = t[i]
        BY <2>2 DEF Range
      <3>2. i + 1 \in DOMAIN s /\ x = s[i + 1]
        BY <3>1, <1>1, <1>2
      <3> QED BY <3>2 DEF Range
    <2> QED BY <2>1, <2>2, <1>4
  <1>6. ASSUME IsInjective(s) PROVE IsInjective(t) /\ Head(s) \notin Range(t)
    <2>1. ASSUME NEW i \in DOMAIN t, NEW j \in DOMAIN t, t[i] = t[j] PROVE i = j
      <3>1. i + 1 \in DOMAIN s /\ j + 1 \in DOMAIN s /\ s[i + 1] = s[j + 1]
        BY <2>1, <1>1, <1>2
      <3>2. i + 1 = j + 1
        BY <3>1, <1>6 DEF IsInjective
      <3> QED BY <3>2, <1>1
    <2>2. ASSUME NEW i \in DOMAIN t PROVE t[i] # Head(s)
      <3>1. i + 1 \in DOMAIN s /\ 1 \in DOMAIN s /\ i + 1 # 1 /\ t[i] = s[i + 1]
        BY <1>1, <1>2
      <3> QED BY <3>1, <1>6, <1>3 DEF IsInjective
    <2> QED BY <2>1, <2>2 DEF IsInjective, Range
  <1> QED BY <1>1, <1>2, <1>3, <1>4, <1>5, <1>6 DEF t

\* The empty sequence.
LEMMA EmptyFacts == Range(<<>>) = {} /\ IsInjective(<<>>) /\ Len(<<>>) = 0
  BY DEF Range, IsInjective

\* A sequence has no elements exactly if it is empty.
LEMMA EmptyRange ==
  ASSUME NEW S, NEW s \in Seq(S)
  PROVE  Range(s) \subseteq S /\ Len(s) \in Nat /\ (Len(s) = 0 <=> s = <<>>) /\ (Range(s) = {} <=> s = <<>>)
  <1>1. Len(s) \in Nat /\ DOMAIN s = 1..Len(s) /\ (Len(s) = 0 <=> s = <<>>)
    OBVIOUS
  <1>2. Range(s) \subseteq S
    BY <1>1 DEF Range
  <1>3. CASE s = <<>>
    BY <1>1, <1>2, <1>3, EmptyFacts
  <1>4. CASE s # <<>>
    <2>1. 1 \in DOMAIN s
      BY <1>1, <1>4
    <2> QED BY <1>1, <1>2, <1>4, <2>1 DEF Range
  <1> QED BY <1>3, <1>4

LEMMA IntervalSize == ASSUME NEW n \in Nat PROVE IsFiniteSet(1..n) /\ Cardinality(1..n) = n
  <1>1. IsFiniteSet(1..n) /\ Cardinality(1..n) = IF 1 > n THEN 0 ELSE n - 1 + 1
    BY FS_Interval
  <1> QED BY <1>1

\* A sequence without repetition has as many elements as places.
LEMMA InjectiveLength ==
  ASSUME NEW S, NEW s \in Seq(S), IsInjective(s)
  PROVE  IsFiniteSet(Range(s)) /\ Cardinality(Range(s)) = Len(s)
  <1>1. Len(s) \in Nat /\ DOMAIN s = 1..Len(s)
    OBVIOUS
  <1>2. IsFiniteSet(1..Len(s)) /\ Cardinality(1..Len(s)) = Len(s)
    BY <1>1, IntervalSize
  <1>3. s \in [1..Len(s) -> Range(s)]
    BY <1>1 DEF Range
  <1>4. s \in Bijection(1..Len(s), Range(s))
    BY <1>1, <1>3 DEF Bijection, Injection, Surjection, IsInjective, Range
  <1>5. ExistsBijection(1..Len(s), Range(s))
    BY <1>4 DEF ExistsBijection
  <1> QED BY <1>2, <1>5, FS_Bijection

\* What SetToSeqs() makes of a set.
LEMMA SetToSeqsFacts ==
  ASSUME NEW S, NEW T \in SUBSET S, IsFiniteSet(T), NEW s \in SetToSeqs(T)
  PROVE  s \in Seq(S) /\ IsInjective(s) /\ Range(s) = T /\ Len(s) = Cardinality(T)
  <1>1. Cardinality(T) \in Nat
    BY FS_CardinalityType
  <1>2. s \in [1..Cardinality(T) -> T] /\ \A i, j \in 1..Cardinality(T) : i # j => s[i] # s[j]
    BY DEF SetToSeqs
  <1>3. s \in Seq(S) /\ Len(s) = Cardinality(T) /\ DOMAIN s = 1..Cardinality(T)
    BY <1>1, <1>2
  <1>4. IsInjective(s)
    BY <1>2, <1>3 DEF IsInjective
  <1>5. IsFiniteSet(1..Cardinality(T)) /\ Cardinality(1..Cardinality(T)) = Cardinality(T)
    BY <1>1, IntervalSize
  <1>6. s \in Injection(1..Cardinality(T), T)
    BY <1>2, <1>4 DEF Injection, IsInjective
  <1>7. s \in Surjection(1..Cardinality(T), T)
    BY <1>5, <1>6, FS_Injection
  <1>8. Range(s) = T
    BY <1>2, <1>3, <1>7 DEF Surjection, Range
  <1> QED BY <1>3, <1>4, <1>8

\* The larger and the smaller of two numbers.
LEMMA MaxMin ==
  ASSUME NEW a \in Int, NEW b \in Int
  PROVE  /\ Max({a, b}) = (IF a >= b THEN a ELSE b)
         /\ Min({a, b}) = (IF a <= b THEN a ELSE b)
  <1>1. \A x, y \in {a, b} : (\A z \in {a, b} : x >= z) /\ (\A z \in {a, b} : y >= z) => x = y
    OBVIOUS
  <1>2. \A x, y \in {a, b} : (\A z \in {a, b} : x =< z) /\ (\A z \in {a, b} : y =< z) => x = y
    OBVIOUS
  <1>3. Max({a, b}) \in {a, b} /\ \A z \in {a, b} : Max({a, b}) >= z
    <2>1. \E x \in {a, b} : \A z \in {a, b} : x >= z
      OBVIOUS
    <2> QED BY <2>1 DEF Max
  <1>4. Min({a, b}) \in {a, b} /\ \A z \in {a, b} : Min({a, b}) =< z
    <2>1. \E x \in {a, b} : \A z \in {a, b} : x =< z
      OBVIOUS
    <2> QED BY <2>1 DEF Min
  <1> QED BY <1>1, <1>2, <1>3, <1>4

-----------------------------------------------------------------------------
(* goroutineSearch *)

\* Nothing of the request for goroutines changes.
LEMMA GStutter == ASSUME GInv, UNCHANGED gsearch PROVE GInv'
  BY DEF GInv, GTypes, GInOrder, Wanted

\* A larger number may follow.
LEMMA RisingAppend ==
  ASSUME NEW S \in SUBSET Nat, NEW s \in Seq(S), Rising(s), NEW e \in S, \A x \in Range(s) : x < e
  PROVE  Rising(Append(s, e))
  <1>1. /\ DOMAIN Append(s, e) = 1..(Len(s) + 1) /\ Append(s, e)[Len(s) + 1] = e
        /\ \A i \in 1..Len(s) : Append(s, e)[i] = s[i]
    BY AppendFacts
  <1>2. Len(s) \in Nat /\ DOMAIN s = 1..Len(s)
    OBVIOUS
  <1>3. \A i \in 1..Len(s) : s[i] < e
    BY <1>2 DEF Range
  <1> DEFINE t == Append(s, e)
  <1> HIDE DEF t
  <1>4. ASSUME NEW i \in DOMAIN t, NEW j \in DOMAIN t, i < j PROVE t[i] < t[j]
    <2>1. i \in 1..Len(s) /\ t[i] = s[i]
      BY <1>1, <1>2, <1>4 DEF t
    <2>2. CASE j \in 1..Len(s)
      BY <2>1, <2>2, <1>1, <1>2, <1>4 DEF t, Rising
    <2>3. CASE j = Len(s) + 1
      BY <2>1, <2>3, <1>1, <1>3 DEF t
    <2> QED BY <2>2, <2>3, <1>1, <1>2 DEF t
  <1> QED BY <1>4 DEF t, Rising

\* The first is the smallest, and the others rise.
LEMMA RisingTail ==
  ASSUME NEW S \in SUBSET Nat, NEW s \in Seq(S), s # <<>>, Rising(s)
  PROVE  Rising(Tail(s)) /\ (\A x \in Range(Tail(s)) : Head(s) < x) /\ \A x \in Range(s) : Head(s) <= x
  <1> DEFINE t == Tail(s)
  <1>1. /\ DOMAIN t = 1..(Len(s) - 1) /\ Head(s) = s[1] /\ Len(s) > 0 /\ Head(s) \in S
        /\ \A i \in 1..(Len(s) - 1) : t[i] = s[i + 1]
        /\ Range(s) = {Head(s)} \cup Range(t)
    BY TailFacts
  <1>2. Len(s) \in Nat /\ DOMAIN s = 1..Len(s)
    OBVIOUS
  <1>3. \A i \in DOMAIN t : i + 1 \in DOMAIN s /\ t[i] = s[i + 1] /\ i \in Nat
    BY <1>1, <1>2
  <1> HIDE DEF t
  <1>4. Rising(t)
    BY <1>3 DEF Rising
  <1>5. \A i \in DOMAIN t : s[1] < t[i]
    <2>1. 1 \in DOMAIN s
      BY <1>1, <1>2
    <2>2. ASSUME NEW i \in DOMAIN t PROVE s[1] < t[i]
      <3>1. i + 1 \in DOMAIN s /\ 1 < i + 1
        BY <1>3, <1>1, <1>2
      <3> QED BY <2>1, <3>1, <1>3 DEF Rising
    <2> QED BY <2>2
  <1>6. \A x \in Range(t) : Head(s) < x
    BY <1>5, <1>1 DEF Range
  <1>7. \A x \in Range(t) : x \in Nat
    <2>1. t \in Seq(S)
      BY TailFacts DEF t
    <2> QED BY <2>1, EmptyRange
  <1>8. Head(s) \in Nat
    BY <1>1
  <1>9. \A x \in Range(s) : Head(s) <= x
    BY <1>1, <1>6, <1>7, <1>8
  <1> QED BY <1>4, <1>6, <1>9 DEF t

\* Goroutines are numbers.
LEMMA GidFacts == Gids \in SUBSET Nat
  <1>1. IsFiniteSet(Gids) /\ Gids = 0..(Cardinality(Gids) - 1)
    BY SearchAssumption
  <1>2. Cardinality(Gids) \in Nat
    BY <1>1, FS_CardinalityType
  <1> QED BY <1>1, <1>2

\* A goroutine that is not in the store comes behind all that are.
LEMMA BehindAll == ASSUME NEW g \in Nat, g \notin Gids PROVE Gids \subseteq 0..(g - 1)
  <1>1. IsFiniteSet(Gids) /\ Gids = 0..(Cardinality(Gids) - 1)
    BY SearchAssumption
  <1>2. Cardinality(Gids) \in Nat
    BY <1>1, FS_CardinalityType
  <1> QED BY <1>1, <1>2

\* A request for goroutines starts.
LEMMA GSearchStep ==
  ASSUME GInv, NEW range \in TimeRanges, SearchGoroutines(range)
  PROVE  GInv'
  <1>1. GTypes'
    BY DEF GInv, GTypes, SearchGoroutines
  <1>2. /\ gsearch'.gid = 0 /\ gsearch'.sent = <<>> /\ gsearch'.buf = <<>> /\ gsearch'.pc = "reading"
        /\ gsearch'.writer = "writing"
    BY DEF GInv, GTypes, GInOrder, SearchGoroutines
  <1>3. \A h \in Wanted' : h \in Nat
    BY GidFacts DEF Wanted
  <1>4. Rising(<<>>)
    BY DEF Rising
  <1>5. GInOrder'
    BY <1>2, <1>3, <1>4, EmptyFacts DEF GInOrder
  <1> QED BY <1>1, <1>5 DEF GInv

\* The next record is read: into the channel, if it is in the range.
LEMMA GReadStep == ASSUME GInv, ReadGoroutine PROVE GInv'
  <1> DEFINE g == gsearch.gid
             s == gsearch.sent
             b == gsearch.buf
  <1>1. g \in Nat /\ g \in Gids /\ s \in Seq(Gids) /\ b \in Seq(Gids) /\ Range(s) \subseteq Gids /\ Range(b) \subseteq Gids
    <2>1. g \in Nat /\ g \in Gids /\ s \in Seq(Gids) /\ b \in Seq(Gids)
      BY DEF GInv, GTypes, ReadGoroutine, Gids
    <2> QED BY <2>1, EmptyRange
  <1>2. gsearch.pc = "reading" /\ gsearch'.pc = "reading" /\ gsearch'.writer = gsearch.writer
        /\ gsearch'.range = gsearch.range /\ gsearch'.gid = g + 1 /\ gsearch'.sent = s
    BY DEF GInv, GTypes, ReadGoroutine
  <1>3. Wanted' = Wanted /\ Wanted \subseteq Nat
    BY <1>2, GidFacts DEF Wanted
  <1>4. CASE g \in Wanted /\ gsearch'.buf = Append(b, g)
    <2>1. GTypes'
      <3>1. Append(b, g) \in Seq(Gids)
        BY <1>1, AppendFacts
      <3>2. gsearch' = [gsearch EXCEPT !.gid = g + 1, !.buf = Append(b, g)]
        BY <1>4, <1>2 DEF ReadGoroutine, GInv, GTypes
      <3>3. g + 1 \in Nat
        BY <1>1
      <3> HIDE DEF g
      <3> QED BY <3>1, <3>2, <3>3 DEF GInv, GTypes
    <2>2. \A x \in Range(s) \cup Range(b) : x < g /\ x \in Wanted
      BY DEF GInv, GInOrder
    <2>3. Rising(b)
      BY DEF GInv, GInOrder
    <2>4. Rising(Append(b, g))
      BY <1>1, <2>2, <2>3, RisingAppend, GidFacts
    <2>5. Range(Append(b, g)) = Range(b) \cup {g}
      BY <1>1, AppendFacts
    <2>6. \A h \in Wanted : h < g + 1 => h < g \/ h = g
      BY <1>1, <1>3
    <2>7. GInOrder'
      <3> HIDE DEF g, s, b
      <3>1. \A x \in Range(s) \cup (Range(b) \cup {g}) : x \in Wanted /\ x < g + 1
        <4>1. g \in Nat /\ g < g + 1 /\ g \in Wanted
          BY <1>1, <1>4
        <4>2. \A x \in Nat : x < g => x < g + 1
          BY <4>1
        <4> QED BY <4>1, <4>2, <2>2, <1>3
      <3>2. \A x \in Range(s), y \in Range(b) \cup {g} : x < y
        BY <2>2 DEF GInv, GInOrder, s, b
      <3>3. \A x \in Range(s), h \in Wanted : h < x => h \in Range(s)
        BY DEF GInv, GInOrder, s
      <3>4. gsearch.writer # "failed" => \A h \in Wanted : h < g + 1 => h \in Range(s) \cup (Range(b) \cup {g})
        BY <2>6 DEF GInv, GInOrder, s, b, g
      <3>5. gsearch.writer # "done" /\ Rising(s)
        BY <1>2 DEF GInv, GInOrder, s
      <3> QED BY <3>1, <3>2, <3>3, <3>4, <3>5, <2>4, <2>5, <1>2, <1>3, <1>4 DEF GInOrder
    <2> QED BY <2>1, <2>7 DEF GInv
  <1>5. CASE g \notin Wanted /\ gsearch'.buf = b
    <2>1. GTypes'
      <3>2. gsearch' = [gsearch EXCEPT !.gid = g + 1]
        <4>1. b # Append(b, g)
          <5>1. Len(Append(b, g)) = Len(b) + 1 /\ Len(b) \in Nat
            BY <1>1, AppendFacts, EmptyRange
          <5> QED BY <5>1
        <4> QED BY <1>5, <1>2, <4>1 DEF ReadGoroutine, GInv, GTypes
      <3> QED BY <3>2, <1>1 DEF GInv, GTypes
    <2>2. \A h \in Wanted : h < g + 1 => h < g
      BY <1>1, <1>3, <1>5
    <2>3. \A x \in Range(s) \cup Range(b) : x \in Wanted /\ x < g /\ x < g + 1
      <3>1. \A x \in Range(s) \cup Range(b) : x \in Wanted /\ x < g
        BY DEF GInv, GInOrder
      <3> HIDE DEF g
      <3>2. \A x \in Nat : x < g => x < g + 1
        BY <1>1
      <3> QED BY <3>1, <3>2, <1>3
    <2>4. GInOrder'
      <3>1. gsearch.writer # "failed" => \A h \in Wanted : h < g => h \in Range(s) \cup Range(b)
        BY DEF GInv, GInOrder
      <3>2. /\ Rising(s) /\ Rising(b) /\ \A x \in Range(s), y \in Range(b) : x < y
            /\ \A x \in Range(s), h \in Wanted : h < x => h \in Range(s)
            /\ gsearch.writer # "done"
        BY <1>2 DEF GInv, GInOrder
      <3> HIDE DEF g, s, b
      <3> QED BY <1>2, <1>3, <1>5, <2>2, <2>3, <3>1, <3>2 DEF GInOrder
    <2> QED BY <2>1, <2>4 DEF GInv
  <1>6. (g \in Wanted /\ gsearch'.buf = Append(b, g)) \/ (g \notin Wanted /\ gsearch'.buf = b)
    <2>1. g \in Wanted <=> InRange(gsearch.range, Goroutines[g])
      BY <1>1, <1>2 DEF Wanted
    <2>2. InRange(gsearch.range, Goroutines[g]) => gsearch'.buf = Append(b, g)
      BY DEF ReadGoroutine, GInv, GTypes
    <2>3. ~InRange(gsearch.range, Goroutines[g]) => gsearch'.buf = b
      BY DEF ReadGoroutine, GInv, GTypes
    <2> HIDE DEF g, b
    <2> QED BY <2>1, <2>2, <2>3
  <1> QED BY <1>4, <1>5, <1>6

\* The reader ends, behind the last record or with an error.
LEMMA GEndStep == ASSUME GInv, EndGoroutines \/ GoroutineFails PROVE GInv'
  <1>1. /\ gsearch.pc = "reading" /\ gsearch'.pc \in {"done", "failed"} /\ gsearch'.writer = gsearch.writer
        /\ gsearch'.range = gsearch.range /\ gsearch'.gid = gsearch.gid /\ gsearch'.sent = gsearch.sent
        /\ gsearch'.buf = gsearch.buf
    BY DEF GInv, GTypes, EndGoroutines, GoroutineFails
  <1>2. GTypes'
    BY DEF GInv, GTypes, EndGoroutines, GoroutineFails
  <1>3. Wanted' = Wanted
    BY <1>1 DEF Wanted
  <1>4. gsearch'.pc = "done" => Wanted \subseteq 0..(gsearch.gid - 1)
    <2>1. ASSUME gsearch'.pc = "done" PROVE gsearch.gid \notin Gids /\ gsearch.gid \in Nat
      BY <2>1 DEF GInv, GTypes, EndGoroutines, GoroutineFails, Gids
    <2>2. Wanted \subseteq Gids
      BY DEF Wanted
    <2> QED BY <2>1, <2>2, BehindAll
  <1>5. GInOrder'
    BY <1>1, <1>3, <1>4 DEF GInv, GInOrder
  <1> QED BY <1>2, <1>5 DEF GInv

\* The handler writes a record, or fails to.
LEMMA GWriteStep == ASSUME GInv, WriteGoroutine PROVE GInv'
  <1> DEFINE g == gsearch.gid
             s == gsearch.sent
             b == gsearch.buf
  <1>1. g \in Nat /\ s \in Seq(Gids) /\ b \in Seq(Gids) /\ b # <<>> /\ gsearch.writer = "writing"
    BY DEF GInv, GTypes, WriteGoroutine
  <1>2. gsearch'.pc = gsearch.pc /\ gsearch'.range = gsearch.range /\ gsearch'.gid = g /\ gsearch'.buf = Tail(b)
        /\ gsearch.pc # "idle"
    BY DEF GInv, GTypes, GInOrder, WriteGoroutine
  <1>3. Wanted' = Wanted /\ Wanted \subseteq Nat
    BY <1>2, GidFacts DEF Wanted
  <1>4. Tail(b) \in Seq(Gids) /\ Head(b) \in Gids /\ Head(b) \in Range(b) /\ Range(b) = {Head(b)} \cup Range(Tail(b))
    BY <1>1, TailFacts
  <1>5. Rising(s) /\ Rising(b) /\ \A x \in Range(s), y \in Range(b) : x < y
    BY DEF GInv, GInOrder
  <1>6. Rising(Tail(b)) /\ (\A x \in Range(Tail(b)) : Head(b) < x) /\ (\A x \in Range(b) : Head(b) <= x)
    BY <1>1, <1>5, RisingTail, GidFacts
  <1>7. /\ \A x \in Range(s) \cup Range(b) : x \in Wanted /\ x < g
        /\ \A x \in Range(s), h \in Wanted : h < x => h \in Range(s)
        /\ \A h \in Wanted : h < g => h \in Range(s) \cup Range(b)
        /\ gsearch.pc = "done" => Wanted \subseteq 0..(g - 1)
    BY <1>1 DEF GInv, GInOrder
  <1>8. CASE gsearch' = [gsearch EXCEPT !.buf = Tail(@), !.sent = Append(@, Head(b))]
    <2>1. Append(s, Head(b)) \in Seq(Gids) /\ Range(Append(s, Head(b))) = Range(s) \cup {Head(b)}
      BY <1>1, <1>4, AppendFacts
    <2>2. GTypes'
      BY <1>8, <1>4, <2>1 DEF GInv, GTypes
    <2>3. gsearch'.sent = Append(s, Head(b)) /\ gsearch'.writer = "writing"
      BY <1>8, <1>1 DEF GInv, GTypes
    <2>4. Rising(Append(s, Head(b)))
      BY <1>1, <1>4, <1>5, RisingAppend, GidFacts
    <2> HIDE DEF g, s, b
    <2>5. \A h \in Wanted : h < Head(b) => h \in Range(s)
      <3>1. SUFFICES ASSUME NEW h \in Wanted, h < Head(b) PROVE h \in Range(s)
        OBVIOUS
      <3>2. h \in Nat /\ Head(b) \in Nat /\ Head(b) < g /\ g \in Nat
        BY <1>1, <1>3, <1>4, <1>7, GidFacts
      <3>3. h < g
        BY <3>1, <3>2
      <3>4. h \notin Range(b)
        BY <3>1, <3>2, <1>6
      <3> QED BY <3>3, <3>4, <1>7
    <2>6. \A x \in Range(s) \cup {Head(b)}, h \in Wanted : h < x => h \in Range(s) \cup {Head(b)}
      BY <2>5, <1>7
    <2>7. \A x \in Range(s) \cup {Head(b)}, y \in Range(Tail(b)) : x < y
      BY <1>4, <1>5, <1>6
    <2>8. Range(s) \cup Range(b) = (Range(s) \cup {Head(b)}) \cup Range(Tail(b))
      BY <1>4
    <2>9. GInOrder'
      BY <1>2, <1>3, <1>6, <1>7, <2>1, <2>3, <2>4, <2>6, <2>7, <2>8 DEF GInOrder
    <2> QED BY <2>2, <2>9 DEF GInv
  <1>9. CASE gsearch' = [gsearch EXCEPT !.buf = Tail(@), !.writer = "failed"]
    <2>1. GTypes'
      BY <1>9, <1>4 DEF GInv, GTypes
    <2>2. gsearch'.sent = s /\ gsearch'.writer = "failed"
      BY <1>9, <1>1 DEF GInv, GTypes
    <2> HIDE DEF g, s, b
    <2>3. Range(s) \cup Range(Tail(b)) \subseteq Range(s) \cup Range(b)
      BY <1>4
    <2>4. \A x \in Range(s), y \in Range(Tail(b)) : x < y
      BY <1>4, <1>5
    <2>5. GInOrder'
      BY <1>2, <1>3, <1>5, <1>6, <1>7, <2>2, <2>3, <2>4 DEF GInOrder
    <2> QED BY <2>1, <2>5 DEF GInv
  <1> QED BY <1>8, <1>9 DEF WriteGoroutine

\* The handler has written all that was read.
LEMMA GEndWriterStep == ASSUME GInv, EndWriter PROVE GInv'
  <1>1. /\ gsearch'.pc = gsearch.pc /\ gsearch'.writer = "done" /\ gsearch.writer = "writing"
        /\ gsearch'.range = gsearch.range /\ gsearch'.gid = gsearch.gid /\ gsearch'.sent = gsearch.sent
        /\ gsearch'.buf = gsearch.buf /\ gsearch.buf = <<>> /\ gsearch.pc \in {"done", "failed"}
    BY DEF GInv, GTypes, EndWriter
  <1>2. GTypes'
    BY DEF GInv, GTypes, EndWriter
  <1>3. Wanted' = Wanted
    BY <1>1 DEF Wanted
  <1>4. GInOrder'
    BY <1>1, <1>3 DEF GInv, GInOrder
  <1> QED BY <1>2, <1>4 DEF GInv

\* What the invariant says of the answer.
LEMMA GInvImplies == ASSUME GInv PROVE GoroutinesInOrder
  <1>1. Wanted \subseteq Nat
    BY GidFacts DEF Wanted
  <1>2. ASSUME gsearch.writer = "done", gsearch.pc = "done", NEW h \in Wanted PROVE h \in Range(gsearch.sent)
    <2>1. gsearch.gid \in Nat /\ Wanted \subseteq 0..(gsearch.gid - 1) /\ gsearch.buf = <<>>
      BY <1>2 DEF GInv, GTypes, GInOrder
    <2>2. h < gsearch.gid
      BY <2>1, <1>1, <1>2
    <2> QED BY <2>1, <2>2, <1>2, EmptyFacts DEF GInv, GInOrder
  <1> QED BY <1>2 DEF GInv, GInOrder, GoroutinesInOrder

-----------------------------------------------------------------------------
(* The channels and the places of a record *)

\* What is sent is the last in its channel.
LEMMA PutFacts ==
  ASSUME CallTypes, NEW c \in Chans, NEW id \in Ids, Room(c), chans' = Put(c, id)
  PROVE  /\ ChanTypes'
         /\ chans'[c].buf = Append(chans[c].buf, id) /\ chans'[c].closed = chans[c].closed
         /\ \A d \in Chans \ {c} : chans'[d] = chans[d]
         /\ Range(chans'[c].buf) = Range(chans[c].buf) \cup {id}
         /\ Len(chans'[c].buf) = Len(chans[c].buf) + 1
         /\ IsInjective(chans[c].buf) /\ id \notin Range(chans[c].buf) => IsInjective(chans'[c].buf)
  <1>1. chans \in [Chans -> [buf : Seq(Ids), closed : BOOLEAN]] /\ \A d \in Chans : Len(chans[d].buf) <= BufferSize
    BY DEF CallTypes, ChanTypes
  <1>2. chans[c].buf \in Seq(Ids) /\ chans[c].closed \in BOOLEAN
    BY <1>1
  <1>3. PICK s : s = chans[c].buf
    OBVIOUS
  <1>4. /\ Append(s, id) \in Seq(Ids) /\ Range(Append(s, id)) = Range(s) \cup {id}
        /\ Len(Append(s, id)) = Len(s) + 1
        /\ IsInjective(s) /\ id \notin Range(s) => IsInjective(Append(s, id))
    BY <1>2, <1>3, AppendFacts
  <1>5. PICK t : t = Append(s, id)
    OBVIOUS
  <1>6. chans'[c].buf = t /\ chans'[c].closed = chans[c].closed /\ \A d \in Chans \ {c} : chans'[d] = chans[d]
    BY <1>1, <1>3, <1>5 DEF Put
  <1>7. chans' \in [Chans -> [buf : Seq(Ids), closed : BOOLEAN]]
    <2>1. t \in Seq(Ids)
      BY <1>4, <1>5
    <2>2. chans' = [chans EXCEPT ![c].buf = t]
      BY <1>3, <1>5 DEF Put
    <2> QED BY <2>1, <2>2, <1>1
  <1>8. Len(s) + 1 <= BufferSize
    <2>1. Len(s) < BufferSize /\ Len(s) \in Nat /\ BufferSize \in Nat
      BY <1>2, <1>3, SearchAssumption, EmptyRange DEF Room
    <2> QED BY <2>1
  <1>9. ChanTypes'
    <2>1. Len(chans'[c].buf) <= BufferSize
      BY <1>4, <1>5, <1>6, <1>8
    <2>2. \A d \in Chans : Len(chans'[d].buf) <= BufferSize
      BY <2>1, <1>1, <1>6
    <2> QED BY <2>2, <1>7 DEF ChanTypes
  <1> QED BY <1>3, <1>4, <1>5, <1>6, <1>9

\* What is received was the first in its channel.
LEMMA TakeFacts ==
  ASSUME CallTypes, NEW c \in Chans, Ready(c), chans' = Take(c)
  PROVE  /\ ChanTypes'
         /\ chans'[c].buf = Tail(chans[c].buf) /\ chans'[c].closed = chans[c].closed
         /\ \A d \in Chans \ {c} : chans'[d] = chans[d]
         /\ Head(chans[c].buf) \in Ids /\ Head(chans[c].buf) \in Range(chans[c].buf)
         /\ Range(chans[c].buf) = {Head(chans[c].buf)} \cup Range(chans'[c].buf)
         /\ Len(chans'[c].buf) = Len(chans[c].buf) - 1
         /\ IsInjective(chans[c].buf) => IsInjective(chans'[c].buf) /\ Head(chans[c].buf) \notin Range(chans'[c].buf)
  <1>1. chans \in [Chans -> [buf : Seq(Ids), closed : BOOLEAN]] /\ \A d \in Chans : Len(chans[d].buf) <= BufferSize
    BY DEF CallTypes, ChanTypes
  <1>2. chans[c].buf \in Seq(Ids) /\ chans[c].closed \in BOOLEAN /\ chans[c].buf # <<>>
    BY <1>1 DEF Ready
  <1>3. PICK s : s = chans[c].buf
    OBVIOUS
  <1>4. /\ Tail(s) \in Seq(Ids) /\ Range(s) = {Head(s)} \cup Range(Tail(s)) /\ Head(s) \in Ids /\ Head(s) \in Range(s)
        /\ Len(Tail(s)) = Len(s) - 1
        /\ IsInjective(s) => IsInjective(Tail(s)) /\ Head(s) \notin Range(Tail(s))
    BY <1>2, <1>3, TailFacts
  <1>5. PICK t : t = Tail(s)
    OBVIOUS
  <1>6. chans'[c].buf = t /\ chans'[c].closed = chans[c].closed /\ \A d \in Chans \ {c} : chans'[d] = chans[d]
    BY <1>1, <1>3, <1>5 DEF Take
  <1>7. chans' \in [Chans -> [buf : Seq(Ids), closed : BOOLEAN]]
    <2>1. t \in Seq(Ids)
      BY <1>4, <1>5
    <2>2. chans' = [chans EXCEPT ![c].buf = t]
      BY <1>3, <1>5 DEF Take
    <2> QED BY <2>1, <2>2, <1>1
  <1>8. Len(s) - 1 <= BufferSize
    <2>1. Len(s) <= BufferSize /\ Len(s) \in Nat /\ BufferSize \in Nat
      BY <1>1, <1>2, <1>3, SearchAssumption, EmptyRange
    <2> QED BY <2>1
  <1>9. ChanTypes'
    <2>1. Len(chans'[c].buf) <= BufferSize
      BY <1>4, <1>5, <1>6, <1>8
    <2>2. \A d \in Chans : Len(chans'[d].buf) <= BufferSize
      BY <2>1, <1>1, <1>6
    <2> QED BY <2>2, <1>7 DEF ChanTypes
  <1> QED BY <1>3, <1>4, <1>5, <1>6, <1>9

\* Closing a channel leaves what is in it.
LEMMA CloseFacts ==
  ASSUME CallTypes, NEW c \in Chans, chans' = Close(c)
  PROVE  /\ ChanTypes'
         /\ chans'[c].closed = TRUE
         /\ \A d \in Chans : chans'[d].buf = chans[d].buf
         /\ \A d \in Chans \ {c} : chans'[d].closed = chans[d].closed
  <1>1. chans \in [Chans -> [buf : Seq(Ids), closed : BOOLEAN]] /\ \A d \in Chans : Len(chans[d].buf) <= BufferSize
    BY DEF CallTypes, ChanTypes
  <1>2. chans[c].buf \in Seq(Ids)
    BY <1>1
  <1>3. chans'[c].buf = chans[c].buf /\ chans'[c].closed = TRUE /\ \A d \in Chans \ {c} : chans'[d] = chans[d]
    BY <1>1 DEF Close
  <1>4. chans' \in [Chans -> [buf : Seq(Ids), closed : BOOLEAN]]
    <2>1. chans' = [chans EXCEPT ![c].closed = TRUE]
      BY DEF Close
    <2> QED BY <2>1, <1>1
  <1>5. \A d \in Chans : chans'[d].buf = chans[d].buf
    BY <1>3
  <1>6. ChanTypes'
    BY <1>1, <1>4, <1>5 DEF ChanTypes
  <1> QED BY <1>3, <1>5, <1>6

\* The places by their names.
LEMMA PlaceIs ==
  /\ Place["unread"] = Unread /\ Place["read"] = Range(chans["read"].buf)
  /\ Place["tested"] = {filter.has} \ {None} /\ Place["filtered"] = Range(chans["filtered"].buf)
  /\ Place["limited"] = {sorter.has} \ {None} /\ Place["items"] = Range(sorter.items)
  /\ Place["sorted"] = Range(chans["sorted"].buf) /\ Place["pooled"] = {id \in Ids : pooled[id] > 0}
  BY DEF Place, Places

LEMMA NextPlaceIs ==
  /\ Place'["unread"] = Unread' /\ Place'["read"] = Range(chans'["read"].buf)
  /\ Place'["tested"] = {filter'.has} \ {None} /\ Place'["filtered"] = Range(chans'["filtered"].buf)
  /\ Place'["limited"] = {sorter'.has} \ {None} /\ Place'["items"] = Range(sorter'.items)
  /\ Place'["sorted"] = Range(chans'["sorted"].buf) /\ Place'["pooled"] = {id \in Ids : pooled'[id] > 0}
  BY DEF Place, Places

\* A record that goes from one place to another is then in that one only.
LEMMA Move ==
  ASSUME NEW P, NEW Q, NEW a \in Places, NEW b \in Places, NEW id, Apart(P), id \in P[a],
         Q[a] \subseteq P[a] \ {id}, Q[b] \subseteq P[b] \cup {id}, \A p \in Places \ {a, b} : Q[p] \subseteq P[p]
  PROVE  Apart(Q)
  <1>1. SUFFICES ASSUME NEW p \in Places, NEW q \in Places, p # q, NEW x \in Q[p], x \in Q[q] PROVE FALSE
    BY DEF Apart
  <1>2. \A r \in Places : x \in Q[r] => x \in P[r] \/ (r = b /\ x = id)
    OBVIOUS
  <1>3. CASE x = id
    <2>1. \A r \in Places \ {a} : id \notin P[r]
      BY DEF Apart
    <2> QED BY <1>1, <1>3, <2>1
  <1>4. CASE x # id
    BY <1>1, <1>2, <1>4 DEF Apart
  <1> QED BY <1>3, <1>4

\* Records may leave their places.
LEMMA Shrink ==
  ASSUME NEW P, NEW Q, Apart(P), \A p \in Places : Q[p] \subseteq P[p]
  PROVE  Apart(Q)
  BY DEF Apart

-----------------------------------------------------------------------------
(* What has arrived behind the filter *)

\* Records are numbers.
LEMMA IdFacts == IsFiniteSet(Ids) /\ Cardinality(Ids) \in Nat /\ Ids = 0..(Cardinality(Ids) - 1) /\ Ids \subseteq Nat
  <1>1. IsFiniteSet(Ids) /\ Ids = 0..(Cardinality(Ids) - 1)
    BY SearchAssumption
  <1>2. Cardinality(Ids) \in Nat
    BY <1>1, FS_CardinalityType
  <1>3. Ids \subseteq Nat
    BY <1>1, <1>2
  <1> QED BY <1>1, <1>2, <1>3

\* What passes, and what of it has arrived, can be counted.
LEMMA ArrivedFinite ==
  ASSUME plan \in Plans
  PROVE  /\ Passes \subseteq Ids /\ IsFiniteSet(Passes) /\ Cardinality(Passes) \in Nat
         /\ Arrived \subseteq Passes /\ IsFiniteSet(Arrived) /\ Cardinality(Arrived) \in Nat
         /\ Cardinality(Arrived) <= Cardinality(Passes)
  <1>1. Passes \in SUBSET Ids
    BY DEF Plans, Passes
  <1>2. Arrived \in SUBSET Passes
    BY DEF Arrived
  <1>3. IsFiniteSet(Passes)
    BY <1>1, IdFacts, FS_Subset
  <1>4. IsFiniteSet(Arrived) /\ Cardinality(Arrived) <= Cardinality(Passes)
    BY <1>2, <1>3, FS_Subset
  <1> QED BY <1>1, <1>2, <1>3, <1>4, FS_CardinalityType

\* Nothing arrives when only records that do not pass leave the places before.
LEMMA NoneArrives ==
  ASSUME plan' = plan, Upstream' \cap Passes = Upstream \cap Passes
  PROVE  Arrived' = Arrived
  <1>1. Passes' = Passes
    BY DEF Passes
  <1> QED BY <1>1 DEF Arrived

\* One that passes and leaves them has arrived.
LEMMA OneArrives ==
  ASSUME plan \in Plans, plan' = plan, NEW id \in Passes, id \in Upstream, Upstream' = Upstream \ {id}
  PROVE  /\ Arrived' = Arrived \cup {id} /\ id \notin Arrived
         /\ Cardinality(Arrived') = Cardinality(Arrived) + 1
  <1>1. Passes' = Passes
    BY DEF Passes
  <1>2. Arrived' = Arrived \cup {id} /\ id \notin Arrived
    BY <1>1 DEF Arrived
  <1>3. IsFiniteSet(Arrived)
    BY ArrivedFinite
  <1>4. Cardinality(Arrived \cup {id}) = Cardinality(Arrived) + 1
    BY <1>2, <1>3, FS_AddElement
  <1> QED BY <1>2, <1>4

\* The order of what the sorter sends does not depend on the stages before it.
LEMMA InOrderFrame ==
  ASSUME InOrder, plan' = plan, sent' = sent, chans'["sorted"].buf = chans["sorted"].buf, Outgoing' = Outgoing
  PROVE  InOrder'
  BY DEF InOrder, Sorting, AllBefore, Ordered

\* Nor does the count, unless a record arrives.
LEMMA CountedFrame ==
  ASSUME Counted, plan' = plan, sent' = sent, chans'["sorted"].buf = chans["sorted"].buf, sorter' = sorter,
         ~readDone' => ~readDone /\ Arrived' = Arrived, Undisturbed' => Undisturbed
  PROVE  Counted'
  <1>1. Passes' = Passes /\ WindowSize' = WindowSize /\ OutRange' = OutRange /\ (HasSorter' <=> HasSorter)
        /\ (Sorting' <=> Sorting)
    BY DEF Passes, WindowSize, OutRange, HasSorter, Sorting
  <1>2. ASSUME ~readDone' PROVE Heap' <=> Heap
    BY <1>1, <1>2 DEF Heap
  <1> QED BY <1>1, <1>2 DEF Counted

\* After a failure nothing is counted.
LEMMA CountedOff == ASSUME readDone', ~Undisturbed' PROVE Counted'
  BY DEF Counted

\* What passes depends on the plan only.
LEMMA PassesFrame ==
  ASSUME OnlyPasses, plan' = plan, sent' = sent,
         \A p \in {"tested", "filtered", "limited", "items", "sorted"} : Place'[p] \subseteq Place[p]
  PROVE  OnlyPasses'
  <1>1. Passes' = Passes
    BY DEF Passes
  <1> QED BY <1>1 DEF OnlyPasses

-----------------------------------------------------------------------------
(* The reader *)

\* A record of the store.
LEMMA ReadStoreStep == ASSUME CallInv, ReaderStep(ReadStore) PROVE CallInv'
  <1> USE DEF CallInv
  <1>1. /\ reader.pc \in {"start", "store"} /\ reader.id < stored /\ Room("read") /\ chans' = Put("read", reader.id)
        /\ reader' = [reader EXCEPT !.pc = "store", !.id = @ + 1]
        /\ stored' = stored /\ live' = live /\ plan' = plan /\ status' = status /\ status = "running"
        /\ filter' = filter /\ sorter' = sorter /\ sender' = sender /\ readDone' = readDone /\ ctxDone' = ctxDone
        /\ gone' = gone /\ sent' = sent /\ pooled' = pooled
    BY DEF ReaderStep, ReadStore, Running
  <1>2. reader.id \in Nat /\ stored \in Nat /\ reader.id \in Ids
    BY <1>1, IdFacts DEF CallTypes, Readers
  <1>3. PICK id : id = reader.id
    OBVIOUS
  <1>4. /\ ChanTypes' /\ chans'["read"].closed = chans["read"].closed
        /\ chans'["filtered"] = chans["filtered"] /\ chans'["sorted"] = chans["sorted"]
        /\ Range(chans'["read"].buf) = Range(chans["read"].buf) \cup {id}
        /\ IsInjective(chans["read"].buf) /\ id \notin Range(chans["read"].buf) => IsInjective(chans'["read"].buf)
    BY <1>1, <1>2, <1>3, PutFacts DEF Chans
  <1>5. reader'.pc = "store" /\ reader'.id = id + 1
    BY <1>1, <1>3 DEF CallTypes, Readers
  <1>6. Unread = {x \in Ids : x >= id}
    BY <1>1, <1>3 DEF Unread
  <1>7. Unread' = {x \in Ids : x >= id + 1}
    BY <1>5 DEF Unread
  <1>8. id \in Unread /\ Unread' = Unread \ {id}
    BY <1>2, <1>3, <1>6, <1>7, IdFacts
  <1>9. /\ Place'["unread"] = Place["unread"] \ {id} /\ Place'["read"] = Place["read"] \cup {id} /\ id \in Place["unread"]
        /\ \A p \in Places \ {"unread", "read"} : Place'[p] = Place[p]
    BY <1>1, <1>4, <1>8, PlaceIs, NextPlaceIs DEF Places
  <1>10. CallTypes'
    <2>1. id + 1 \in 0..stored /\ id + 1 \in Nat
      BY <1>1, <1>2, <1>3
    <2>2. reader' = [reader EXCEPT !.pc = "store", !.id = id + 1]
      BY <1>1, <1>3
    <2>3. reader' \in Readers
      BY <2>1, <2>2 DEF CallTypes, Readers
    <2>4. reader'.id <= stored
      BY <2>1, <1>5
    <2> QED BY <1>1, <1>4, <2>3, <2>4 DEF CallTypes
  <1>11. Stages'
    BY <1>1, <1>4, <1>5 DEF Stages, Undisturbed, Drained, HasFilter, HasSorter, SenderIn, SorterIn
  <1>12. OnePlace'
    <2>1. Apart(Place')
      BY <1>9, Move DEF Places, OnePlace
    <2>2. id \notin Range(chans["read"].buf)
      BY <1>9, PlaceIs DEF OnePlace, Apart, Places
    <2>3. \A c \in Chans : IsInjective(chans'[c].buf)
      BY <1>4, <2>2 DEF OnePlace, Chans
    <2> QED BY <1>1, <2>1, <2>3 DEF OnePlace
  <1>13. OnlyPasses'
    BY <1>1, <1>9, PassesFrame DEF Places
  <1>14. InOrder'
    BY <1>1, <1>4, InOrderFrame DEF Outgoing
  <1>15. Counted'
    <2>1. Upstream' = Upstream
      BY <1>9 DEF Upstream, Places
    <2>2. Arrived' = Arrived
      BY <1>1, <2>1, NoneArrives
    <2> QED BY <1>1, <1>4, <2>2, CountedFrame DEF Undisturbed
  <1> QED BY <1>10, <1>11, <1>12, <1>13, <1>14, <1>15

\* The store cannot be read.
LEMMA ReadFailsStep == ASSUME CallInv, ReaderStep(ReadFails) PROVE CallInv'
  <1> USE DEF CallInv
  <1>1. /\ reader.pc \in {"start", "store"} /\ chans' = Close("read")
        /\ reader' = [reader EXCEPT !.pc = "done"]
        /\ stored' = stored /\ live' = live /\ plan' = plan /\ status' = status /\ status = "running"
        /\ filter' = filter /\ sorter' = sorter /\ sender' = sender /\ readDone' = TRUE /\ ctxDone' = TRUE
        /\ gone' = gone /\ sent' = sent /\ pooled' = pooled
    BY DEF ReaderStep, ReadFails, Running
  <1>2. /\ ChanTypes' /\ chans'["read"].closed = TRUE
        /\ chans'["filtered"].closed = chans["filtered"].closed /\ chans'["sorted"].closed = chans["sorted"].closed
        /\ chans'["read"].buf = chans["read"].buf /\ chans'["filtered"].buf = chans["filtered"].buf
        /\ chans'["sorted"].buf = chans["sorted"].buf
    BY <1>1, CloseFacts DEF Chans
  <1>3. reader'.pc = "done"
    BY <1>1 DEF CallTypes, Readers
  <1>4. Unread' = {}
    BY <1>3 DEF Unread
  <1>5. Place'["unread"] = {} /\ \A p \in Places \ {"unread"} : Place'[p] = Place[p]
    <2>1. /\ Place'["read"] = Place["read"] /\ Place'["filtered"] = Place["filtered"] /\ Place'["sorted"] = Place["sorted"]
      BY <1>2, PlaceIs, NextPlaceIs
    <2>2. /\ Place'["tested"] = Place["tested"] /\ Place'["limited"] = Place["limited"]
          /\ Place'["items"] = Place["items"] /\ Place'["pooled"] = Place["pooled"]
      BY <1>1, PlaceIs, NextPlaceIs
    <2> QED BY <1>4, <2>1, <2>2, PlaceIs, NextPlaceIs DEF Places
  <1>6. CallTypes'
    <2>1. reader' \in Readers /\ reader'.id = reader.id
      BY <1>1 DEF CallTypes, Readers
    <2> QED BY <1>1, <1>2, <2>1 DEF CallTypes
  <1>7. Stages'
    BY <1>1, <1>2, <1>3 DEF Stages, Undisturbed, HasFilter, HasSorter, Chans
  <1>8. OnePlace'
    <2>1. Apart(Place')
      BY <1>5, Shrink DEF OnePlace
    <2> QED BY <1>1, <1>2, <2>1 DEF OnePlace, Chans
  <1>9. OnlyPasses'
    BY <1>1, <1>5, PassesFrame DEF Places
  <1>10. InOrder'
    BY <1>1, <1>2, InOrderFrame DEF Outgoing, Chans
  <1>11. Counted'
    BY <1>1, CountedOff DEF Undisturbed
  <1> QED BY <1>6, <1>7, <1>8, <1>9, <1>10, <1>11

\* From the store to the simulator, which has all that the store has not.
LEMMA EndStoreStep == ASSUME CallInv, ReaderStep(EndStore) PROVE CallInv'
  <1> USE DEF CallInv
  <1>1. /\ reader.pc \in {"start", "store"} /\ (reader.id >= stored \/ readDone) /\ chans' = chans
        /\ reader' = [reader EXCEPT !.pc = "sim", !.sim = {id \in live : id >= stored}]
        /\ stored' = stored /\ live' = live /\ plan' = plan /\ status' = status /\ status = "running"
        /\ filter' = filter /\ sorter' = sorter /\ sender' = sender /\ readDone' = readDone /\ ctxDone' = ctxDone
        /\ gone' = gone /\ sent' = sent /\ pooled' = pooled
    BY DEF ReaderStep, EndStore, Running
  <1>2. reader'.pc = "sim" /\ reader'.sim = {x \in live : x >= stored}
    BY <1>1 DEF CallTypes, Readers
  <1>3. /\ reader.id \in Nat /\ stored \in Nat /\ reader.id <= stored /\ live \subseteq Ids
        /\ stored..(Cardinality(Ids) - 1) \subseteq live
    BY DEF CallTypes, Readers, Stages
  <1>4. Unread = {x \in Ids : x >= reader.id} /\ Unread' = {x \in live : x >= stored}
    BY <1>1, <1>2 DEF Unread
  <1>5. Unread' \subseteq Unread /\ (~readDone => Unread' = Unread)
    <2>1. PICK i : i = reader.id
      OBVIOUS
    <2>2. \A x \in Ids : x \in Nat /\ (x >= stored => x \in live)
      BY <1>3, IdFacts
    <2>3. Unread' \subseteq Unread
      BY <1>3, <1>4, <2>1, <2>2
    <2>4. ASSUME ~readDone PROVE i = stored
      BY <1>1, <1>3, <2>1, <2>4
    <2>5. ASSUME ~readDone PROVE Unread \subseteq Unread'
      BY <1>4, <2>1, <2>2, <2>4, <2>5
    <2> QED BY <2>3, <2>5
  <1>6. /\ Place'["unread"] \subseteq Place["unread"] /\ (~readDone => Place'["unread"] = Place["unread"])
        /\ \A p \in Places \ {"unread"} : Place'[p] = Place[p]
    BY <1>1, <1>5, PlaceIs, NextPlaceIs DEF Places
  <1>7. CallTypes'
    <2>1. {x \in live : x >= stored} \in SUBSET Ids
      BY <1>3
    <2>2. reader' \in Readers /\ reader'.id = reader.id
      BY <1>1, <2>1 DEF CallTypes, Readers
    <2>3. ChanTypes'
      BY <1>1 DEF CallTypes, ChanTypes
    <2> QED BY <1>1, <2>2, <2>3 DEF CallTypes
  <1>8. Stages'
    BY <1>1, <1>2 DEF Stages, Undisturbed, HasFilter, HasSorter, Drained, SenderIn, SorterIn
  <1>9. OnePlace'
    <2>1. Apart(Place')
      BY <1>6, Shrink DEF OnePlace
    <2> QED BY <1>1, <2>1 DEF OnePlace
  <1>10. OnlyPasses'
    BY <1>1, <1>6, PassesFrame DEF Places
  <1>11. InOrder'
    BY <1>1, InOrderFrame DEF Outgoing
  <1>12. Counted'
    <2>1. ~readDone => Upstream' = Upstream
      BY <1>6 DEF Upstream, Places
    <2>2. ~readDone => Arrived' = Arrived
      BY <1>1, <2>1, NoneArrives
    <2> QED BY <1>1, <2>2, CountedFrame DEF Undisturbed
  <1> QED BY <1>7, <1>8, <1>9, <1>10, <1>11, <1>12

\* A call of the simulator.
LEMMA ReadSimStep == ASSUME CallInv, ReaderStep(ReadSim) PROVE CallInv'
  <1> USE DEF CallInv
  <1>1. PICK id \in reader.sim : chans' = Put("read", id) /\ reader' = [reader EXCEPT !.sim = @ \ {id}]
    BY DEF ReaderStep, ReadSim
  <1>2. /\ reader.pc = "sim" /\ Room("read")
        /\ stored' = stored /\ live' = live /\ plan' = plan /\ status' = status /\ status = "running"
        /\ filter' = filter /\ sorter' = sorter /\ sender' = sender /\ readDone' = readDone /\ ctxDone' = ctxDone
        /\ gone' = gone /\ sent' = sent /\ pooled' = pooled
    BY DEF ReaderStep, ReadSim, Running
  <1>3. id \in Ids /\ reader.sim \subseteq Ids
    BY DEF CallTypes, Readers
  <1>4. /\ ChanTypes' /\ chans'["read"].closed = chans["read"].closed
        /\ chans'["filtered"] = chans["filtered"] /\ chans'["sorted"] = chans["sorted"]
        /\ Range(chans'["read"].buf) = Range(chans["read"].buf) \cup {id}
        /\ IsInjective(chans["read"].buf) /\ id \notin Range(chans["read"].buf) => IsInjective(chans'["read"].buf)
    BY <1>1, <1>2, <1>3, PutFacts DEF Chans
  <1>5. reader'.pc = "sim" /\ reader'.sim = reader.sim \ {id}
    BY <1>1, <1>2 DEF CallTypes, Readers
  <1>6. Unread' = Unread \ {id} /\ id \in Unread
    BY <1>2, <1>5 DEF Unread
  <1>7. /\ Place'["unread"] = Place["unread"] \ {id} /\ Place'["read"] = Place["read"] \cup {id} /\ id \in Place["unread"]
        /\ \A p \in Places \ {"unread", "read"} : Place'[p] = Place[p]
    BY <1>2, <1>4, <1>6, PlaceIs, NextPlaceIs DEF Places
  <1>8. CallTypes'
    <2>1. reader' \in Readers /\ reader'.id = reader.id
      BY <1>1, <1>3 DEF CallTypes, Readers
    <2> QED BY <1>2, <1>4, <2>1 DEF CallTypes
  <1>9. Stages'
    BY <1>2, <1>4, <1>5 DEF Stages, Undisturbed, Drained, HasFilter, HasSorter, SenderIn, SorterIn
  <1>10. OnePlace'
    <2>1. Apart(Place')
      BY <1>7, Move DEF Places, OnePlace
    <2>2. id \notin Range(chans["read"].buf)
      BY <1>7, PlaceIs DEF OnePlace, Apart, Places
    <2>3. \A c \in Chans : IsInjective(chans'[c].buf)
      BY <1>4, <2>2 DEF OnePlace, Chans
    <2> QED BY <1>2, <2>1, <2>3 DEF OnePlace
  <1>11. OnlyPasses'
    BY <1>2, <1>7, PassesFrame DEF Places
  <1>12. InOrder'
    BY <1>2, <1>4, InOrderFrame DEF Outgoing
  <1>13. Counted'
    <2>1. Upstream' = Upstream
      BY <1>7 DEF Upstream, Places
    <2>2. Arrived' = Arrived
      BY <1>2, <2>1, NoneArrives
    <2> QED BY <1>2, <1>4, <2>2, CountedFrame DEF Undisturbed
  <1> QED BY <1>8, <1>9, <1>10, <1>11, <1>12, <1>13

\* The reader ends: nothing is left to read, or nobody wants it.
LEMMA EndReaderStep == ASSUME CallInv, ReaderStep(EndReader) PROVE CallInv'
  <1> USE DEF CallInv
  <1>1. /\ reader.pc = "sim" /\ (reader.sim = {} \/ readDone) /\ chans' = Close("read")
        /\ reader' = [reader EXCEPT !.pc = "done"]
        /\ stored' = stored /\ live' = live /\ plan' = plan /\ status' = status /\ status = "running"
        /\ filter' = filter /\ sorter' = sorter /\ sender' = sender /\ readDone' = readDone /\ ctxDone' = ctxDone
        /\ gone' = gone /\ sent' = sent /\ pooled' = pooled
    BY DEF ReaderStep, EndReader, Running
  <1>2. /\ ChanTypes' /\ chans'["read"].closed = TRUE
        /\ chans'["filtered"].closed = chans["filtered"].closed /\ chans'["sorted"].closed = chans["sorted"].closed
        /\ chans'["read"].buf = chans["read"].buf /\ chans'["filtered"].buf = chans["filtered"].buf
        /\ chans'["sorted"].buf = chans["sorted"].buf
    BY <1>1, CloseFacts DEF Chans
  <1>3. reader'.pc = "done"
    BY <1>1 DEF CallTypes, Readers
  <1>4. Unread' = {} /\ (~readDone => Unread = {})
    BY <1>1, <1>3 DEF Unread
  <1>5. /\ Place'["unread"] = {} /\ (~readDone => Place["unread"] = {})
        /\ \A p \in Places \ {"unread"} : Place'[p] = Place[p]
    <2>1. /\ Place'["read"] = Place["read"] /\ Place'["filtered"] = Place["filtered"] /\ Place'["sorted"] = Place["sorted"]
      BY <1>2, PlaceIs, NextPlaceIs
    <2>2. /\ Place'["tested"] = Place["tested"] /\ Place'["limited"] = Place["limited"]
          /\ Place'["items"] = Place["items"] /\ Place'["pooled"] = Place["pooled"]
      BY <1>1, PlaceIs, NextPlaceIs
    <2> QED BY <1>4, <2>1, <2>2, PlaceIs, NextPlaceIs DEF Places
  <1>6. CallTypes'
    <2>1. reader' \in Readers /\ reader'.id = reader.id
      BY <1>1 DEF CallTypes, Readers
    <2> QED BY <1>1, <1>2, <2>1 DEF CallTypes
  <1>7. Stages'
    BY <1>1, <1>2, <1>3 DEF Stages, Undisturbed, HasFilter, HasSorter, Drained, SenderIn, SorterIn, Chans
  <1>8. OnePlace'
    <2>1. Apart(Place')
      BY <1>5, Shrink DEF OnePlace
    <2> QED BY <1>1, <1>2, <2>1 DEF OnePlace, Chans
  <1>9. OnlyPasses'
    BY <1>1, <1>5, PassesFrame DEF Places
  <1>10. InOrder'
    BY <1>1, <1>2, InOrderFrame DEF Outgoing, Chans
  <1>11. Counted'
    <2>1. ~readDone => Upstream' = Upstream
      BY <1>5 DEF Upstream, Places
    <2>2. ~readDone => Arrived' = Arrived
      BY <1>1, <2>1, NoneArrives
    <2> QED BY <1>1, <1>2, <2>2, CountedFrame DEF Undisturbed, Chans
  <1> QED BY <1>6, <1>7, <1>8, <1>9, <1>10, <1>11

-----------------------------------------------------------------------------
(* The filter *)

\* What goes back to the pool was not in it.
LEMMA ReturnFacts ==
  ASSUME CallTypes, OnePlace, NEW id \in Ids, id \notin Place["pooled"], Return(id)
  PROVE  /\ pooled' \in [Ids -> Nat] /\ pooled'[id] = 1 /\ \A x \in Ids : pooled'[x] <= 1
         /\ \A x \in Ids : pooled[x] = 1 => pooled'[x] = 1
         /\ Place'["pooled"] = Place["pooled"] \cup {id}
  <1>1. pooled \in [Ids -> Nat] /\ \A x \in Ids : pooled[x] <= 1
    BY DEF CallTypes, OnePlace
  <1>2. pooled[id] = 0
    BY <1>1, PlaceIs
  <1>3. pooled' = [pooled EXCEPT ![id] = 1]
    BY <1>1, <1>2 DEF Return
  <1>4. /\ pooled' \in [Ids -> Nat] /\ pooled'[id] = 1 /\ \A x \in Ids \ {id} : pooled'[x] = pooled[x]
    BY <1>1, <1>3
  <1>5. {x \in Ids : pooled'[x] > 0} = {x \in Ids : pooled[x] > 0} \cup {id}
    BY <1>4
  <1>6. Place'["pooled"] = Place["pooled"] \cup {id}
    BY <1>5, PlaceIs, NextPlaceIs
  <1>7. \A x \in Ids : pooled'[x] <= 1
    BY <1>1, <1>4
  <1>8. \A x \in Ids : pooled[x] = 1 => pooled'[x] = 1
    BY <1>1, <1>4
  <1> QED BY <1>4, <1>6, <1>7, <1>8

\* The filter takes a record, which passes or goes back to the pool.
LEMMA FilterTakeStep ==
  ASSUME CallInv, Running, FilterTake,
         UNCHANGED <<stored, live, plan, status, reader, sorter, sender, readDone, ctxDone, gone, sent>>
  PROVE  CallInv'
  <1> USE DEF CallInv
  <1>1. PICK id : id = Head(chans["read"].buf)
    OBVIOUS
  <1>2. /\ filter.pc = "start" /\ filter.has = None /\ Ready("read") /\ chans' = Take("read")
        /\ stored' = stored /\ live' = live /\ plan' = plan /\ status' = status /\ status = "running"
        /\ reader' = reader /\ sorter' = sorter /\ sender' = sender /\ readDone' = readDone /\ ctxDone' = ctxDone
        /\ gone' = gone /\ sent' = sent
    BY DEF FilterTake, Running
  <1>3. \/ id \notin plan.keep /\ Return(id) /\ filter' = filter
        \/ id \in plan.keep /\ filter' = [filter EXCEPT !.has = id] /\ pooled' = pooled
    BY <1>1 DEF FilterTake, IsFiltered
  <1>4. /\ ChanTypes' /\ chans'["read"].closed = chans["read"].closed
        /\ chans'["filtered"] = chans["filtered"] /\ chans'["sorted"] = chans["sorted"] /\ id \in Ids
        /\ Range(chans["read"].buf) = {id} \cup Range(chans'["read"].buf)
        /\ IsInjective(chans["read"].buf) => IsInjective(chans'["read"].buf) /\ id \notin Range(chans'["read"].buf)
    BY <1>1, <1>2, TakeFacts DEF Chans
  <1>5. IsInjective(chans["read"].buf) /\ HasFilter /\ plan.keep # None /\ Passes = plan.keep
    BY <1>2 DEF OnePlace, Chans, Stages, HasFilter, Passes
  <1>6. /\ Place["read"] = {id} \cup Place'["read"] /\ id \notin Place'["read"] /\ Place["tested"] = {}
        /\ Place'["unread"] = Place["unread"] /\ Place'["filtered"] = Place["filtered"] /\ Place'["limited"] = Place["limited"]
        /\ Place'["items"] = Place["items"] /\ Place'["sorted"] = Place["sorted"]
    <2>1. Unread' = Unread
      BY <1>2 DEF Unread
    <2> QED BY <1>2, <1>4, <1>5, <2>1, PlaceIs, NextPlaceIs
  <1>7. id \notin Place["pooled"] /\ id \in Place["read"] /\ id \notin Place["unread"] /\ id \notin Place["filtered"]
    BY <1>6 DEF OnePlace, Apart, Places
  <1>8. \A c \in Chans : IsInjective(chans'[c].buf)
    BY <1>4, <1>5 DEF OnePlace, Chans
  <1>9. Stages'
    <2>1. filter'.pc = "start"
      BY <1>2, <1>3 DEF CallTypes, Filters
    <2>2. ~Drained("read")
      BY <1>2 DEF Ready, Drained
    <2> QED BY <1>2, <1>4, <1>5, <2>1, <2>2 DEF Stages, Undisturbed, Drained, HasFilter, HasSorter, SenderIn, SorterIn
  <1>10. InOrder'
    BY <1>2, <1>4, InOrderFrame DEF Outgoing
  <1>11. CASE id \notin plan.keep /\ Return(id) /\ filter' = filter
    <2>1. /\ pooled' \in [Ids -> Nat] /\ \A x \in Ids : pooled'[x] <= 1
          /\ \A x \in Ids : pooled[x] = 1 => pooled'[x] = 1
          /\ Place'["pooled"] = Place["pooled"] \cup {id}
      BY <1>4, <1>7, <1>11, ReturnFacts
    <2>2. Place'["tested"] = Place["tested"]
      BY <1>11, PlaceIs, NextPlaceIs
    <2>3. CallTypes'
      BY <1>2, <1>4, <1>11, <2>1 DEF CallTypes
    <2>4. Apart(Place')
      BY <1>6, <1>7, <2>1, <2>2, Move DEF Places, OnePlace
    <2>5. \A x \in Range(sent) : x \in Ids
      BY EmptyRange DEF CallTypes
    <2>6. OnePlace'
      BY <1>2, <1>8, <2>1, <2>4, <2>5 DEF OnePlace
    <2>7. OnlyPasses'
      BY <1>2, <1>6, <2>2, PassesFrame
    <2>8. Upstream' \cap Passes = Upstream \cap Passes
      BY <1>5, <1>6, <1>11, <2>2 DEF Upstream
    <2>9. Arrived' = Arrived
      BY <1>2, <2>8, NoneArrives
    <2>10. Counted'
      BY <1>2, <1>4, <2>9, CountedFrame DEF Undisturbed
    <2> QED BY <1>9, <1>10, <2>3, <2>6, <2>7, <2>10
  <1>12. CASE id \in plan.keep /\ filter' = [filter EXCEPT !.has = id] /\ pooled' = pooled
    <2>1. id # None /\ filter' \in Filters /\ filter'.has = id
      BY <1>4, <1>12, SearchAssumption DEF CallTypes, Filters
    <2>2. Place'["tested"] = {id} /\ Place'["pooled"] = Place["pooled"]
      BY <1>12, <2>1, PlaceIs, NextPlaceIs
    <2>3. CallTypes'
      BY <1>2, <1>4, <1>12, <2>1 DEF CallTypes
    <2>4. Apart(Place')
      BY <1>6, <1>7, <2>2, Move DEF Places, OnePlace
    <2>5. OnePlace'
      BY <1>2, <1>8, <1>12, <2>4 DEF OnePlace
    <2>6. OnlyPasses'
      <3>1. Passes' = Passes
        BY <1>2 DEF Passes
      <3> QED BY <1>2, <1>5, <1>6, <1>12, <2>2, <3>1 DEF OnlyPasses
    <2>7. Upstream' = Upstream
      BY <1>6, <2>2 DEF Upstream
    <2>8. Arrived' = Arrived
      BY <1>2, <2>7, NoneArrives
    <2>9. Counted'
      BY <1>2, <1>4, <2>8, CountedFrame DEF Undisturbed
    <2> QED BY <1>9, <1>10, <2>3, <2>5, <2>6, <2>9
  <1> QED BY <1>3, <1>11, <1>12

\* The filter sends the record that passed.
LEMMA FilterSendStep ==
  ASSUME CallInv, Running, FilterSend,
         UNCHANGED <<stored, live, plan, status, reader, sorter, sender, readDone, ctxDone, gone, sent>>
  PROVE  CallInv'
  <1> USE DEF CallInv
  <1>1. PICK id : id = filter.has
    OBVIOUS
  <1>2. /\ filter.pc = "start" /\ id # None /\ Room("filtered") /\ chans' = Put("filtered", id)
        /\ filter' = [filter EXCEPT !.has = None] /\ pooled' = pooled
        /\ stored' = stored /\ live' = live /\ plan' = plan /\ status' = status /\ status = "running"
        /\ reader' = reader /\ sorter' = sorter /\ sender' = sender /\ readDone' = readDone /\ ctxDone' = ctxDone
        /\ gone' = gone /\ sent' = sent
    BY <1>1 DEF FilterSend, Running
  <1>3. id \in Ids /\ filter' \in Filters /\ filter'.has = None /\ filter'.pc = "start"
    BY <1>1, <1>2 DEF CallTypes, Filters
  <1>4. /\ ChanTypes' /\ chans'["filtered"].closed = chans["filtered"].closed
        /\ chans'["read"] = chans["read"] /\ chans'["sorted"] = chans["sorted"]
        /\ Range(chans'["filtered"].buf) = Range(chans["filtered"].buf) \cup {id}
        /\ IsInjective(chans["filtered"].buf) /\ id \notin Range(chans["filtered"].buf) => IsInjective(chans'["filtered"].buf)
    BY <1>2, <1>3, PutFacts DEF Chans
  <1>5. /\ Place["tested"] = {id} /\ Place'["tested"] = {} /\ Place'["filtered"] = Place["filtered"] \cup {id}
        /\ \A p \in Places \ {"tested", "filtered"} : Place'[p] = Place[p]
    <2>1. Unread' = Unread
      BY <1>2 DEF Unread
    <2>2. /\ Place'["read"] = Place["read"] /\ Place'["filtered"] = Place["filtered"] \cup {id}
          /\ Place'["sorted"] = Place["sorted"]
      BY <1>4, PlaceIs, NextPlaceIs
    <2>3. /\ Place'["unread"] = Place["unread"] /\ Place'["limited"] = Place["limited"]
          /\ Place'["items"] = Place["items"] /\ Place'["pooled"] = Place["pooled"]
      BY <1>2, <2>1, PlaceIs, NextPlaceIs
    <2>4. Place["tested"] = {id} /\ Place'["tested"] = {}
      BY <1>1, <1>2, <1>3, PlaceIs, NextPlaceIs
    <2> QED BY <2>2, <2>3, <2>4 DEF Places
  <1>6. CallTypes'
    BY <1>2, <1>3, <1>4 DEF CallTypes
  <1>7. Stages'
    BY <1>1, <1>2, <1>3, <1>4 DEF Stages, Undisturbed, Drained, HasFilter, HasSorter, SenderIn, SorterIn
  <1>8. OnePlace'
    <2>1. Apart(Place')
      <3>1. /\ "tested" \in Places /\ "filtered" \in Places /\ id \in Place["tested"]
            /\ Place'["tested"] \subseteq Place["tested"] \ {id} /\ Place'["filtered"] \subseteq Place["filtered"] \cup {id}
            /\ \A p \in Places \ {"tested", "filtered"} : Place'[p] \subseteq Place[p]
        BY <1>5 DEF Places
      <3> QED BY <3>1, Move DEF OnePlace
    <2>2. id \notin Range(chans["filtered"].buf)
      BY <1>5, PlaceIs DEF OnePlace, Apart, Places
    <2>3. \A c \in Chans : IsInjective(chans'[c].buf)
      BY <1>4, <2>2 DEF OnePlace, Chans
    <2> QED BY <1>2, <2>1, <2>3 DEF OnePlace
  <1>9. OnlyPasses'
    <2>1. Passes' = Passes
      BY <1>2 DEF Passes
    <2> QED BY <1>2, <1>5, <2>1 DEF OnlyPasses, Places
  <1>10. InOrder'
    BY <1>2, <1>4, InOrderFrame DEF Outgoing
  <1>11. Counted'
    <2>1. Upstream' = Upstream
      BY <1>5 DEF Upstream, Places
    <2>2. Arrived' = Arrived
      BY <1>2, <2>1, NoneArrives
    <2> QED BY <1>2, <1>4, <2>2, CountedFrame DEF Undisturbed
  <1> QED BY <1>6, <1>7, <1>8, <1>9, <1>10, <1>11

\* The filter ends: the reader has ended, or nobody wants its records.
LEMMA EndFilterStep ==
  ASSUME CallInv, Running, EndFilter,
         UNCHANGED <<stored, live, plan, status, reader, sorter, sender, readDone, ctxDone, gone, sent>>
  PROVE  CallInv'
  <1> USE DEF CallInv
  <1>1. /\ filter.pc = "start" /\ (readDone \/ (filter.has = None /\ Drained("read"))) /\ chans' = Close("filtered")
        /\ filter' = [filter EXCEPT !.pc = "done", !.has = None] /\ pooled' = pooled
        /\ stored' = stored /\ live' = live /\ plan' = plan /\ status' = status /\ status = "running"
        /\ reader' = reader /\ sorter' = sorter /\ sender' = sender /\ readDone' = readDone /\ ctxDone' = ctxDone
        /\ gone' = gone /\ sent' = sent
    BY DEF EndFilter, Running
  <1>2. /\ ChanTypes' /\ chans'["filtered"].closed = TRUE
        /\ chans'["read"].closed = chans["read"].closed /\ chans'["sorted"].closed = chans["sorted"].closed
        /\ chans'["read"].buf = chans["read"].buf /\ chans'["filtered"].buf = chans["filtered"].buf
        /\ chans'["sorted"].buf = chans["sorted"].buf
    BY <1>1, CloseFacts DEF Chans
  <1>3. filter' \in Filters /\ filter'.has = None /\ filter'.pc = "done"
    BY <1>1 DEF CallTypes, Filters
  <1>4. Place'["tested"] = {} /\ (~readDone => Place["tested"] = {}) /\ \A p \in Places \ {"tested"} : Place'[p] = Place[p]
    <2>1. Unread' = Unread
      BY <1>1 DEF Unread
    <2>2. /\ Place'["read"] = Place["read"] /\ Place'["filtered"] = Place["filtered"] /\ Place'["sorted"] = Place["sorted"]
      BY <1>2, PlaceIs, NextPlaceIs
    <2>3. /\ Place'["unread"] = Place["unread"] /\ Place'["limited"] = Place["limited"]
          /\ Place'["items"] = Place["items"] /\ Place'["pooled"] = Place["pooled"]
      BY <1>1, <2>1, PlaceIs, NextPlaceIs
    <2> QED BY <1>1, <1>3, <2>2, <2>3, PlaceIs, NextPlaceIs DEF Places
  <1>5. CallTypes'
    BY <1>1, <1>2, <1>3 DEF CallTypes
  <1>6. Stages'
    BY <1>1, <1>2, <1>3 DEF Stages, Undisturbed, Drained, HasFilter, HasSorter, SenderIn, SorterIn
  <1>7. OnePlace'
    <2>1. Apart(Place')
      BY <1>4, Shrink DEF OnePlace
    <2> QED BY <1>1, <1>2, <2>1 DEF OnePlace, Chans
  <1>8. OnlyPasses'
    BY <1>1, <1>4, PassesFrame DEF Places
  <1>9. InOrder'
    BY <1>1, <1>2, InOrderFrame DEF Outgoing
  <1>10. Counted'
    <2>1. ~readDone => Upstream' = Upstream
      BY <1>4 DEF Upstream, Places
    <2>2. ~readDone => Arrived' = Arrived
      BY <1>1, <2>1, NoneArrives
    <2> QED BY <1>1, <1>2, <2>2, CountedFrame DEF Undisturbed
  <1> QED BY <1>5, <1>6, <1>7, <1>8, <1>9, <1>10

-----------------------------------------------------------------------------
(* The channel behind the filter *)

\* It holds records that pass.
LEMMA SorterInFacts ==
  ASSUME CallInv
  PROVE  /\ SorterIn \in {"read", "filtered"} /\ SorterIn \in Chans /\ SorterIn \in Places
         /\ Place[SorterIn] = Range(chans[SorterIn].buf) /\ Place[SorterIn] \subseteq Passes
  <1>1. CASE HasFilter
    <2>1. SorterIn = "filtered"
      BY <1>1 DEF SorterIn
    <2> QED BY <2>1, PlaceIs DEF CallInv, OnlyPasses, Chans, Places
  <1>2. CASE ~HasFilter
    <2>1. SorterIn = "read" /\ Passes = Ids
      BY <1>2 DEF SorterIn, HasFilter, Passes
    <2>2. chans["read"].buf \in Seq(Ids)
      BY DEF CallInv, CallTypes, ChanTypes, Chans
    <2>3. Range(chans["read"].buf) \subseteq Ids
      BY <2>2, EmptyRange
    <2> QED BY <2>1, <2>3, PlaceIs DEF Chans, Places
  <1> QED BY <1>1, <1>2

\* A record that is taken from it has arrived.
LEMMA InputTaken ==
  ASSUME CallInv, Ready(SorterIn), chans' = Take(SorterIn), reader' = reader, filter' = filter, plan' = plan,
         NEW id, id = Head(chans[SorterIn].buf)
  PROVE  /\ ChanTypes' /\ id \in Ids /\ id \in Passes /\ id \in Place[SorterIn] /\ id \notin Place["pooled"]
         /\ id \notin Place["items"] /\ id \notin Place["sorted"]
         /\ Place'[SorterIn] = Place[SorterIn] \ {id}
         /\ \A p \in {"unread", "read", "tested", "filtered"} \ {SorterIn} : Place'[p] = Place[p]
         /\ chans'["sorted"] = chans["sorted"]
         /\ chans'["read"].closed = chans["read"].closed /\ chans'["filtered"].closed = chans["filtered"].closed
         /\ \A c \in Chans : IsInjective(chans'[c].buf)
         /\ Arrived' = Arrived \cup {id} /\ id \notin Arrived
         /\ Cardinality(Arrived') = Cardinality(Arrived) + 1
  <1>1. PICK c : c = SorterIn
    OBVIOUS
  <1>2. c \in {"read", "filtered"} /\ c \in Chans /\ c \in Places /\ Place[c] = Range(chans[c].buf) /\ Place[c] \subseteq Passes
    BY <1>1, SorterInFacts
  <1>3. IsInjective(chans[c].buf) /\ CallTypes
    BY <1>2 DEF CallInv, OnePlace
  <1>4. /\ ChanTypes' /\ chans'[c].closed = chans[c].closed /\ id \in Ids /\ id \in Range(chans[c].buf)
        /\ \A d \in Chans \ {c} : chans'[d] = chans[d]
        /\ Range(chans[c].buf) = {id} \cup Range(chans'[c].buf)
        /\ IsInjective(chans'[c].buf) /\ id \notin Range(chans'[c].buf)
    BY <1>1, <1>2, <1>3, TakeFacts
  <1>5. chans'["sorted"] = chans["sorted"] /\ chans'["read"].closed = chans["read"].closed
        /\ chans'["filtered"].closed = chans["filtered"].closed
    BY <1>2, <1>4 DEF Chans
  <1>6. \A d \in Chans : IsInjective(chans'[d].buf)
    BY <1>3, <1>4 DEF CallInv, OnePlace
  <1>7. Place'[c] = Range(chans'[c].buf)
    BY <1>2, NextPlaceIs
  <1>8. Place'[c] = Place[c] \ {id} /\ id \in Place[c]
    BY <1>2, <1>4, <1>7
  <1>9. \A p \in {"unread", "read", "tested", "filtered"} \ {c} : Place'[p] = Place[p]
    <2>1. Unread' = Unread
      BY DEF Unread
    <2>2. Place'["unread"] = Place["unread"] /\ Place'["tested"] = Place["tested"]
      BY <2>1, PlaceIs, NextPlaceIs
    <2>3. ASSUME NEW p \in {"read", "filtered"}, p # c PROVE Place'[p] = Place[p]
      BY <2>3, <1>4, PlaceIs, NextPlaceIs DEF Chans
    <2> QED BY <2>2, <2>3
  <1>10. \A p \in Places \ {c} : id \notin Place[p]
    BY <1>2, <1>8 DEF CallInv, OnePlace, Apart
  <1>11. id \in Upstream /\ Upstream' = Upstream \ {id}
    <2>1. CASE c = "read"
      BY <2>1, <1>8, <1>9, <1>10 DEF Upstream, Places
    <2>2. CASE c = "filtered"
      BY <2>2, <1>8, <1>9, <1>10 DEF Upstream, Places
    <2> QED BY <2>1, <2>2, <1>2
  <1>12. id \in Passes
    BY <1>2, <1>8
  <1>13. /\ Arrived' = Arrived \cup {id} /\ id \notin Arrived
         /\ Cardinality(Arrived') = Cardinality(Arrived) + 1
    BY <1>3, <1>11, <1>12, OneArrives DEF CallTypes
  <1>14. id \notin Place["pooled"] /\ id \notin Place["items"] /\ id \notin Place["sorted"]
    BY <1>2, <1>10 DEF Places
  <1> QED BY <1>1, <1>4, <1>5, <1>6, <1>8, <1>9, <1>12, <1>13, <1>14

\* When it is drained, and nothing stopped the reader, all have arrived.
LEMMA AllArrived ==
  ASSUME CallInv, reader.pc # "off", ~readDone, Drained(SorterIn)
  PROVE  Arrived = Passes
  <1>1. reader.pc = "done" /\ filter.has = None /\ chans["read"].buf = <<>> /\ chans["filtered"].buf = <<>>
    <2>1. CASE HasFilter
      BY <2>1 DEF CallInv, Stages, CallTypes, Filters, Drained, SorterIn
    <2>2. CASE ~HasFilter
      BY <2>2 DEF CallInv, Stages, CallTypes, Filters, Drained, SorterIn
    <2> QED BY <2>1, <2>2
  <1>2. Unread = {}
    BY <1>1 DEF Unread
  <1>3. Place["unread"] = {} /\ Place["read"] = {} /\ Place["tested"] = {} /\ Place["filtered"] = {}
    BY <1>1, <1>2, PlaceIs, EmptyFacts
  <1> QED BY <1>3 DEF Arrived, Upstream

\* Taking from it does not touch a channel that the filter has left.
LEMMA SorterInStages ==
  ASSUME CallInv, reader.pc # "off", Ready(SorterIn), chans' = Take(SorterIn)
  PROVE  /\ filter.pc = "off" => chans'["filtered"] = chans["filtered"]
         /\ filter.pc = "done" => chans'["read"] = chans["read"]
  <1>1. CallTypes
    BY DEF CallInv
  <1>2. CASE HasFilter
    <2>1. SorterIn = "filtered" /\ filter.pc # "off"
      BY <1>2 DEF CallInv, Stages, SorterIn
    <2>2. chans'["read"] = chans["read"]
      BY <1>1, <2>1, TakeFacts DEF Chans
    <2> QED BY <2>1, <2>2
  <1>3. CASE ~HasFilter
    <2>1. SorterIn = "read" /\ filter.pc = "off"
      BY <1>3 DEF CallInv, Stages, SorterIn
    <2>2. chans'["filtered"] = chans["filtered"]
      BY <1>1, <2>1, TakeFacts DEF Chans
    <2> QED BY <2>1, <2>2
  <1> QED BY <1>2, <1>3

-----------------------------------------------------------------------------
(* The limiter *)

\* The limiter takes a record, to drop it or to send it.
LEMMA LimitTakeStep ==
  ASSUME CallInv, Running, LimitTake,
         UNCHANGED <<stored, live, plan, status, reader, filter, sender, ctxDone, gone, sent, pooled>>
  PROVE  CallInv'
  <1> USE DEF CallInv
  <1>1. PICK id : id = Head(chans[SorterIn].buf)
    OBVIOUS
  <1>2. /\ sorter.pc = "start" /\ plan.less = None /\ sorter.has = None /\ sorter.n < plan.offset + plan.rows
        /\ Ready(SorterIn) /\ chans' = Take(SorterIn)
        /\ sorter' = [sorter EXCEPT !.n = @ + 1, !.has = IF sorter.n < plan.offset THEN None ELSE id]
        /\ stored' = stored /\ live' = live /\ plan' = plan /\ status' = status /\ status = "running"
        /\ reader' = reader /\ filter' = filter /\ sender' = sender /\ readDone' = readDone /\ ctxDone' = ctxDone
        /\ gone' = gone /\ sent' = sent /\ pooled' = pooled
    BY <1>1 DEF LimitTake, Limits, Dropping, Running
  <1>3. /\ reader.pc # "off" /\ HasSorter /\ plan.rows > 0 /\ plan.rows \in Int /\ plan.offset \in Nat /\ sorter.n \in Nat
        /\ ~readDone \/ ~Undisturbed
    BY <1>2 DEF Stages, CallTypes, Sorters, Plans, HasSorter
  <1>4. PICK c : c = SorterIn
    OBVIOUS
  <1>5. /\ ChanTypes' /\ id \in Ids /\ id \in Passes /\ id \in Place[c]
        /\ Place'[c] = Place[c] \ {id} /\ c \in {"read", "filtered"}
        /\ \A p \in {"unread", "read", "tested", "filtered"} \ {c} : Place'[p] = Place[p]
        /\ chans'["sorted"] = chans["sorted"]
        /\ chans'["read"].closed = chans["read"].closed /\ chans'["filtered"].closed = chans["filtered"].closed
        /\ \A d \in Chans : IsInjective(chans'[d].buf)
    BY <1>1, <1>2, <1>4, InputTaken, SorterInFacts
  <1>6. Cardinality(Arrived') = Cardinality(Arrived) + 1
    BY <1>1, <1>2, InputTaken
  <1>7. /\ filter.pc = "off" => chans'["filtered"] = chans["filtered"]
        /\ filter.pc = "done" => chans'["read"] = chans["read"]
    BY <1>2, <1>3, SorterInStages
  <1>8. PICK n : n = sorter.n
    OBVIOUS
  <1>9. PICK h : h = (IF n < plan.offset THEN None ELSE id)
    OBVIOUS
  <1>10. /\ sorter' \in Sorters /\ sorter'.n = n + 1 /\ sorter'.has = h /\ sorter'.pc = "start"
         /\ sorter'.items = sorter.items
    <2>1. h \in Ids \cup {None} /\ n + 1 \in Nat
      BY <1>3, <1>5, <1>8, <1>9
    <2>2. sorter' = [sorter EXCEPT !.n = n + 1, !.has = h]
      BY <1>2, <1>8, <1>9
    <2> QED BY <1>2, <2>1, <2>2 DEF CallTypes, Sorters
  <1>11. /\ Place["limited"] = {} /\ Place'["limited"] \subseteq {id} /\ Place'["items"] = Place["items"]
         /\ Place'["sorted"] = Place["sorted"] /\ Place'["pooled"] = Place["pooled"]
    <2>1. {h} \ {None} \subseteq {id}
      BY <1>9
    <2> QED BY <1>2, <1>5, <1>10, <2>1, PlaceIs, NextPlaceIs
  <1>12. CallTypes'
    <2>1. Max({plan.rows, 0}) = plan.rows
      BY <1>3, MaxMin
    <2>2. n + 1 <= plan.offset + plan.rows
      BY <1>2, <1>3, <1>8
    <2> QED BY <1>2, <1>5, <1>10, <2>1, <2>2 DEF CallTypes
  <1>13. Stages'
    BY <1>2, <1>3, <1>5, <1>7, <1>10 DEF Stages, Undisturbed, Drained, HasFilter, HasSorter, SenderIn, SorterIn
  <1>14. OnePlace'
    <2>1. Apart(Place')
      BY <1>5, <1>11, Move DEF Places, OnePlace
    <2> QED BY <1>2, <1>5, <1>10, <2>1 DEF OnePlace
  <1>15. OnlyPasses'
    <2>1. Passes' = Passes
      BY <1>2 DEF Passes
    <2>2. Place'["tested"] = Place["tested"] /\ Place'["filtered"] \subseteq Place["filtered"]
      BY <1>5
    <2> QED BY <1>2, <1>5, <1>11, <2>1, <2>2 DEF OnlyPasses
  <1>16. InOrder'
    BY <1>2 DEF InOrder, Sorting
  <1>17. Counted'
    <2>1. plan \in Plans /\ HasSorter' /\ plan'.less = None /\ sorter'.pc = "start"
      BY <1>2, <1>3, <1>10 DEF CallTypes, HasSorter
    <2>2. ASSUME ~readDone
          PROVE  /\ n + 1 = Cardinality(Arrived')
                 /\ Len(sent) + Len(chans["sorted"].buf) + (IF h = None THEN 0 ELSE 1) = Max({(n + 1) - plan.offset, 0})
      <3>1. n = Cardinality(Arrived) /\ Len(sent) + Len(chans["sorted"].buf) + 0 = Max({n - plan.offset, 0})
        BY <1>2, <1>3, <1>8, <2>2 DEF Counted
      <3>2. PICK k : k = Len(sent) + Len(chans["sorted"].buf)
        OBVIOUS
      <3>3. n \in Nat /\ plan.offset \in Nat /\ k \in Nat
        <4>1. sent \in Seq(Ids) /\ chans["sorted"].buf \in Seq(Ids)
          BY DEF CallTypes, ChanTypes, Chans
        <4>2. Len(sent) \in Nat /\ Len(chans["sorted"].buf) \in Nat
          BY <4>1, EmptyRange
        <4> QED BY <1>3, <1>8, <3>2, <4>2
      <3>4. Max({n - plan.offset, 0}) = IF n - plan.offset >= 0 THEN n - plan.offset ELSE 0
        BY <3>3, MaxMin
      <3>5. Max({(n + 1) - plan.offset, 0}) = IF (n + 1) - plan.offset >= 0 THEN (n + 1) - plan.offset ELSE 0
        BY <3>3, MaxMin
      <3>6. h = None <=> n < plan.offset
        BY <1>5, <1>9, SearchAssumption
      <3>7. k + (IF h = None THEN 0 ELSE 1) = Max({(n + 1) - plan.offset, 0})
        <4>1. k = Max({n - plan.offset, 0})
          BY <3>1, <3>2, <3>3
        <4>2. CASE n < plan.offset
          <5>1. k = 0 /\ Max({(n + 1) - plan.offset, 0}) = 0
            BY <4>1, <4>2, <3>3, <3>4, <3>5
          <5> QED BY <5>1, <4>2, <3>6
        <4>3. CASE ~(n < plan.offset)
          <5>1. k = n - plan.offset /\ Max({(n + 1) - plan.offset, 0}) = (n + 1) - plan.offset
            BY <4>1, <4>3, <3>3, <3>4, <3>5
          <5> QED BY <5>1, <4>3, <3>3, <3>6
        <4> QED BY <4>2, <4>3
      <3> QED BY <1>6, <3>1, <3>2, <3>7
    <2>3. Undisturbed' => Undisturbed
      BY <1>2 DEF Undisturbed
    <2> QED BY <1>2, <1>5, <1>10, <2>1, <2>2 DEF Counted
  <1> QED BY <1>12, <1>13, <1>14, <1>15, <1>16, <1>17

\* The limiter sends the record that it has.
LEMMA LimitSendStep ==
  ASSUME CallInv, Running, LimitSend,
         UNCHANGED <<stored, live, plan, status, reader, filter, sender, ctxDone, gone, sent, pooled>>
  PROVE  CallInv'
  <1> USE DEF CallInv
  <1>1. PICK id : id = sorter.has
    OBVIOUS
  <1>2. /\ sorter.pc = "start" /\ plan.less = None /\ id # None /\ Room("sorted") /\ chans' = Put("sorted", id)
        /\ sorter' = [sorter EXCEPT !.has = None]
        /\ stored' = stored /\ live' = live /\ plan' = plan /\ status' = status /\ status = "running"
        /\ reader' = reader /\ filter' = filter /\ sender' = sender /\ readDone' = readDone /\ ctxDone' = ctxDone
        /\ gone' = gone /\ sent' = sent /\ pooled' = pooled
    BY <1>1 DEF LimitSend, Limits, Running
  <1>3. /\ id \in Ids /\ sorter' \in Sorters /\ sorter'.has = None /\ sorter'.pc = "start" /\ sorter'.n = sorter.n
        /\ sorter'.items = sorter.items
    BY <1>1, <1>2 DEF CallTypes, Sorters
  <1>4. /\ ChanTypes' /\ chans'["sorted"].closed = chans["sorted"].closed
        /\ chans'["read"] = chans["read"] /\ chans'["filtered"] = chans["filtered"]
        /\ Range(chans'["sorted"].buf) = Range(chans["sorted"].buf) \cup {id}
        /\ Len(chans'["sorted"].buf) = Len(chans["sorted"].buf) + 1
        /\ IsInjective(chans["sorted"].buf) /\ id \notin Range(chans["sorted"].buf) => IsInjective(chans'["sorted"].buf)
    BY <1>2, <1>3, PutFacts DEF Chans
  <1>5. /\ Place["limited"] = {id} /\ Place'["limited"] = {} /\ Place'["sorted"] = Place["sorted"] \cup {id}
        /\ \A p \in Places \ {"limited", "sorted"} : Place'[p] = Place[p]
    <2>1. Unread' = Unread
      BY <1>2 DEF Unread
    <2>2. /\ Place'["read"] = Place["read"] /\ Place'["filtered"] = Place["filtered"]
          /\ Place'["sorted"] = Place["sorted"] \cup {id}
      BY <1>4, PlaceIs, NextPlaceIs
    <2>3. /\ Place'["unread"] = Place["unread"] /\ Place'["tested"] = Place["tested"] /\ Place'["pooled"] = Place["pooled"]
      BY <1>2, <2>1, PlaceIs, NextPlaceIs
    <2>4. Place["limited"] = {id} /\ Place'["limited"] = {} /\ Place'["items"] = Place["items"]
      BY <1>1, <1>2, <1>3, PlaceIs, NextPlaceIs
    <2> QED BY <2>2, <2>3, <2>4 DEF Places
  <1>6. CallTypes'
    BY <1>2, <1>3, <1>4 DEF CallTypes
  <1>7. Stages'
    BY <1>2, <1>3, <1>4 DEF Stages, Undisturbed, Drained, HasFilter, HasSorter, SenderIn, SorterIn
  <1>8. OnePlace'
    <2>1. Apart(Place')
      BY <1>5, Move DEF Places, OnePlace
    <2>2. id \notin Range(chans["sorted"].buf)
      BY <1>5, PlaceIs DEF OnePlace, Apart, Places
    <2>3. \A c \in Chans : IsInjective(chans'[c].buf)
      BY <1>4, <2>2 DEF OnePlace, Chans
    <2> QED BY <1>2, <1>3, <2>1, <2>3 DEF OnePlace
  <1>9. OnlyPasses'
    <2>1. Passes' = Passes
      BY <1>2 DEF Passes
    <2> QED BY <1>2, <1>5, <2>1 DEF OnlyPasses, Places
  <1>10. InOrder'
    BY <1>2 DEF InOrder, Sorting
  <1>11. Counted'
    <2>1. Upstream' = Upstream
      BY <1>5 DEF Upstream, Places
    <2>2. Arrived' = Arrived
      BY <1>2, <2>1, NoneArrives
    <2>3. HasSorter /\ HasSorter'
      BY <1>2 DEF Stages, HasSorter
    <2>4. ASSUME ~readDone
          PROVE  /\ sorter'.n = Cardinality(Arrived')
                 /\ Len(sent) + Len(chans'["sorted"].buf) + 0 = Max({sorter'.n - plan.offset, 0})
      <3>1. /\ sorter.n = Cardinality(Arrived)
            /\ Len(sent) + Len(chans["sorted"].buf) + 1 = Max({sorter.n - plan.offset, 0})
        BY <1>1, <1>2, <2>3, <2>4 DEF Counted
      <3>2. Len(sent) \in Nat /\ Len(chans["sorted"].buf) \in Nat
        <4>1. sent \in Seq(Ids) /\ chans["sorted"].buf \in Seq(Ids)
          BY DEF CallTypes, ChanTypes, Chans
        <4> QED BY <4>1, EmptyRange
      <3>3. Len(sent) + Len(chans'["sorted"].buf) + 0 = Len(sent) + Len(chans["sorted"].buf) + 1
        BY <1>4, <3>2
      <3> QED BY <1>3, <2>2, <3>1, <3>3
    <2> QED BY <1>2, <1>3, <2>3, <2>4 DEF Counted
  <1> QED BY <1>6, <1>7, <1>8, <1>9, <1>10, <1>11

\* How many records a plan asks for.
LEMMA WindowIs ==
  ASSUME plan \in Plans, NEW m, m = Cardinality(Passes)
  PROVE  /\ m \in Nat /\ WindowSize \in Int
         /\ plan.rows <= 0 => WindowSize = m
         /\ plan.rows > 0 /\ m - plan.offset >= plan.rows => WindowSize = plan.rows
         /\ plan.rows > 0 /\ m - plan.offset <= plan.rows => WindowSize = Max({m - plan.offset, 0})
  <1>1. m \in Nat /\ plan.rows \in Int /\ plan.offset \in Nat
    BY ArrivedFinite DEF Plans
  <1>2. PICK r, o : r = plan.rows /\ o = plan.offset
    OBVIOUS
  <1>3. r \in Int /\ o \in Nat /\ m \in Nat
    BY <1>1, <1>2
  <1>4. Max({m - o, 0}) = IF m - o >= 0 THEN m - o ELSE 0
    BY <1>3, MaxMin
  <1>5. PICK x : x = Max({m - o, 0})
    OBVIOUS
  <1>6. x \in Int /\ (x = IF m - o >= 0 THEN m - o ELSE 0)
    BY <1>3, <1>4, <1>5
  <1>7. Min({x, r}) = IF x <= r THEN x ELSE r
    BY <1>3, <1>6, MaxMin
  <1>8. WindowSize = IF r > 0 THEN Min({x, r}) ELSE m
    BY <1>2, <1>5 DEF WindowSize
  <1>9. CASE r > 0 /\ m - o >= r
    <2>1. x = m - o
      BY <1>3, <1>6, <1>9
    <2>2. Min({x, r}) = r
      BY <1>3, <1>7, <1>9, <2>1
    <2> QED BY <1>1, <1>2, <1>3, <1>5, <1>8, <1>9, <2>1, <2>2
  <1>10. CASE r > 0 /\ m - o <= r
    <2>1. x <= r
      BY <1>3, <1>6, <1>10
    <2>2. Min({x, r}) = x
      BY <1>7, <2>1
    <2>3. m - o >= r => x = r
      BY <1>3, <1>6, <1>10
    <2>4. WindowSize = x
      BY <1>8, <1>10, <2>2
    <2>5. ~(r <= 0)
      BY <1>3, <1>10
    <2> QED BY <1>2, <1>3, <1>5, <1>6, <2>3, <2>4, <2>5
  <1>11. CASE r <= 0
    BY <1>1, <1>2, <1>3, <1>8, <1>11
  <1> QED BY <1>3, <1>9, <1>10, <1>11

\* The sorter ends: it closes its channel and stops the reader.
LEMMA EndSorterFacts ==
  ASSUME CallInv, Running, EndSorter, sorter.has = None, sorter.pc \in {"start", "out"},
         UNCHANGED <<stored, live, plan, status, reader, filter, sender, ctxDone, gone, sent, pooled>>
  PROVE  /\ CallTypes' /\ Stages' /\ OnePlace' /\ OnlyPasses' /\ InOrder'
         /\ sorter'.pc = "done" /\ sorter'.items = <<>> /\ readDone' = TRUE /\ chans'["sorted"].buf = chans["sorted"].buf
  <1> USE DEF CallInv
  <1>1. /\ sorter' = [sorter EXCEPT !.pc = "done", !.items = <<>>] /\ chans' = Close("sorted") /\ readDone' = TRUE
        /\ stored' = stored /\ live' = live /\ plan' = plan /\ status' = status /\ status = "running"
        /\ reader' = reader /\ filter' = filter /\ sender' = sender /\ ctxDone' = ctxDone
        /\ gone' = gone /\ sent' = sent /\ pooled' = pooled
    BY DEF EndSorter, Running
  <1>2. /\ ChanTypes' /\ chans'["sorted"].closed = TRUE
        /\ chans'["read"].closed = chans["read"].closed /\ chans'["filtered"].closed = chans["filtered"].closed
        /\ chans'["read"].buf = chans["read"].buf /\ chans'["filtered"].buf = chans["filtered"].buf
        /\ chans'["sorted"].buf = chans["sorted"].buf
    BY <1>1, CloseFacts DEF Chans
  <1>3. /\ sorter' \in Sorters /\ sorter'.pc = "done" /\ sorter'.items = <<>> /\ sorter'.has = None
        /\ sorter'.n = sorter.n
    <2>1. <<>> \in Seq(Ids)
      OBVIOUS
    <2> QED BY <1>1, <2>1 DEF CallTypes, Sorters
  <1>4. Place'["items"] = {} /\ \A p \in Places \ {"items"} : Place'[p] = Place[p]
    <2>1. Unread' = Unread
      BY <1>1 DEF Unread
    <2>2. /\ Place'["read"] = Place["read"] /\ Place'["filtered"] = Place["filtered"] /\ Place'["sorted"] = Place["sorted"]
      BY <1>2, PlaceIs, NextPlaceIs
    <2>3. /\ Place'["unread"] = Place["unread"] /\ Place'["tested"] = Place["tested"] /\ Place'["pooled"] = Place["pooled"]
      BY <1>1, <2>1, PlaceIs, NextPlaceIs
    <2>4. Place'["limited"] = Place["limited"] /\ Place'["items"] = {}
      BY <1>3, PlaceIs, NextPlaceIs, EmptyFacts
    <2> QED BY <2>2, <2>3, <2>4 DEF Places
  <1>5. CallTypes'
    BY <1>1, <1>2, <1>3 DEF CallTypes
  <1>6. Stages'
    BY <1>1, <1>2, <1>3 DEF Stages, Undisturbed, Drained, HasFilter, HasSorter, SenderIn, SorterIn
  <1>7. OnePlace'
    <2>1. Apart(Place')
      BY <1>4, Shrink DEF OnePlace
    <2> QED BY <1>1, <1>2, <1>3, <2>1, EmptyFacts DEF OnePlace, Chans
  <1>8. OnlyPasses'
    BY <1>1, <1>4, PassesFrame DEF Places
  <1>9. InOrder'
    <2>1. Outgoing' = <<>>
      BY <1>3 DEF Outgoing
    <2>2. Ordered(<<>>, plan.less)
      BY DEF Ordered
    <2>3. Range(<<>>) = {}
      BY EmptyFacts
    <2> QED BY <1>1, <1>2, <2>1, <2>2, <2>3 DEF InOrder, Sorting, AllBefore, Ordered
  <1> QED BY <1>1, <1>2, <1>3, <1>5, <1>6, <1>7, <1>8, <1>9

\* The limiter ends: it has sent the window, or there is no more, or a failure ends it.
LEMMA EndLimitStep ==
  ASSUME CallInv, Running, EndLimit,
         UNCHANGED <<stored, live, plan, status, reader, filter, sender, ctxDone, gone, sent, pooled>>
  PROVE  CallInv'
  <1>1. /\ sorter.pc = "start" /\ plan.less = None /\ sorter.has = None /\ EndSorter
        /\ sorter.n = plan.offset + plan.rows \/ Drained(SorterIn) \/ ctxDone
    BY DEF EndLimit, Limits
  <1>2. /\ CallTypes' /\ Stages' /\ OnePlace' /\ OnlyPasses' /\ InOrder'
        /\ sorter'.pc = "done" /\ sorter'.items = <<>> /\ readDone' = TRUE /\ chans'["sorted"].buf = chans["sorted"].buf
    BY <1>1, EndSorterFacts
  <1>3. Counted'
    <2>1. SUFFICES ASSUME Undisturbed' PROVE Counted'
      BY <1>2 DEF Counted
    <2>2. plan' = plan /\ sent' = sent /\ ctxDone' = ctxDone /\ sender' = sender /\ plan \in Plans
      BY DEF CallInv, CallTypes
    <2>3. Undisturbed
      BY <2>1, <2>2 DEF Undisturbed
    <2>4. ~readDone /\ ~ctxDone /\ reader.pc # "off" /\ HasSorter
      BY <1>1, <2>3 DEF CallInv, Stages, Undisturbed, Running
    <2>5. PICK n, o, r, m : n = sorter.n /\ o = plan.offset /\ r = plan.rows /\ m = Cardinality(Passes)
      OBVIOUS
    <2>6. n \in Nat /\ o \in Nat /\ r \in Int /\ r > 0 /\ m \in Nat /\ n <= m
      <3>1. n \in Nat /\ o \in Nat /\ r \in Int
        BY <2>2, <2>5 DEF CallInv, CallTypes, Sorters, Plans
      <3>2. r > 0
        BY <1>1, <2>4, <2>5 DEF HasSorter
      <3>3. n = Cardinality(Arrived)
        BY <1>1, <2>4, <2>5 DEF CallInv, Counted
      <3>4. m \in Nat /\ n <= m
        BY <2>2, <2>5, <3>3, ArrivedFinite
      <3> QED BY <3>1, <3>2, <3>4
    <2>7. Len(sent) + Len(chans["sorted"].buf) + 0 = Max({n - o, 0})
      BY <1>1, <2>4, <2>5 DEF CallInv, Counted
    <2>8. Max({n - o, 0}) = WindowSize
      <3>1. CASE n = o + r
        <4>1. Max({n - o, 0}) = r
          <5>1. Max({n - o, 0}) = IF n - o >= 0 THEN n - o ELSE 0
            BY <2>6, MaxMin
          <5>2. n - o = r /\ n - o >= 0
            BY <2>6, <3>1
          <5> QED BY <5>1, <5>2
        <4>2. m - o >= r
          BY <2>6, <3>1
        <4>3. WindowSize = r
          BY <2>2, <2>5, <2>6, <4>2, WindowIs
        <4> QED BY <4>1, <4>3
      <3>2. CASE Drained(SorterIn)
        <4>1. n = m
          BY <2>4, <2>5, <3>2, <1>1, AllArrived DEF CallInv, Counted
        <4>2. n <= o + r
          <5>1. Max({r, 0}) = r
            BY <2>6, MaxMin
          <5> QED BY <2>5, <5>1 DEF CallInv, CallTypes
        <4>3. m - o <= r
          BY <2>6, <4>1, <4>2
        <4> QED BY <2>2, <2>5, <2>6, <4>1, <4>3, WindowIs
      <3> QED BY <1>1, <2>4, <2>5, <3>1, <3>2
    <2>9. Len(sent') + Len(chans'["sorted"].buf) + Len(sorter'.items) = WindowSize
      BY <1>2, <2>2, <2>7, <2>8, EmptyFacts
    <2>10. WindowSize' = WindowSize /\ ~Sorting'
      BY <1>1, <2>2 DEF WindowSize, Passes, Sorting
    <2> QED BY <1>2, <2>9, <2>10 DEF Counted
  <1> QED BY <1>2, <1>3 DEF CallInv

-----------------------------------------------------------------------------
(* The sorter *)

\* The order of two records is that of their keys.
LEMMA KeyInt ==
  ASSUME NEW key \in {"id", "start-time", "end-time"}, NEW id \in Ids
  PROVE  Key(key, id) \in Int
  <1>1. id \in Int
    BY IdFacts
  <1>2. Recs[id].start \in Int /\ Recs[id].end \in Int
    BY SearchAssumption
  <1>3. CASE key = "id"
    BY <1>1, <1>3 DEF Key
  <1>4. CASE key = "start-time"
    BY <1>2, <1>4 DEF Key
  <1>5. CASE key = "end-time"
    BY <1>2, <1>5 DEF Key
  <1> QED BY <1>3, <1>4, <1>5

\* It is a total one, in which records may be equal.
LEMMA LessFacts ==
  ASSUME plan \in Plans, Sorting, NEW a \in Ids, NEW b \in Ids, NEW c \in Ids
  PROVE  /\ ~Less(plan.less, a, a)
         /\ Less(plan.less, a, b) => ~Less(plan.less, b, a)
         /\ ~Less(plan.less, b, a) /\ ~Less(plan.less, c, b) => ~Less(plan.less, c, a)
  <1>1. plan.less.key \in {"id", "start-time", "end-time"}
    BY DEF Plans, Orders, Sorting
  <1>2. PICK x, y, z : x = Key(plan.less.key, a) /\ y = Key(plan.less.key, b) /\ z = Key(plan.less.key, c)
    OBVIOUS
  <1>3. x \in Int /\ y \in Int /\ z \in Int
    BY <1>1, <1>2, KeyInt
  <1>4. CASE plan.less.desc
    <2>1. /\ Less(plan.less, a, a) <=> x < x
          /\ Less(plan.less, a, b) <=> y < x
          /\ Less(plan.less, b, a) <=> x < y
          /\ Less(plan.less, c, b) <=> y < z
          /\ Less(plan.less, c, a) <=> x < z
      BY <1>2, <1>4 DEF Less
    <2> QED BY <2>1, <1>3
  <1>5. CASE ~plan.less.desc
    <2>1. /\ Less(plan.less, a, a) <=> x < x
          /\ Less(plan.less, a, b) <=> x < y
          /\ Less(plan.less, b, a) <=> y < x
          /\ Less(plan.less, c, b) <=> z < y
          /\ Less(plan.less, c, a) <=> z < x
      BY <1>2, <1>5 DEF Less
    <2> QED BY <2>1, <1>3
  <1> QED BY <1>4, <1>5

\* An element takes the place of another.
LEMMA ReplaceFacts ==
  ASSUME NEW S, NEW s \in Seq(S), IsInjective(s), NEW i \in DOMAIN s, NEW e \in S, e \notin Range(s),
         NEW t \in Seq(S), DOMAIN t = DOMAIN s, t[i] = e, \A j \in DOMAIN s : j # i => t[j] = s[j]
  PROVE  Range(t) = (Range(s) \ {s[i]}) \cup {e} /\ IsInjective(t)
  <1>3. \A j \in DOMAIN s : s[j] # e /\ s[j] \in Range(s)
    BY DEF Range
  <1>4. IsInjective(t)
    BY <1>3 DEF IsInjective
  <1>5. ASSUME NEW x \in Range(t) PROVE x \in (Range(s) \ {s[i]}) \cup {e}
    <2>1. PICK j \in DOMAIN s : x = t[j]
      BY DEF Range
    <2>2. CASE j = i
      BY <2>1, <2>2
    <2>3. CASE j # i
      BY <2>1, <2>3, <1>3 DEF IsInjective
    <2> QED BY <2>2, <2>3
  <1>6. ASSUME NEW x \in (Range(s) \ {s[i]}) \cup {e} PROVE x \in Range(t)
    <2>1. CASE x = e
      BY <2>1 DEF Range
    <2>2. CASE x # e
      <3>1. PICK j \in DOMAIN s : x = s[j] /\ j # i
        BY <2>2, <1>6 DEF Range
      <3> QED BY <3>1 DEF Range
    <2> QED BY <2>1, <2>2
  <1> QED BY <1>4, <1>5, <1>6

\* The heap's items before and after a record arrives that it has no room for.
LEMMA HeapKeepsSmallest ==
  ASSUME plan \in Plans, Sorting, NEW A \in SUBSET Ids, NEW s \in Seq(Ids), IsInjective(s), Range(s) \subseteq A,
         \A x \in A \ Range(s) : Smaller(s, x, plan.less),
         NEW id \in Ids, id \notin A, NEW i \in Largest(s),
         NEW t, IF Less(plan.less, id, s[i]) THEN Range(t) = (Range(s) \ {s[i]}) \cup {id} ELSE t = s
  PROVE  \A x \in (A \cup {id}) \ Range(t) : Smaller(t, x, plan.less)
  <1>1. i \in DOMAIN s /\ \A j \in DOMAIN s : ~Less(plan.less, s[i], s[j])
    BY DEF Largest
  <1>2. s[i] \in Ids /\ s[i] \in Range(s) /\ Range(s) \subseteq Ids
    BY <1>1, EmptyRange DEF Range
  <1>3. \A y \in Range(s) : ~Less(plan.less, s[i], y)
    BY <1>1 DEF Range
  <1>4. \A x \in A \ Range(s), y \in Range(s) : ~Less(plan.less, x, y)
    BY DEF Smaller, Range
  <1>5. CASE Less(plan.less, id, s[i])
    <2>2. Range(t) = (Range(s) \ {s[i]}) \cup {id}
      BY <1>5
    <2>3. ASSUME NEW x \in (A \cup {id}) \ Range(t), NEW y \in Range(t) PROVE ~Less(plan.less, x, y)
      <3>1. x = s[i] \/ x \in A \ Range(s)
        BY <2>2
      <3>2. x \in Ids /\ y \in Ids /\ ~Less(plan.less, s[i], id)
        BY <1>2, <1>5, <2>2, LessFacts
      <3>3. ~Less(plan.less, x, s[i])
        BY <1>2, <1>4, <3>1, LessFacts
      <3>4. ~Less(plan.less, s[i], y)
        BY <1>3, <2>2, <3>2
      <3> QED BY <1>2, <3>2, <3>3, <3>4, LessFacts
    <2>4. \A x \in (A \cup {id}) \ Range(t) : Smaller(t, x, plan.less)
      BY <2>3 DEF Smaller, Range
    <2> QED BY <2>4
  <1>6. CASE ~Less(plan.less, id, s[i])
    <2>1. t = s
      BY <1>6
    <2>2. ASSUME NEW x \in (A \cup {id}) \ Range(s), NEW y \in Range(s) PROVE ~Less(plan.less, x, y)
      <3>1. CASE x = id
        BY <3>1, <1>2, <1>3, <1>6, LessFacts
      <3>2. CASE x # id
        BY <3>2, <1>4
      <3> QED BY <3>1, <3>2
    <2>3. \A x \in (A \cup {id}) \ Range(s) : Smaller(s, x, plan.less)
      BY <2>2 DEF Smaller, Range
    <2> QED BY <2>1, <2>3
  <1> QED BY <1>5, <1>6

\* What the items of the sorter become when it takes a record.
SortTakes(id, t) ==
  \/ /\ plan.rows <= 0 \/ Len(sorter.items) < plan.rows
     /\ t = Append(sorter.items, id)
  \/ /\ plan.rows > 0 /\ Len(sorter.items) = plan.rows /\ Sorting
     /\ \E i \in Largest(sorter.items) :
          t = IF Less(plan.less, id, sorter.items[i]) THEN [sorter.items EXCEPT ![i] = id] ELSE sorter.items

\* They hold no record twice, and only such as were there before.
LEMMA SortTakesItems ==
  ASSUME CallInv, NEW id \in Ids, id \notin Range(sorter.items), NEW t, SortTakes(id, t)
  PROVE  t \in Seq(Ids) /\ IsInjective(t) /\ Range(t) \subseteq Range(sorter.items) \cup {id}
  <1>1. PICK s : s = sorter.items
    OBVIOUS
  <1>2. s \in Seq(Ids) /\ IsInjective(s) /\ id \notin Range(s)
    BY <1>1 DEF CallInv, CallTypes, Sorters, OnePlace
  <1>3. CASE t = Append(s, id)
    BY <1>1, <1>2, <1>3, AppendFacts
  <1>4. CASE t = s
    BY <1>1, <1>2, <1>4
  <1>5. ASSUME NEW i \in DOMAIN s, t = [s EXCEPT ![i] = id]
        PROVE  t \in Seq(Ids) /\ IsInjective(t) /\ Range(t) \subseteq Range(s) \cup {id}
    <2>1. t \in Seq(Ids) /\ IsInjective(t) /\ Range(t) = (Range(s) \ {s[i]}) \cup {id}
      <3>1. t \in Seq(Ids) /\ DOMAIN t = DOMAIN s
        BY <1>2, <1>5
      <3>2. t[i] = id /\ \A j \in DOMAIN s : j # i => t[j] = s[j]
        BY <1>2, <1>5
      <3> QED BY <1>2, <3>1, <3>2, ReplaceFacts
    <2> QED BY <2>1
  <1>6. CASE \E i \in Largest(s) : t = IF Less(plan.less, id, s[i]) THEN [s EXCEPT ![i] = id] ELSE s
    <2>1. PICK i \in Largest(s) : t = IF Less(plan.less, id, s[i]) THEN [s EXCEPT ![i] = id] ELSE s
      BY <1>6
    <2>2. i \in DOMAIN s
      BY DEF Largest
    <2> QED BY <1>1, <1>4, <1>5, <2>1, <2>2
  <1> QED BY <1>1, <1>3, <1>6 DEF SortTakes

\* The items and the records that have arrived, before and after one more.
HeapOf(A, m, s) ==
  /\ Len(s) = IF plan.rows > 0 /\ m > plan.rows THEN plan.rows ELSE m
  /\ plan.rows <= 0 \/ m <= plan.rows => A \subseteq Range(s)
  /\ Sorting => \A id \in A \ Range(s) : Smaller(s, id, plan.less)

\* The heap stands for one record more.
LEMMA HeapGrows ==
  ASSUME CallInv, NEW A \in SUBSET Ids, NEW m \in Nat, HeapOf(A, m, sorter.items), Range(sorter.items) \subseteq A,
         NEW id \in Ids, id \notin A, NEW t, SortTakes(id, t)
  PROVE  HeapOf(A \cup {id}, m + 1, t)
  <1>1. PICK s, r : s = sorter.items /\ r = plan.rows
    OBVIOUS
  <1>2. s \in Seq(Ids) /\ IsInjective(s) /\ id \notin Range(s) /\ r \in Int /\ plan \in Plans /\ Range(s) \subseteq A
    BY <1>1 DEF CallInv, CallTypes, Sorters, OnePlace, Plans
  <1>3. Len(s) \in Nat
    BY <1>2, EmptyRange
  <1>4. /\ Len(s) = IF r > 0 /\ m > r THEN r ELSE m
        /\ r <= 0 \/ m <= r => A \subseteq Range(s)
        /\ Sorting => \A x \in A \ Range(s) : Smaller(s, x, plan.less)
    BY <1>1 DEF HeapOf
  <1>5. CASE (r <= 0 \/ Len(s) < r) /\ t = Append(s, id)
    <2>1. Len(t) = Len(s) + 1 /\ Range(t) = Range(s) \cup {id}
      BY <1>2, <1>5, AppendFacts
    <2>2. Len(s) = m /\ (r <= 0 \/ m < r)
      BY <1>2, <1>3, <1>4, <1>5
    <2>3. A \subseteq Range(s)
      <3>1. r <= 0 \/ m <= r
        BY <1>2, <2>2
      <3> QED BY <1>4, <3>1
    <2>4. Len(t) = IF r > 0 /\ m + 1 > r THEN r ELSE m + 1
      BY <1>2, <2>1, <2>2
    <2>5. A \cup {id} \subseteq Range(t)
      BY <2>1, <2>3
    <2> QED BY <1>1, <2>4, <2>5 DEF HeapOf
  <1>6. CASE /\ r > 0 /\ Len(s) = r /\ Sorting
             /\ \E i \in Largest(s) : t = IF Less(plan.less, id, s[i]) THEN [s EXCEPT ![i] = id] ELSE s
    <2>1. PICK i \in Largest(s) : t = IF Less(plan.less, id, s[i]) THEN [s EXCEPT ![i] = id] ELSE s
      BY <1>6
    <2>2. Len(t) = Len(s) /\ \A x \in (A \cup {id}) \ Range(t) : Smaller(t, x, plan.less)
      <3>1. Sorting /\ \A x \in A \ Range(s) : Smaller(s, x, plan.less)
        BY <1>4, <1>6
      <3>2. i \in DOMAIN s
        BY DEF Largest
      <3>3. CASE Less(plan.less, id, s[i])
        <4>1. t = [s EXCEPT ![i] = id]
          BY <2>1, <3>3
        <4>2. t \in Seq(Ids) /\ DOMAIN t = DOMAIN s /\ Len(t) = Len(s)
          BY <1>2, <3>2, <4>1
        <4>3. t[i] = id /\ \A j \in DOMAIN s : j # i => t[j] = s[j]
          BY <1>2, <3>2, <4>1
        <4>4. Range(t) = (Range(s) \ {s[i]}) \cup {id}
          <5>1. s \in Seq(Ids) /\ IsInjective(s) /\ id \notin Range(s) /\ t \in Seq(Ids) /\ DOMAIN t = DOMAIN s
            BY <1>2, <4>2
          <5> HIDE <1>2, <4>1, <4>2
          <5> QED BY <3>2, <4>3, <5>1, ReplaceFacts
        <4>5. \A x \in (A \cup {id}) \ Range(t) : Smaller(t, x, plan.less)
          BY <1>2, <3>1, <3>3, <4>2, <4>4, HeapKeepsSmallest
        <4> QED BY <4>2, <4>5
      <3>4. CASE ~Less(plan.less, id, s[i])
        <4>1. t = s
          BY <2>1, <3>4
        <4> QED BY <1>2, <3>1, <3>4, <4>1, HeapKeepsSmallest
      <3> QED BY <3>3, <3>4
    <2>3. m >= r
      BY <1>2, <1>3, <1>4, <1>6
    <2>4. m + 1 > r /\ ~(r <= 0) /\ ~(m + 1 <= r)
      BY <1>2, <1>6, <2>3
    <2> QED BY <1>1, <1>6, <2>2, <2>4 DEF HeapOf
  <1> QED BY <1>1, <1>5, <1>6 DEF SortTakes

\* The sorter takes a record: one more item, or it goes through the heap.
LEMMA SortTakeStep ==
  ASSUME CallInv, Running, SortTake,
         UNCHANGED <<stored, live, plan, status, reader, filter, sender, ctxDone, gone, sent, pooled>>
  PROVE  CallInv'
  <1> USE DEF CallInv
  <1>1. PICK id : id = Head(chans[SorterIn].buf)
    OBVIOUS
  <1>2. /\ sorter.pc = "start" /\ plan.less # None /\ Ready(SorterIn) /\ chans' = Take(SorterIn)
        /\ stored' = stored /\ live' = live /\ plan' = plan /\ status' = status /\ status = "running"
        /\ reader' = reader /\ filter' = filter /\ sender' = sender /\ readDone' = readDone /\ ctxDone' = ctxDone
        /\ gone' = gone /\ sent' = sent /\ pooled' = pooled
    BY DEF SortTake, Sorts, Running
  <1>3. reader.pc # "off" /\ HasSorter /\ plan.offset = 0 /\ plan.rows \in Int /\ plan \in Plans /\ sorter.has = None
    BY <1>2 DEF Stages, CallTypes, Plans
  <1>4. PICK c : c = SorterIn
    OBVIOUS
  <1>5. /\ ChanTypes' /\ id \in Ids /\ id \in Passes /\ id \in Place[c] /\ id \notin Place["items"]
        /\ Place'[c] = Place[c] \ {id} /\ c \in {"read", "filtered"}
        /\ \A p \in {"unread", "read", "tested", "filtered"} \ {c} : Place'[p] = Place[p]
        /\ chans'["sorted"] = chans["sorted"]
        /\ chans'["read"].closed = chans["read"].closed /\ chans'["filtered"].closed = chans["filtered"].closed
        /\ \A d \in Chans : IsInjective(chans'[d].buf)
    BY <1>1, <1>2, <1>4, InputTaken, SorterInFacts
  <1>6. /\ Arrived' = Arrived \cup {id} /\ id \notin Arrived
        /\ Cardinality(Arrived') = Cardinality(Arrived) + 1
    BY <1>1, <1>2, InputTaken
  <1>7. /\ filter.pc = "off" => chans'["filtered"] = chans["filtered"]
        /\ filter.pc = "done" => chans'["read"] = chans["read"]
    BY <1>2, <1>3, SorterInStages
  <1>8. PICK t : SortTakes(id, t) /\ sorter' = [sorter EXCEPT !.items = t]
    <2>1. CASE /\ plan.rows <= 0 \/ Len(sorter.items) < plan.offset + plan.rows
               /\ sorter' = [sorter EXCEPT !.items = Append(@, id)]
      <3>1. plan.rows <= 0 \/ Len(sorter.items) < plan.rows
        BY <1>3, <2>1
      <3>2. SortTakes(id, Append(sorter.items, id))
        BY <3>1 DEF SortTakes
      <3> QED BY <2>1, <3>2
    <2>2. CASE /\ plan.rows > 0 /\ Len(sorter.items) = plan.offset + plan.rows /\ ~SortPanics
               /\ \E i \in Largest(sorter.items) :
                    sorter' = IF Less(plan.less, id, sorter.items[i]) THEN [sorter EXCEPT !.items[i] = id] ELSE sorter
      <3>1. PICK i \in Largest(sorter.items) :
              sorter' = IF Less(plan.less, id, sorter.items[i]) THEN [sorter EXCEPT !.items[i] = id] ELSE sorter
        BY <2>2
      <3>2. PICK t : t = IF Less(plan.less, id, sorter.items[i]) THEN [sorter.items EXCEPT ![i] = id] ELSE sorter.items
        OBVIOUS
      <3>3. Len(sorter.items) = plan.rows /\ plan.rows > 0 /\ Sorting
        BY <1>2, <1>3, <2>2 DEF SortPanics, Sorting
      <3>4. SortTakes(id, t)
        BY <3>2, <3>3 DEF SortTakes
      <3>5. sorter' = [sorter EXCEPT !.items = t]
        <4>1. CASE Less(plan.less, id, sorter.items[i])
          BY <4>1, <3>1, <3>2
        <4>2. CASE ~Less(plan.less, id, sorter.items[i])
          <5>1. sorter' = sorter /\ t = sorter.items
            BY <4>2, <3>1, <3>2
          <5>2. sorter = [sorter EXCEPT !.items = sorter.items]
            BY DEF CallTypes, Sorters
          <5> QED BY <5>1, <5>2
        <4> QED BY <4>1, <4>2
      <3> QED BY <3>4, <3>5
    <2> QED BY <1>1, <2>1, <2>2 DEF SortTake
  <1>9. id \notin Range(sorter.items)
    BY <1>5, PlaceIs
  <1>10. t \in Seq(Ids) /\ IsInjective(t) /\ Range(t) \subseteq Range(sorter.items) \cup {id}
    BY <1>5, <1>8, <1>9, SortTakesItems
  <1>11. /\ sorter' \in Sorters /\ sorter'.n = sorter.n /\ sorter'.has = None /\ sorter'.pc = "start" /\ sorter'.items = t
    BY <1>2, <1>3, <1>8, <1>10 DEF CallTypes, Sorters
  <1>12. /\ Place'["items"] \subseteq Place["items"] \cup {id} /\ Place'["limited"] = Place["limited"]
         /\ Place'["sorted"] = Place["sorted"] /\ Place'["pooled"] = Place["pooled"]
    BY <1>2, <1>3, <1>5, <1>10, <1>11, PlaceIs, NextPlaceIs
  <1>13. CallTypes'
    BY <1>2, <1>5, <1>11 DEF CallTypes
  <1>14. Stages'
    BY <1>2, <1>3, <1>5, <1>7, <1>11 DEF Stages, Undisturbed, Drained, HasFilter, HasSorter, SenderIn, SorterIn
  <1>15. OnePlace'
    <2>1. Apart(Place')
      BY <1>5, <1>12, Move DEF Places, OnePlace
    <2> QED BY <1>2, <1>5, <1>10, <1>11, <2>1 DEF OnePlace
  <1>16. OnlyPasses'
    <2>1. Passes' = Passes
      BY <1>2 DEF Passes
    <2>2. Place'["tested"] = Place["tested"] /\ Place'["filtered"] \subseteq Place["filtered"]
      BY <1>5
    <2> QED BY <1>2, <1>5, <1>12, <2>1, <2>2 DEF OnlyPasses
  <1>17. InOrder'
    <2>1. Outgoing' = Outgoing
      BY <1>2, <1>11 DEF Outgoing
    <2> QED BY <1>2, <1>5, <2>1, InOrderFrame
  <1>18. Counted'
    <2>1. HasSorter' /\ plan'.less # None /\ (Sorting' <=> Sorting)
      BY <1>2, <1>3 DEF HasSorter, Sorting
    <2>2. ASSUME ~readDone PROVE Heap'
      <3>1. PICK A, m : A = Arrived /\ m = Cardinality(Arrived)
        OBVIOUS
      <3>2. HeapOf(A, m, sorter.items)
        BY <1>2, <2>2, <3>1 DEF Counted, Heap, HeapOf
      <3>3. Range(sorter.items) \subseteq A
        <4>1. Place["items"] \subseteq Passes
          BY DEF OnlyPasses
        <4>2. Place["items"] \cap Upstream = {}
          BY DEF OnePlace, Apart, Upstream, Places
        <4> QED BY <3>1, <4>1, <4>2, PlaceIs DEF Arrived
      <3>4. A \in SUBSET Ids /\ m \in Nat /\ id \notin A
        BY <1>3, <1>6, <3>1, ArrivedFinite
      <3>5. HeapOf(A \cup {id}, m + 1, t)
        BY <1>5, <1>8, <3>2, <3>3, <3>4, HeapGrows
      <3>6. Arrived' = A \cup {id} /\ Cardinality(Arrived') = m + 1
        BY <1>6, <3>1
      <3> QED BY <1>2, <1>11, <2>1, <3>5, <3>6 DEF Heap, HeapOf
    <2> QED BY <1>2, <1>11, <2>1, <2>2 DEF Counted
  <1> QED BY <1>13, <1>14, <1>15, <1>16, <1>17, <1>18

\* The whole of a sequence.
LEMMA SubSeqAll == ASSUME NEW S, NEW s \in Seq(S) PROVE SubSeq(s, 1, Len(s)) = s
  OBVIOUS

\* The items are sorted: they are the window, when all records have arrived.
LEMMA SortAllStep ==
  ASSUME CallInv, Running, SortAll,
         UNCHANGED <<stored, live, plan, status, reader, filter, sender, ctxDone, gone, sent, pooled>>
  PROVE  CallInv'
  <1> USE DEF CallInv
  <1>1. /\ sorter.pc = "start" /\ plan.less # None /\ Drained(SorterIn) /\ chans' = chans
        /\ stored' = stored /\ live' = live /\ plan' = plan /\ status' = status /\ status = "running"
        /\ reader' = reader /\ filter' = filter /\ sender' = sender /\ readDone' = readDone /\ ctxDone' = ctxDone
        /\ gone' = gone /\ sent' = sent /\ pooled' = pooled
    BY DEF SortAll, Sorts, Running
  <1>2. /\ reader.pc # "off" /\ HasSorter /\ plan.offset = 0 /\ plan.rows \in Int /\ plan \in Plans /\ sorter.has = None
        /\ chans["sorted"].buf = <<>> /\ sent = <<>>
    BY <1>1 DEF Stages, CallTypes, Plans
  <1>3. PICK s \in SetToSeqs(Range(sorter.items)) :
          /\ SortPanics \/ Ordered(s, plan.less)
          /\ sorter' = [sorter EXCEPT !.pc = "out", !.items = SubSeq(s, plan.offset + 1, Len(s))]
    BY DEF SortAll
  <1>4. PICK old : old = sorter.items
    OBVIOUS
  <1>5. old \in Seq(Ids) /\ IsInjective(old)
    BY <1>4 DEF CallTypes, Sorters, OnePlace
  <1>6. IsFiniteSet(Range(old)) /\ Cardinality(Range(old)) = Len(old) /\ Range(old) \in SUBSET Ids /\ Len(old) \in Nat
    BY <1>5, InjectiveLength, EmptyRange
  <1>7. s \in Seq(Ids) /\ IsInjective(s) /\ Range(s) = Range(old) /\ Len(s) = Len(old)
    BY <1>3, <1>4, <1>6, SetToSeqsFacts
  <1>8. SubSeq(s, plan.offset + 1, Len(s)) = s
    <2>1. plan.offset + 1 = 1
      BY <1>2
    <2> QED BY <1>7, <2>1, SubSeqAll
  <1>9. /\ sorter' \in Sorters /\ sorter'.n = sorter.n /\ sorter'.has = None /\ sorter'.pc = "out" /\ sorter'.items = s
    <2>1. sorter' = [sorter EXCEPT !.pc = "out", !.items = s]
      BY <1>3, <1>8
    <2> QED BY <1>2, <1>7, <2>1 DEF CallTypes, Sorters
  <1>10. \A p \in Places : Place'[p] = Place[p]
    <2>1. Unread' = Unread
      BY <1>1 DEF Unread
    <2>2. Place'["items"] = Place["items"] /\ Place'["limited"] = Place["limited"]
      BY <1>2, <1>4, <1>7, <1>9, PlaceIs, NextPlaceIs
    <2>3. /\ Place'["unread"] = Place["unread"] /\ Place'["read"] = Place["read"] /\ Place'["tested"] = Place["tested"]
          /\ Place'["filtered"] = Place["filtered"] /\ Place'["sorted"] = Place["sorted"] /\ Place'["pooled"] = Place["pooled"]
      BY <1>1, <2>1, PlaceIs, NextPlaceIs
    <2> QED BY <2>2, <2>3 DEF Places
  <1>11. CallTypes'
    <2>1. ChanTypes'
      BY <1>1 DEF CallTypes, ChanTypes
    <2> QED BY <1>1, <1>9, <2>1 DEF CallTypes
  <1>12. Stages'
    BY <1>1, <1>2, <1>9 DEF Stages, Undisturbed, Drained, HasFilter, HasSorter, SenderIn, SorterIn
  <1>13. OnePlace'
    <2>1. Apart(Place')
      BY <1>10, Shrink DEF OnePlace
    <2> QED BY <1>1, <1>7, <1>9, <2>1 DEF OnePlace
  <1>14. OnlyPasses'
    BY <1>1, <1>10, PassesFrame DEF Places
  <1>15. InOrder'
    <2>1. Sorting => Ordered(s, plan.less)
      BY <1>3 DEF Sorting, SortPanics
    <2>2. Outgoing' = s
      BY <1>9 DEF Outgoing
    <2>3. Ordered(<<>>, plan.less) /\ Range(<<>>) = {}
      BY EmptyFacts DEF Ordered
    <2>4. (Sorting' <=> Sorting) /\ sent' = <<>> /\ chans'["sorted"].buf = <<>>
      BY <1>1, <1>2 DEF Sorting
    <2> QED BY <1>1, <2>1, <2>2, <2>3, <2>4 DEF InOrder, AllBefore, Ordered
  <1>16. Counted'
    <2>1. HasSorter' /\ plan'.less # None /\ (Sorting' <=> Sorting) /\ (Undisturbed' <=> Undisturbed)
          /\ WindowSize' = WindowSize /\ Passes' = Passes
      BY <1>1, <1>2 DEF HasSorter, Sorting, Undisturbed, WindowSize, Passes
    <2>2. SUFFICES ASSUME Undisturbed
                   PROVE  /\ Len(sent') + Len(chans'["sorted"].buf) + Len(sorter'.items) = WindowSize
                          /\ Sorting => \A x \in Passes \ OutRange', y \in OutRange' : ~Less(plan.less, x, y)
      BY <1>1, <1>9, <2>1 DEF Counted
    <2>3. ~readDone
      BY <1>1, <2>2 DEF Stages
    <2>4. Arrived = Passes
      BY <1>1, <1>2, <2>3, AllArrived
    <2>5. PICK r, m : r = plan.rows /\ m = Cardinality(Passes)
      OBVIOUS
    <2>6. /\ Len(old) = IF r > 0 /\ m > r THEN r ELSE m
          /\ Sorting => \A x \in Passes \ Range(old) : Smaller(old, x, plan.less)
      BY <1>1, <1>4, <2>3, <2>4, <2>5 DEF Counted, Heap
    <2>7. m \in Nat /\ r \in Int /\ m - 0 = m
      BY <1>2, <2>5, ArrivedFinite
    <2>8. Len(old) = WindowSize
      <3>1. Max({m, 0}) = m
        BY <2>7, MaxMin
      <3>2. CASE r <= 0
        <4>1. WindowSize = m
          BY <1>2, <2>5, <3>2, WindowIs
        <4>2. ~(r > 0)
          BY <2>7, <3>2
        <4> QED BY <2>6, <4>1, <4>2
      <3>3. CASE r > 0 /\ m > r
        <4>1. WindowSize = r
          <5>1. m - 0 >= r
            BY <2>7, <3>3
          <5> QED BY <1>2, <2>5, <3>3, <5>1, WindowIs
        <4> QED BY <2>6, <3>3, <4>1
      <3>4. CASE r > 0 /\ ~(m > r)
        <4>1. WindowSize = Max({m - 0, 0})
          <5>1. m - 0 <= r
            BY <2>7, <3>4
          <5> QED BY <1>2, <2>5, <3>4, <5>1, WindowIs
        <4> QED BY <2>6, <2>7, <3>1, <3>4, <4>1
      <3> QED BY <2>7, <3>2, <3>3, <3>4
    <2>9. Len(sent') + Len(chans'["sorted"].buf) + Len(sorter'.items) = Len(old)
      BY <1>1, <1>2, <1>6, <1>7, <1>9, EmptyFacts
    <2>10. OutRange' = Range(old)
      BY <1>1, <1>2, <1>7, <1>9, EmptyFacts DEF OutRange
    <2>11. Sorting => \A x \in Passes \ Range(old), y \in Range(old) : ~Less(plan.less, x, y)
      BY <2>6 DEF Smaller, Range
    <2> QED BY <2>8, <2>9, <2>10, <2>11
  <1> QED BY <1>11, <1>12, <1>13, <1>14, <1>15, <1>16

\* Adding the next of the outgoing records keeps a sequence in order.
LEMMA OrderedAppend ==
  ASSUME NEW fn, NEW s \in Seq(Ids), Ordered(s, fn), NEW e \in Ids, \A x \in Range(s) : ~Less(fn, e, x)
  PROVE  Ordered(Append(s, e), fn)
  <1> DEFINE t == Append(s, e)
  <1>1. /\ DOMAIN t = 1..(Len(s) + 1) /\ \A i \in 1..Len(s) : t[i] = s[i]
        /\ t[Len(s) + 1] = e /\ DOMAIN s = 1..Len(s) /\ Len(s) \in Nat
    BY AppendFacts
  <1> HIDE DEF t
  <1>2. ASSUME NEW i \in DOMAIN t, NEW j \in DOMAIN t, i < j PROVE ~Less(fn, t[j], t[i])
    <2>1. i \in 1..Len(s) /\ t[i] = s[i] /\ s[i] \in Range(s)
      BY <1>1, <1>2 DEF Range
    <2>2. CASE j = Len(s) + 1
      BY <1>1, <2>1, <2>2
    <2>3. CASE j # Len(s) + 1
      <3>1. j \in 1..Len(s) /\ t[j] = s[j]
        BY <1>1, <2>3
      <3> QED BY <1>1, <1>2, <2>1, <3>1 DEF Ordered
    <2> QED BY <2>2, <2>3
  <1> QED BY <1>2 DEF Ordered, t

\* The first of an ordered sequence is not larger than the others, which stay ordered.
LEMMA OrderedTail ==
  ASSUME NEW fn, NEW s \in Seq(Ids), s # <<>>, Ordered(s, fn)
  PROVE  Ordered(Tail(s), fn) /\ \A x \in Range(Tail(s)) : ~Less(fn, x, Head(s))
  <1> DEFINE t == Tail(s)
  <1>1. /\ DOMAIN t = 1..(Len(s) - 1) /\ \A i \in 1..(Len(s) - 1) : t[i] = s[i + 1]
        /\ Head(s) = s[1] /\ DOMAIN s = 1..Len(s) /\ Len(s) \in Nat /\ Len(s) > 0
    BY TailFacts
  <1> HIDE DEF t
  <1>2. \A i \in DOMAIN t : i + 1 \in DOMAIN s /\ t[i] = s[i + 1] /\ 1 < i + 1 /\ i \in Nat /\ 1 \in DOMAIN s
    BY <1>1
  <1>3. ASSUME NEW i \in DOMAIN t, NEW j \in DOMAIN t, i < j PROVE ~Less(fn, t[j], t[i])
    <2>1. i + 1 < j + 1
      BY <1>2, <1>3
    <2> QED BY <1>2, <2>1 DEF Ordered
  <1>4. ASSUME NEW i \in DOMAIN t PROVE ~Less(fn, t[i], Head(s))
    BY <1>1, <1>2 DEF Ordered
  <1> QED BY <1>3, <1>4 DEF Ordered, Range, t

\* The next of the sorted items goes out.
LEMMA SortSendStep ==
  ASSUME CallInv, Running, SortSend,
         UNCHANGED <<stored, live, plan, status, reader, filter, sender, ctxDone, gone, sent, pooled>>
  PROVE  CallInv'
  <1> USE DEF CallInv
  <1>1. PICK id : id = Head(sorter.items)
    OBVIOUS
  <1>2. /\ sorter.pc = "out" /\ sorter.items # <<>> /\ Room("sorted") /\ chans' = Put("sorted", id)
        /\ sorter' = [sorter EXCEPT !.items = Tail(@)]
        /\ stored' = stored /\ live' = live /\ plan' = plan /\ status' = status /\ status = "running"
        /\ reader' = reader /\ filter' = filter /\ sender' = sender /\ readDone' = readDone /\ ctxDone' = ctxDone
        /\ gone' = gone /\ sent' = sent /\ pooled' = pooled
    BY <1>1 DEF SortSend, Running
  <1>3. PICK old, t : old = sorter.items /\ t = Tail(sorter.items)
    OBVIOUS
  <1>4. old \in Seq(Ids) /\ IsInjective(old) /\ old # <<>> /\ id = Head(old) /\ t = Tail(old)
    BY <1>1, <1>2, <1>3 DEF CallTypes, Sorters, OnePlace
  <1>5. /\ t \in Seq(Ids) /\ IsInjective(t) /\ id \in Ids /\ id \in Range(old) /\ id \notin Range(t)
        /\ Range(old) = {id} \cup Range(t) /\ Len(t) = Len(old) - 1 /\ Len(old) \in Nat
    BY <1>4, TailFacts, EmptyRange
  <1>6. /\ plan.less # None /\ HasSorter /\ sorter.has = None
    BY <1>2 DEF Stages, HasSorter
  <1>7. /\ sorter' \in Sorters /\ sorter'.has = None /\ sorter'.pc = "out" /\ sorter'.n = sorter.n /\ sorter'.items = t
    <2>1. sorter' = [sorter EXCEPT !.items = t]
      BY <1>2, <1>3
    <2> QED BY <1>2, <1>5, <1>6, <2>1 DEF CallTypes, Sorters
  <1>8. /\ ChanTypes' /\ chans'["sorted"].closed = chans["sorted"].closed
        /\ chans'["read"] = chans["read"] /\ chans'["filtered"] = chans["filtered"]
        /\ chans'["sorted"].buf = Append(chans["sorted"].buf, id)
        /\ Range(chans'["sorted"].buf) = Range(chans["sorted"].buf) \cup {id}
        /\ Len(chans'["sorted"].buf) = Len(chans["sorted"].buf) + 1
        /\ IsInjective(chans["sorted"].buf) /\ id \notin Range(chans["sorted"].buf) => IsInjective(chans'["sorted"].buf)
    BY <1>2, <1>5, PutFacts DEF Chans
  <1>9. /\ Place["items"] = {id} \cup Place'["items"] /\ id \notin Place'["items"] /\ id \in Place["items"]
        /\ Place'["sorted"] = Place["sorted"] \cup {id}
        /\ \A p \in Places \ {"items", "sorted"} : Place'[p] = Place[p]
    <2>1. Unread' = Unread
      BY <1>2 DEF Unread
    <2>2. /\ Place'["read"] = Place["read"] /\ Place'["filtered"] = Place["filtered"]
          /\ Place'["sorted"] = Place["sorted"] \cup {id}
      BY <1>8, PlaceIs, NextPlaceIs
    <2>3. /\ Place'["unread"] = Place["unread"] /\ Place'["tested"] = Place["tested"] /\ Place'["pooled"] = Place["pooled"]
      BY <1>2, <2>1, PlaceIs, NextPlaceIs
    <2>4. Place["items"] = Range(old) /\ Place'["items"] = Range(t) /\ Place'["limited"] = Place["limited"]
      BY <1>3, <1>6, <1>7, PlaceIs, NextPlaceIs
    <2> QED BY <1>5, <2>2, <2>3, <2>4 DEF Places
  <1>10. CallTypes'
    BY <1>2, <1>7, <1>8 DEF CallTypes
  <1>11. Stages'
    BY <1>2, <1>6, <1>7, <1>8 DEF Stages, Undisturbed, Drained, HasFilter, HasSorter, SenderIn, SorterIn
  <1>12. OnePlace'
    <2>1. Apart(Place')
      BY <1>9, Move DEF Places, OnePlace
    <2>2. id \notin Range(chans["sorted"].buf)
      BY <1>9, PlaceIs DEF OnePlace, Apart, Places
    <2>3. \A c \in Chans : IsInjective(chans'[c].buf)
      BY <1>8, <2>2 DEF OnePlace, Chans
    <2> QED BY <1>2, <1>5, <1>7, <2>1, <2>3 DEF OnePlace
  <1>13. OnlyPasses'
    <2>1. Passes' = Passes
      BY <1>2 DEF Passes
    <2> QED BY <1>2, <1>9, <2>1 DEF OnlyPasses, Places
  <1>14. InOrder'
    <2>1. SUFFICES ASSUME Sorting PROVE InOrder'
      BY <1>2 DEF InOrder, Sorting
    <2>2. PICK b : b = chans["sorted"].buf
      OBVIOUS
    <2>3. b \in Seq(Ids)
      BY <2>2 DEF CallTypes, ChanTypes, Chans
    <2>4. Outgoing = old /\ Outgoing' = t
      BY <1>2, <1>3, <1>7 DEF Outgoing
    <2>5. /\ Ordered(sent, plan.less) /\ Ordered(b, plan.less) /\ Ordered(old, plan.less)
          /\ \A x \in Range(sent), y \in Range(b) : ~Less(plan.less, y, x)
          /\ \A x \in Range(sent), y \in Range(old) : ~Less(plan.less, y, x)
          /\ \A x \in Range(b), y \in Range(old) : ~Less(plan.less, y, x)
      BY <2>1, <2>2, <2>4 DEF InOrder, AllBefore
    <2>6. Ordered(Append(b, id), plan.less)
      BY <1>5, <2>3, <2>5, OrderedAppend
    <2>7. Ordered(t, plan.less) /\ \A x \in Range(t) : ~Less(plan.less, x, id)
      BY <1>4, <2>5, OrderedTail
    <2>8. \A x \in Range(sent), y \in Range(b) \cup {id} : ~Less(plan.less, y, x)
      BY <1>5, <2>5
    <2>9. \A x \in Range(sent), y \in Range(t) : ~Less(plan.less, y, x)
      BY <1>5, <2>5
    <2>10. \A x \in Range(b) \cup {id}, y \in Range(t) : ~Less(plan.less, y, x)
      BY <1>5, <2>5, <2>7
    <2>11. chans'["sorted"].buf = Append(b, id) /\ Range(chans'["sorted"].buf) = Range(b) \cup {id}
      BY <1>8, <2>2
    <2> QED BY <1>2, <2>4, <2>5, <2>6, <2>7, <2>8, <2>9, <2>10, <2>11 DEF InOrder, AllBefore
  <1>15. Counted'
    <2>1. HasSorter' /\ plan'.less # None /\ (Sorting' <=> Sorting) /\ (Undisturbed' <=> Undisturbed)
          /\ WindowSize' = WindowSize /\ Passes' = Passes
      BY <1>2, <1>6 DEF HasSorter, Sorting, Undisturbed, WindowSize, Passes
    <2>2. OutRange' = OutRange
      BY <1>2, <1>3, <1>5, <1>7, <1>8 DEF OutRange
    <2>3. Len(sent) \in Nat /\ Len(chans["sorted"].buf) \in Nat
      <3>1. sent \in Seq(Ids) /\ chans["sorted"].buf \in Seq(Ids)
        BY DEF CallTypes, ChanTypes, Chans
      <3> QED BY <3>1, EmptyRange
    <2>4. Len(sent') + Len(chans'["sorted"].buf) + Len(sorter'.items)
            = Len(sent) + Len(chans["sorted"].buf) + Len(sorter.items)
      <3>1. PICK a, b, k : a = Len(sent) /\ b = Len(chans["sorted"].buf) /\ k = Len(old)
        OBVIOUS
      <3>2. Len(sent') = a /\ Len(chans'["sorted"].buf) = b + 1 /\ Len(sorter'.items) = k - 1
        BY <1>2, <1>5, <1>7, <1>8, <3>1
      <3>3. a \in Nat /\ b \in Nat /\ k \in Nat
        BY <1>5, <2>3, <3>1
      <3>4. a + (b + 1) + (k - 1) = a + b + k
        BY <3>3
      <3>5. Len(sorter.items) = k
        BY <1>3, <3>1
      <3> QED BY <3>1, <3>2, <3>4, <3>5
    <2>5. Undisturbed => /\ Len(sent) + Len(chans["sorted"].buf) + Len(sorter.items) = WindowSize
                         /\ Sorting => \A x \in Passes \ OutRange, y \in OutRange : ~Less(plan.less, x, y)
      BY <1>2 DEF Counted
    <2> QED BY <1>2, <1>7, <2>1, <2>2, <2>4, <2>5 DEF Counted
  <1> QED BY <1>10, <1>11, <1>12, <1>13, <1>14, <1>15

\* The sorter ends: all is sent, or a failure ends it.
LEMMA EndSortStep ==
  ASSUME CallInv, Running, EndSort,
         UNCHANGED <<stored, live, plan, status, reader, filter, sender, ctxDone, gone, sent, pooled>>
  PROVE  CallInv'
  <1>1. /\ EndSorter /\ sorter.pc \in {"start", "out"} /\ ((sorter.pc = "out" /\ sorter.items = <<>>) \/ ctxDone)
        /\ sorter.pc = "out" \/ plan.less # None
    BY DEF EndSort, Sorts
  <1>2. sorter.has = None /\ plan.less # None
    BY <1>1 DEF CallInv, Stages
  <1>3. /\ CallTypes' /\ Stages' /\ OnePlace' /\ OnlyPasses' /\ InOrder'
        /\ sorter'.pc = "done" /\ sorter'.items = <<>> /\ readDone' = TRUE /\ chans'["sorted"].buf = chans["sorted"].buf
    BY <1>1, <1>2, EndSorterFacts
  <1>4. Counted'
    <2>1. (Sorting' <=> Sorting) /\ (Undisturbed' <=> Undisturbed) /\ WindowSize' = WindowSize /\ Passes' = Passes
      BY DEF Sorting, Undisturbed, WindowSize, Passes
    <2>2. ASSUME Undisturbed
          PROVE  /\ Len(sent') + Len(chans'["sorted"].buf) + Len(sorter'.items) = WindowSize
                 /\ Sorting => \A x \in Passes \ OutRange', y \in OutRange' : ~Less(plan.less, x, y)
      <3>1. sorter.pc = "out" /\ sorter.items = <<>>
        BY <1>1, <2>2 DEF Undisturbed
      <3>2. OutRange' = OutRange
        BY <1>3, <3>1 DEF OutRange
      <3> QED BY <1>3, <2>2, <3>1, <3>2 DEF CallInv, Counted
    <2> QED BY <1>3, <2>1, <2>2 DEF Counted
  <1> QED BY <1>3, <1>4 DEF CallInv

-----------------------------------------------------------------------------
(* sendTo *)

\* What the sender takes comes from the sorter, or straight from where the sorter
\* would have read.
LEMMA SenderTakes ==
  ASSUME CallInv, reader.pc # "off", Ready(SenderIn), chans' = Take(SenderIn), reader' = reader, filter' = filter,
         sorter' = sorter, plan' = plan, NEW id, id = Head(chans[SenderIn].buf), NEW c, c = SenderIn
  PROVE  /\ c \in Chans /\ c \in Places /\ c # "pooled"
         /\ ChanTypes' /\ id \in Ids /\ id \in Passes /\ id \in Place[c] /\ id \notin Place["pooled"]
         /\ Place'[c] = Place[c] \ {id}
         /\ \A p \in Places \ {c, "pooled"} : Place'[p] = Place[p]
         /\ \A d \in Chans : IsInjective(chans'[d].buf) /\ chans'[d].closed = chans[d].closed
         /\ filter.pc = "off" => chans'["filtered"] = chans["filtered"]
         /\ filter.pc = "done" => chans'["read"] = chans["read"]
         /\ IF HasSorter
            THEN /\ c = "sorted" /\ Arrived' = Arrived
                 /\ chans'["sorted"].buf = Tail(chans["sorted"].buf) /\ chans["sorted"].buf # <<>>
            ELSE /\ chans'["sorted"] = chans["sorted"] /\ Cardinality(Arrived') = Cardinality(Arrived) + 1
  <1> USE DEF CallInv
  <1>1. /\ Place'["tested"] = Place["tested"] /\ Place'["limited"] = Place["limited"] /\ Place'["items"] = Place["items"]
    BY PlaceIs, NextPlaceIs
  <1>2. CASE HasSorter
    <2>1. c = "sorted" /\ c \in Chans /\ c \in Places /\ Ready("sorted") /\ chans' = Take("sorted")
          /\ id = Head(chans["sorted"].buf)
      BY <1>2 DEF SenderIn, Chans, Places
    <2>2. /\ ChanTypes' /\ id \in Ids
          /\ chans'["sorted"].buf = Tail(chans["sorted"].buf) /\ chans'["sorted"].closed = chans["sorted"].closed
          /\ chans'["read"] = chans["read"] /\ chans'["filtered"] = chans["filtered"]
          /\ Range(chans["sorted"].buf) = {id} \cup Range(chans'["sorted"].buf)
          /\ IsInjective(chans["sorted"].buf) => IsInjective(chans'["sorted"].buf) /\ id \notin Range(chans'["sorted"].buf)
      BY <2>1, TakeFacts DEF Chans
    <2>3. \A d \in Chans : IsInjective(chans'[d].buf) /\ chans'[d].closed = chans[d].closed
      BY <2>2 DEF OnePlace, Chans
    <2>4. /\ Place'["read"] = Place["read"] /\ Place'["filtered"] = Place["filtered"]
          /\ Place'["sorted"] = Place["sorted"] \ {id} /\ id \in Place["sorted"]
      <3>1. IsInjective(chans["sorted"].buf)
        BY DEF OnePlace, Chans
      <3> QED BY <2>2, <3>1, PlaceIs, NextPlaceIs
    <2>5. Place'["unread"] = Place["unread"]
      <3>1. Unread' = Unread
        BY DEF Unread
      <3> QED BY <3>1, PlaceIs, NextPlaceIs
    <2>6. id \in Passes /\ id \notin Place["pooled"]
      BY <2>4 DEF OnlyPasses, OnePlace, Apart, Places
    <2>7. Upstream' = Upstream
      BY <1>1, <2>4, <2>5 DEF Upstream
    <2>8. Arrived' = Arrived
      BY <2>7, NoneArrives
    <2>9. \A p \in Places \ {c, "pooled"} : Place'[p] = Place[p]
      BY <1>1, <2>1, <2>4, <2>5 DEF Places
    <2> QED BY <1>2, <2>1, <2>2, <2>3, <2>4, <2>6, <2>8, <2>9 DEF Ready
  <1>3. CASE ~HasSorter
    <2>1. c = SorterIn /\ Ready(SorterIn) /\ chans' = Take(SorterIn) /\ id = Head(chans[SorterIn].buf)
      BY <1>3 DEF SenderIn
    <2>2. c \in {"read", "filtered"} /\ c \in Chans /\ c \in Places
      BY <2>1, SorterInFacts
    <2>3. /\ ChanTypes' /\ id \in Ids /\ id \in Passes /\ id \in Place[c] /\ id \notin Place["pooled"]
          /\ Place'[c] = Place[c] \ {id}
          /\ \A p \in {"unread", "read", "tested", "filtered"} \ {c} : Place'[p] = Place[p]
          /\ chans'["sorted"] = chans["sorted"]
          /\ chans'["read"].closed = chans["read"].closed /\ chans'["filtered"].closed = chans["filtered"].closed
          /\ \A d \in Chans : IsInjective(chans'[d].buf)
          /\ Cardinality(Arrived') = Cardinality(Arrived) + 1
      BY <2>1, InputTaken
    <2>4. /\ filter.pc = "off" => chans'["filtered"] = chans["filtered"]
          /\ filter.pc = "done" => chans'["read"] = chans["read"]
      BY <2>1, SorterInStages
    <2>5. Place'["sorted"] = Place["sorted"]
      BY <2>3, PlaceIs, NextPlaceIs
    <2>6. \A p \in Places \ {c, "pooled"} : Place'[p] = Place[p]
      BY <1>1, <2>3, <2>5 DEF Places
    <2>7. \A d \in Chans : chans'[d].closed = chans[d].closed
      BY <2>3 DEF Chans
    <2> QED BY <1>3, <2>2, <2>3, <2>4, <2>6, <2>7
  <1> QED BY <1>2, <1>3

\* A record that is taken behind the sorter leaves the rest in order.
LEMMA TakenInOrder ==
  ASSUME CallInv, reader.pc # "off", plan' = plan, sorter' = sorter, Sorting,
         chans["sorted"].buf # <<>>, chans'["sorted"].buf = Tail(chans["sorted"].buf), NEW id, id = Head(chans["sorted"].buf)
  PROVE  /\ sent' = sent => InOrder'
         /\ sent' = Append(sent, id) => InOrder'
  <1> USE DEF CallInv
  <1>1. PICK b, t, w, s : b = chans["sorted"].buf /\ t = Tail(b) /\ w = Outgoing /\ s = sent
    OBVIOUS
  <1>2. b \in Seq(Ids) /\ b # <<>> /\ id = Head(b) /\ chans'["sorted"].buf = t /\ s \in Seq(Ids)
    BY <1>1 DEF CallTypes, ChanTypes, Chans
  <1>3. Outgoing' = w
    BY <1>1 DEF Outgoing
  <1>4. /\ Ordered(s, plan.less) /\ Ordered(b, plan.less) /\ Ordered(w, plan.less)
        /\ \A x \in Range(s), y \in Range(b) : ~Less(plan.less, y, x)
        /\ \A x \in Range(s), y \in Range(w) : ~Less(plan.less, y, x)
        /\ \A x \in Range(b), y \in Range(w) : ~Less(plan.less, y, x)
    BY <1>1 DEF InOrder, AllBefore
  <1>5. Range(b) = {id} \cup Range(t) /\ id \in Ids
    BY <1>1, <1>2, TailFacts
  <1>6. Ordered(t, plan.less) /\ \A x \in Range(t) : ~Less(plan.less, x, id)
    BY <1>1, <1>2, <1>4, OrderedTail
  <1>7. CASE sent' = sent
    BY <1>1, <1>2, <1>3, <1>4, <1>5, <1>6, <1>7 DEF InOrder, AllBefore
  <1>8. CASE sent' = Append(sent, id)
    <2>1. Ordered(Append(s, id), plan.less)
      BY <1>2, <1>4, <1>5, OrderedAppend
    <2>2. Range(Append(s, id)) = Range(s) \cup {id}
      BY <1>2, <1>5, AppendFacts
    <2>3. sent' = Append(s, id) /\ Range(sent') = Range(s) \cup {id}
      BY <1>1, <1>8, <2>2
    <2>4. \A x \in Range(s) \cup {id}, y \in Range(t) : ~Less(plan.less, y, x)
      BY <1>4, <1>5, <1>6
    <2>5. \A x \in Range(s) \cup {id}, y \in Range(w) : ~Less(plan.less, y, x)
      BY <1>4, <1>5
    <2>6. \A x \in Range(t), y \in Range(w) : ~Less(plan.less, y, x)
      BY <1>4, <1>5
    <2> QED BY <1>2, <1>3, <1>4, <1>6, <2>1, <2>3, <2>4, <2>5, <2>6 DEF InOrder, AllBefore
  <1> QED BY <1>7, <1>8

\* A record is sent and goes back to the pool.
LEMMA SendRecordStep ==
  ASSUME CallInv, Running, SendRecord, UNCHANGED <<stored, live, plan, status, reader, filter, sorter, gone>>
  PROVE  CallInv'
  <1> USE DEF CallInv
  <1>1. PICK id, c, s : id = Head(chans[SenderIn].buf) /\ c = SenderIn /\ s = sent
    OBVIOUS
  <1>2. /\ sender.pc = "start" /\ Ready(SenderIn) /\ chans' = Take(SenderIn) /\ Return(id) /\ sent' = Append(s, id)
        /\ stored' = stored /\ live' = live /\ plan' = plan /\ status' = status /\ status = "running"
        /\ reader' = reader /\ filter' = filter /\ sorter' = sorter /\ sender' = sender
        /\ readDone' = readDone /\ ctxDone' = ctxDone /\ gone' = gone
    BY <1>1 DEF SendRecord, Running
  <1>3. reader.pc # "off" /\ s \in Seq(Ids) /\ Len(s) \in Nat
    <2>1. reader.pc # "off" /\ s \in Seq(Ids)
      BY <1>1, <1>2 DEF Stages, CallTypes
    <2> QED BY <2>1, EmptyRange
  <1>4. /\ c \in Chans /\ c \in Places /\ c # "pooled"
        /\ ChanTypes' /\ id \in Ids /\ id \in Passes /\ id \in Place[c] /\ id \notin Place["pooled"]
        /\ Place'[c] = Place[c] \ {id}
        /\ \A p \in Places \ {c, "pooled"} : Place'[p] = Place[p]
        /\ \A d \in Chans : IsInjective(chans'[d].buf) /\ chans'[d].closed = chans[d].closed
    BY <1>1, <1>2, <1>3, SenderTakes
  <1>5. /\ filter.pc = "off" => chans'["filtered"] = chans["filtered"]
        /\ filter.pc = "done" => chans'["read"] = chans["read"]
        /\ IF HasSorter
           THEN /\ c = "sorted" /\ Arrived' = Arrived
                /\ chans'["sorted"].buf = Tail(chans["sorted"].buf) /\ chans["sorted"].buf # <<>>
           ELSE /\ chans'["sorted"] = chans["sorted"] /\ Cardinality(Arrived') = Cardinality(Arrived) + 1
    BY <1>1, <1>2, <1>3, SenderTakes
  <1>6. /\ pooled' \in [Ids -> Nat] /\ pooled'[id] = 1 /\ \A x \in Ids : pooled'[x] <= 1
        /\ \A x \in Ids : pooled[x] = 1 => pooled'[x] = 1
        /\ Place'["pooled"] = Place["pooled"] \cup {id}
    BY <1>2, <1>4, ReturnFacts
  <1>7. id \notin Range(s)
    <2>1. \A x \in Range(s) : x \in Ids /\ pooled[x] = 1
      BY <1>1, <1>3, EmptyRange DEF OnePlace
    <2>2. ~(pooled[id] > 0)
      BY <1>4, PlaceIs
    <2> QED BY <2>1, <2>2
  <1>8. /\ sent' \in Seq(Ids) /\ Len(sent') = Len(s) + 1 /\ Range(sent') = Range(s) \cup {id} /\ IsInjective(sent')
    BY <1>1, <1>2, <1>3, <1>4, <1>7, AppendFacts DEF OnePlace
  <1>9. CallTypes'
    BY <1>2, <1>4, <1>6, <1>8 DEF CallTypes
  <1>10. plan.less # None => sorter.pc \notin {"off", "start"}
    BY <1>3, <1>5 DEF Stages, HasSorter
  <1>11. Stages'
    <2>1. /\ chans'["read"].closed = chans["read"].closed /\ chans'["filtered"].closed = chans["filtered"].closed
          /\ chans'["sorted"].closed = chans["sorted"].closed
      BY <1>4 DEF Chans
    <2>2. sorter.pc = "off" => chans'["sorted"] = chans["sorted"]
      BY <1>3, <1>5 DEF Stages
    <2> QED BY <1>2, <1>3, <1>5, <1>10, <2>1, <2>2 DEF Stages, Undisturbed, Drained, HasFilter, HasSorter
  <1>12. OnePlace'
    <2>1. Apart(Place')
      <3>1. /\ "pooled" \in Places /\ Place'[c] \subseteq Place[c] \ {id} /\ Place'["pooled"] \subseteq Place["pooled"] \cup {id}
            /\ \A p \in Places \ {c, "pooled"} : Place'[p] \subseteq Place[p]
        BY <1>4, <1>6 DEF Places
      <3> QED BY <1>4, <3>1, Move DEF OnePlace
    <2>2. \A x \in Range(sent') : pooled'[x] = 1
      <3>1. \A x \in Range(s) : x \in Ids /\ pooled[x] = 1
        BY <1>1, <1>3, EmptyRange DEF OnePlace
      <3> QED BY <1>6, <1>8, <3>1
    <2>3. IsInjective(sorter'.items)
      BY <1>2 DEF OnePlace
    <2> QED BY <1>4, <1>6, <1>8, <2>1, <2>2, <2>3 DEF OnePlace
  <1>13. OnlyPasses'
    <2>1. Passes' = Passes
      BY <1>2 DEF Passes
    <2>2. \A p \in Places \ {"pooled"} : Place'[p] \subseteq Place[p]
      BY <1>4
    <2>3. Range(sent') \subseteq Passes
      BY <1>1, <1>4, <1>8 DEF OnlyPasses
    <2> QED BY <2>1, <2>2, <2>3 DEF OnlyPasses, Places
  <1>14. InOrder'
    <2>1. CASE Sorting
      <3>1. HasSorter
        BY <2>1 DEF Sorting, HasSorter
      <3>2. id = Head(chans["sorted"].buf)
        BY <1>1, <1>5, <3>1
      <3> QED BY <1>1, <1>2, <1>3, <1>5, <2>1, <3>1, <3>2, TakenInOrder
    <2>2. CASE ~Sorting
      BY <1>2, <2>2 DEF InOrder, Sorting
    <2> QED BY <2>1, <2>2
  <1>15. Counted'
    <2>1. /\ (HasSorter' <=> HasSorter) /\ (Sorting' <=> Sorting) /\ (Undisturbed' <=> Undisturbed)
          /\ WindowSize' = WindowSize /\ Passes' = Passes
      BY <1>2 DEF HasSorter, Sorting, Undisturbed, WindowSize, Passes
    <2>2. ASSUME ~HasSorter PROVE Counted'
      <3>1. plan.less = None /\ sorter.pc = "off"
        BY <1>3, <2>2 DEF HasSorter, Stages
      <3>2. ~readDone => Len(s) = Cardinality(Arrived)
        BY <1>1, <2>2 DEF Counted
      <3>3. ~readDone => Len(sent') = Cardinality(Arrived')
        BY <1>5, <1>8, <2>2, <3>2
      <3> QED BY <1>2, <2>1, <2>2, <3>1, <3>3 DEF Counted
    <2>3. ASSUME HasSorter PROVE Counted'
      <3>1. PICK b : b = chans["sorted"].buf
        OBVIOUS
      <3>2. b \in Seq(Ids) /\ b # <<>> /\ chans'["sorted"].buf = Tail(b) /\ id = Head(b)
        BY <1>1, <1>5, <2>3, <3>1 DEF CallTypes, ChanTypes, Chans
      <3>3. Len(b) \in Nat /\ Len(Tail(b)) = Len(b) - 1 /\ Range(b) = {id} \cup Range(Tail(b))
        BY <3>2, TailFacts, EmptyRange
      <3>4. Len(sent') + Len(chans'["sorted"].buf) = Len(sent) + Len(chans["sorted"].buf)
        <4>1. PICK a, k : a = Len(s) /\ k = Len(b)
          OBVIOUS
        <4>2. Len(sent') = a + 1 /\ Len(chans'["sorted"].buf) = k - 1 /\ a \in Nat /\ k \in Nat
          BY <1>3, <1>8, <3>2, <3>3, <4>1
        <4>3. (a + 1) + (k - 1) = a + k
          BY <4>2
        <4> QED BY <1>1, <3>1, <4>1, <4>2, <4>3
      <3>5. OutRange' = OutRange
        BY <1>1, <1>2, <1>8, <3>1, <3>2, <3>3 DEF OutRange
      <3>6. Arrived' = Arrived
        BY <1>5, <2>3
      <3>7. ~readDone /\ plan.less = None =>
              /\ sorter.n = Cardinality(Arrived)
              /\ Len(sent') + Len(chans'["sorted"].buf) + (IF sorter.has = None THEN 0 ELSE 1)
                   = Max({sorter.n - plan.offset, 0})
        BY <2>3, <3>4 DEF Counted
      <3>8. Undisturbed /\ sorter.pc \in {"out", "done"} =>
              /\ Len(sent') + Len(chans'["sorted"].buf) + Len(sorter.items) = WindowSize
              /\ Sorting => \A x \in Passes \ OutRange, y \in OutRange : ~Less(plan.less, x, y)
        BY <3>4 DEF Counted
      <3> QED BY <1>2, <1>10, <2>1, <2>3, <3>5, <3>6, <3>7, <3>8 DEF Counted
    <2> QED BY <2>2, <2>3
  <1> QED BY <1>9, <1>11, <1>12, <1>13, <1>14, <1>15

\* A record whose send fails is lost, and one of the drain goes back to the pool: in
\* both cases the request has failed.
LEMMA DropStep ==
  ASSUME CallInv, Running, SendFails \/ Drain, UNCHANGED <<stored, live, plan, status, reader, filter, sorter, gone>>
  PROVE  CallInv'
  <1> USE DEF CallInv
  <1>1. PICK id, c : id = Head(chans[SenderIn].buf) /\ c = SenderIn
    OBVIOUS
  <1>2. /\ Ready(SenderIn) /\ chans' = Take(SenderIn) /\ sent' = sent /\ sender.pc \in {"start", "drain"}
        /\ stored' = stored /\ live' = live /\ plan' = plan /\ status' = status /\ status = "running"
        /\ reader' = reader /\ filter' = filter /\ sorter' = sorter /\ ctxDone' = ctxDone /\ gone' = gone
    BY DEF SendFails, Drain, Running
  <1>3. sender' \in Senders /\ sender'.pc = "drain" /\ readDone' = TRUE /\ (ctxDone \/ sender'.failed) /\ sender.pc # "off"
    <2>1. CASE SendFails
      BY <2>1 DEF SendFails, Senders
    <2>2. CASE Drain
      <3>1. sender.pc = "drain" /\ sender' = sender /\ readDone' = readDone /\ ~Drained(SenderIn)
        BY <1>2, <2>2 DEF Drain, Ready, Drained
      <3>2. ~Undisturbed
        BY <3>1 DEF Stages
      <3>3. readDone = TRUE
        BY <3>2 DEF Stages, CallTypes
      <3> QED BY <3>1, <3>2, <3>3 DEF Undisturbed, CallTypes
    <2> QED BY <2>1, <2>2
  <1>4. ~Undisturbed'
    BY <1>2, <1>3 DEF Undisturbed
  <1>5. reader.pc # "off"
    BY <1>2 DEF Stages
  <1>6. /\ c \in Chans /\ c \in Places /\ c # "pooled"
        /\ ChanTypes' /\ id \in Ids /\ id \in Place[c] /\ id \notin Place["pooled"]
        /\ Place'[c] = Place[c] \ {id}
        /\ \A p \in Places \ {c, "pooled"} : Place'[p] = Place[p]
        /\ \A d \in Chans : IsInjective(chans'[d].buf) /\ chans'[d].closed = chans[d].closed
    BY <1>1, <1>2, <1>5, SenderTakes
  <1>7. /\ filter.pc = "off" => chans'["filtered"] = chans["filtered"]
        /\ filter.pc = "done" => chans'["read"] = chans["read"]
        /\ IF HasSorter
           THEN /\ c = "sorted" /\ chans'["sorted"].buf = Tail(chans["sorted"].buf) /\ chans["sorted"].buf # <<>>
           ELSE chans'["sorted"] = chans["sorted"]
    BY <1>1, <1>2, <1>5, SenderTakes
  <1>8. /\ pooled' \in [Ids -> Nat] /\ \A x \in Ids : pooled'[x] <= 1
        /\ \A x \in Ids : pooled[x] = 1 => pooled'[x] = 1
        /\ Place'["pooled"] \subseteq Place["pooled"] \cup {id}
    <2>1. CASE SendFails
      <3>1. pooled' = pooled
        BY <2>1 DEF SendFails
      <3>2. Place'["pooled"] = Place["pooled"]
        BY <3>1, PlaceIs, NextPlaceIs
      <3> QED BY <3>1, <3>2 DEF OnePlace, CallTypes
    <2>2. CASE Drain
      <3>1. Return(id)
        BY <1>1, <2>2 DEF Drain
      <3> QED BY <1>6, <3>1, ReturnFacts
    <2> QED BY <2>1, <2>2
  <1>9. CallTypes'
    BY <1>2, <1>3, <1>6, <1>8 DEF CallTypes
  <1>10. plan.less # None => sorter.pc \notin {"off", "start"}
    BY <1>5, <1>7 DEF Stages, HasSorter
  <1>11. Stages'
    <2>1. /\ chans'["read"].closed = chans["read"].closed /\ chans'["filtered"].closed = chans["filtered"].closed
          /\ chans'["sorted"].closed = chans["sorted"].closed
      BY <1>6 DEF Chans
    <2>2. sorter.pc = "off" => chans'["sorted"] = chans["sorted"]
      BY <1>5, <1>7 DEF Stages
    <2> QED BY <1>2, <1>3, <1>4, <1>5, <1>7, <1>10, <2>1, <2>2 DEF Stages, Drained, HasFilter, HasSorter
  <1>12. OnePlace'
    <2>1. Apart(Place')
      <3>1. /\ "pooled" \in Places /\ Place'[c] \subseteq Place[c] \ {id}
            /\ \A p \in Places \ {c, "pooled"} : Place'[p] \subseteq Place[p]
        BY <1>6 DEF Places
      <3> QED BY <1>6, <1>8, <3>1, Move DEF OnePlace
    <2>2. \A x \in Range(sent') : pooled'[x] = 1
      <3>1. \A x \in Range(sent) : x \in Ids /\ pooled[x] = 1
        BY EmptyRange DEF OnePlace, CallTypes
      <3> QED BY <1>2, <1>8, <3>1
    <2>3. IsInjective(sorter'.items) /\ IsInjective(sent')
      BY <1>2 DEF OnePlace
    <2> QED BY <1>6, <1>8, <2>1, <2>2, <2>3 DEF OnePlace
  <1>13. OnlyPasses'
    <2>1. \A p \in Places \ {"pooled"} : Place'[p] \subseteq Place[p]
      BY <1>6
    <2> QED BY <1>2, <2>1, PassesFrame DEF Places
  <1>14. InOrder'
    <2>1. CASE Sorting
      <3>1. HasSorter
        BY <2>1 DEF Sorting, HasSorter
      <3>2. id = Head(chans["sorted"].buf)
        BY <1>1, <1>7, <3>1
      <3> QED BY <1>2, <1>5, <1>7, <2>1, <3>1, <3>2, TakenInOrder
    <2>2. CASE ~Sorting
      BY <1>2, <2>2 DEF InOrder, Sorting
    <2> QED BY <2>1, <2>2
  <1>15. Counted'
    BY <1>3, <1>4, CountedOff
  <1> QED BY <1>9, <1>11, <1>12, <1>13, <1>14, <1>15

\* What moves no record leaves the places and what is in them as they are.
LEMMA StillFacts ==
  ASSUME CallInv, UNCHANGED <<plan, chans, reader, filter, sorter, sent, pooled>>
  PROVE  OnePlace' /\ OnlyPasses' /\ InOrder' /\ Arrived' = Arrived
  <1> USE DEF CallInv
  <1>1. Unread' = Unread
    BY DEF Unread
  <1>2. /\ Place'["read"] = Place["read"] /\ Place'["filtered"] = Place["filtered"] /\ Place'["sorted"] = Place["sorted"]
        /\ Place'["unread"] = Place["unread"]
    BY <1>1, PlaceIs, NextPlaceIs
  <1>3. /\ Place'["tested"] = Place["tested"] /\ Place'["limited"] = Place["limited"] /\ Place'["items"] = Place["items"]
        /\ Place'["pooled"] = Place["pooled"]
    BY PlaceIs, NextPlaceIs
  <1>4. \A p \in Places : Place'[p] = Place[p]
    BY <1>2, <1>3 DEF Places
  <1>5. OnePlace'
    <2>1. Apart(Place')
      BY <1>4, Shrink DEF OnePlace
    <2> QED BY <2>1 DEF OnePlace, Chans
  <1>6. OnlyPasses'
    BY <1>4, PassesFrame DEF Places
  <1>7. InOrder'
    BY InOrderFrame DEF Outgoing
  <1>8. Upstream' = Upstream
    BY <1>2, <1>3 DEF Upstream
  <1> QED BY <1>5, <1>6, <1>7, <1>8, NoneArrives

\* The sender stops, at the end or because the group has failed.
LEMMA StopSendingStep ==
  ASSUME CallInv, Running, StopSending, UNCHANGED <<stored, live, plan, status, reader, filter, sorter, gone>>
  PROVE  CallInv'
  <1> USE DEF CallInv
  <1>1. /\ sender.pc = "start" /\ (ctxDone \/ Drained(SenderIn)) /\ sender' = [sender EXCEPT !.pc = "drain"]
        /\ chans' = chans /\ sent' = sent /\ pooled' = pooled /\ readDone' = readDone /\ ctxDone' = ctxDone
    BY DEF StopSending
  <1>2. sender' \in Senders /\ sender'.pc = "drain" /\ sender'.failed = sender.failed
    BY <1>1 DEF CallTypes, Senders
  <1>3. /\ OnePlace' /\ OnlyPasses' /\ InOrder' /\ Arrived' = Arrived
    BY <1>1, StillFacts
  <1>4. Undisturbed' <=> Undisturbed
    BY <1>1, <1>2 DEF Undisturbed
  <1>5. CallTypes'
    BY <1>1, <1>2 DEF CallTypes, ChanTypes
  <1>6. Stages'
    <2>1. Drained(SenderIn)' <=> Drained(SenderIn)
      BY <1>1 DEF Drained, SenderIn, SorterIn, HasSorter, HasFilter
    <2>2. Undisturbed => Drained(SenderIn)
      BY <1>1 DEF Undisturbed
    <2>3. /\ (Drained("read")' <=> Drained("read")) /\ (HasFilter' <=> HasFilter) /\ (HasSorter' <=> HasSorter)
      BY <1>1 DEF Drained, HasFilter, HasSorter
    <2>4. reader.pc # "off" /\ status = "running" /\ sender.pc # "off"
      BY <1>1 DEF Stages, Running
    <2> QED BY <1>1, <1>2, <1>4, <2>1, <2>2, <2>3, <2>4 DEF Stages
  <1>7. Counted'
    BY <1>1, <1>3, <1>4, CountedFrame
  <1> QED BY <1>3, <1>5, <1>6, <1>7

\* The sender returns; the error of a failed send ends the group.
LEMMA EndSenderStep ==
  ASSUME CallInv, Running, EndSender, UNCHANGED <<stored, live, plan, status, reader, filter, sorter, gone>>
  PROVE  CallInv'
  <1> USE DEF CallInv
  <1>1. /\ sender.pc = "drain" /\ Drained(SenderIn) /\ sender' = [sender EXCEPT !.pc = "done"]
        /\ chans' = chans /\ sent' = sent /\ pooled' = pooled
        /\ ctxDone' = (ctxDone \/ sender.failed) /\ readDone' = (readDone \/ sender.failed)
    BY DEF EndSender
  <1>2. sender' \in Senders /\ sender'.pc = "done" /\ sender'.failed = sender.failed
    BY <1>1 DEF CallTypes, Senders
  <1>3. /\ OnePlace' /\ OnlyPasses' /\ InOrder' /\ Arrived' = Arrived
    BY <1>1, StillFacts
  <1>4. ctxDone' \in BOOLEAN /\ readDone' = readDone /\ (Undisturbed' <=> Undisturbed)
    <2>1. sender.failed => readDone
      BY DEF Stages, Undisturbed
    <2>2. sender.failed \in BOOLEAN /\ ctxDone \in BOOLEAN /\ readDone \in BOOLEAN
      BY DEF CallTypes, Senders
    <2> QED BY <1>1, <1>2, <2>1, <2>2 DEF Undisturbed
  <1>5. CallTypes'
    BY <1>1, <1>2, <1>4 DEF CallTypes, ChanTypes
  <1>6. Stages'
    <2>1. Drained(SenderIn)' <=> Drained(SenderIn)
      BY <1>1 DEF Drained, SenderIn, SorterIn, HasSorter, HasFilter
    <2>2. /\ (Drained("read")' <=> Drained("read")) /\ (HasFilter' <=> HasFilter) /\ (HasSorter' <=> HasSorter)
      BY <1>1 DEF Drained, HasFilter, HasSorter
    <2>3. reader.pc # "off" /\ status = "running" /\ sender.pc # "off"
      BY <1>1 DEF Stages, Running
    <2> QED BY <1>1, <1>2, <1>4, <2>1, <2>2, <2>3 DEF Stages
  <1>7. Counted'
    BY <1>1, <1>3, <1>4, CountedFrame
  <1> QED BY <1>3, <1>5, <1>6, <1>7

-----------------------------------------------------------------------------
(* The request *)

\* The client goes away, a goroutine panics, or all have returned.
LEMMA RequestStep ==
  ASSUME CallInv, Leave \/ Crash \/ Wait PROVE CallInv'
  <1> USE DEF CallInv
  <1>1. /\ stored' = stored /\ live' = live /\ plan' = plan /\ chans' = chans
        /\ reader' = reader /\ filter' = filter /\ sorter' = sorter /\ sender' = sender /\ readDone' = readDone
        /\ ctxDone' = ctxDone /\ sent' = sent /\ pooled' = pooled
        /\ gone' \in {gone, TRUE} /\ status' \in {status, "crashed", "answered"} /\ status = "running"
    BY DEF Leave, Crash, Wait, Running
  <1>2. /\ OnePlace' /\ OnlyPasses' /\ InOrder' /\ Arrived' = Arrived
    BY <1>1, StillFacts
  <1>3. Undisturbed' <=> Undisturbed
    BY <1>1 DEF Undisturbed
  <1>4. CallTypes'
    BY <1>1 DEF CallTypes, ChanTypes
  <1>5. Stages'
    <2>1. Drained(SenderIn)' <=> Drained(SenderIn)
      BY <1>1 DEF Drained, SenderIn, SorterIn, HasSorter, HasFilter
    <2>2. /\ (Drained("read")' <=> Drained("read")) /\ (HasFilter' <=> HasFilter) /\ (HasSorter' <=> HasSorter)
      BY <1>1 DEF Drained, HasFilter, HasSorter
    <2>3. reader.pc # "off" /\ sender.pc # "off"
      BY <1>1 DEF Stages
    <2>4. status' = "answered" => /\ filter.pc # "start" /\ sorter.pc \in {"off", "done"} /\ sender.pc = "done"
      <3>1. SUFFICES ASSUME Wait PROVE filter.pc # "start" /\ sorter.pc \in {"off", "done"} /\ sender.pc = "done"
        BY <1>1 DEF Leave, Crash
      <3>2. filter.pc \in {"off", "done"} /\ sorter.pc \in {"off", "done"} /\ sender.pc \in {"off", "done"}
        BY <3>1 DEF Wait
      <3> QED BY <2>3, <3>2
    <2> QED BY <1>1, <1>3, <2>1, <2>2, <2>3, <2>4 DEF Stages
  <1>6. Counted'
    BY <1>1, <1>2, <1>3, CountedFrame
  <1> QED BY <1>2, <1>4, <1>5, <1>6

\* Nothing happens to the calls.
LEMMA CallStutter == ASSUME CallInv, UNCHANGED callVars PROVE CallInv'
  <1> USE DEF CallInv
  <1>1. /\ stored' = stored /\ live' = live /\ plan' = plan /\ status' = status /\ chans' = chans
        /\ reader' = reader /\ filter' = filter /\ sorter' = sorter /\ sender' = sender /\ readDone' = readDone
        /\ ctxDone' = ctxDone /\ gone' = gone /\ sent' = sent /\ pooled' = pooled
    BY DEF callVars
  <1>2. /\ OnePlace' /\ OnlyPasses' /\ InOrder' /\ Arrived' = Arrived
    BY <1>1, StillFacts
  <1>3. Undisturbed' <=> Undisturbed
    BY <1>1 DEF Undisturbed
  <1>4. CallTypes'
    BY <1>1 DEF CallTypes, ChanTypes
  <1>5. Stages'
    BY <1>1 DEF Stages, Untouched, Undisturbed, Drained, SenderIn, SorterIn, HasSorter, HasFilter
  <1>6. Counted'
    BY <1>1, <1>2, <1>3, CountedFrame
  <1> QED BY <1>2, <1>4, <1>5, <1>6

\* A pipeline that has not started.
Fresh ==
  /\ plan \in Plans /\ reader.pc \in {"off", "start"} /\ reader.id = 0 /\ filter.has = None
  /\ sorter.pc \in {"off", "start"} /\ sorter.has = None /\ sorter.n = 0 /\ sorter.items = <<>>
  /\ chans = [c \in Chans |-> NewChan] /\ sent = <<>> /\ pooled = [id \in Ids |-> 0]

LEMMA FreshFacts == Fresh => ChanTypes /\ OnePlace /\ OnlyPasses /\ InOrder /\ Counted
  <1> SUFFICES ASSUME Fresh PROVE ChanTypes /\ OnePlace /\ OnlyPasses /\ InOrder /\ Counted
    OBVIOUS
  <1>1. /\ plan \in Plans /\ reader.pc \in {"off", "start"} /\ reader.id = 0 /\ filter.has = None
        /\ sorter.pc \in {"off", "start"} /\ sorter.has = None /\ sorter.n = 0 /\ sorter.items = <<>>
        /\ sent = <<>> /\ pooled = [id \in Ids |-> 0]
    BY DEF Fresh
  <1>2. \A c \in Chans : chans[c].buf = <<>> /\ chans[c].closed = FALSE
    BY DEF Fresh, NewChan
  <1>3. ChanTypes
    <2>1. <<>> \in Seq(Ids) /\ Len(<<>>) = 0 /\ 0 <= BufferSize
      BY SearchAssumption, EmptyFacts
    <2>2. chans \in [Chans -> [buf : Seq(Ids), closed : BOOLEAN]]
      <3>1. NewChan \in [buf : Seq(Ids), closed : BOOLEAN]
        BY <2>1 DEF NewChan
      <3> QED BY <3>1 DEF Fresh
    <2> QED BY <1>2, <2>1, <2>2 DEF ChanTypes
  <1>4. /\ chans["read"].buf = <<>> /\ chans["filtered"].buf = <<>> /\ chans["sorted"].buf = <<>>
    BY <1>2 DEF Chans
  <1>5. Unread = Ids
    BY <1>1, IdFacts DEF Unread
  <1>6. Place["unread"] = Ids /\ \A p \in Places \ {"unread"} : Place[p] = {}
    <2>1. /\ Place["read"] = {} /\ Place["filtered"] = {} /\ Place["sorted"] = {}
      BY <1>4, EmptyFacts, PlaceIs
    <2>2. /\ Place["tested"] = {} /\ Place["limited"] = {}
      BY <1>1, PlaceIs
    <2>3. Place["items"] = {}
      BY <1>1, EmptyFacts, PlaceIs
    <2>4. Place["pooled"] = {}
      BY <1>1, PlaceIs
    <2> QED BY <1>5, <2>1, <2>2, <2>3, <2>4, PlaceIs DEF Places
  <1>7. OnePlace
    <2>1. Apart(Place)
      BY <1>6 DEF Apart
    <2> QED BY <1>1, <1>2, <2>1, EmptyFacts DEF OnePlace
  <1>8. OnlyPasses
    BY <1>1, <1>6, EmptyFacts DEF OnlyPasses, Places
  <1>9. InOrder
    <2>1. Outgoing = <<>> /\ Ordered(<<>>, plan.less)
      BY <1>1 DEF Outgoing, Ordered
    <2> QED BY <1>1, <1>4, <2>1, EmptyFacts DEF InOrder, AllBefore
  <1>10. Arrived = {} /\ Cardinality(Arrived) = 0
    <2>1. Passes \subseteq Ids
      BY <1>1, ArrivedFinite
    <2>2. Arrived = {}
      BY <1>6, <2>1 DEF Arrived, Upstream
    <2> QED BY <2>2, FS_EmptySet
  <1>11. plan.offset \in Nat /\ plan.rows \in Int
    BY <1>1 DEF Plans
  <1>12. Max({0 - plan.offset, 0}) = 0
    BY <1>11, MaxMin
  <1>13. Heap
    <2>1. Len(sorter.items) = 0
      BY <1>1, EmptyFacts
    <2>2. 0 = IF plan.rows > 0 /\ 0 > plan.rows THEN plan.rows ELSE 0
      BY <1>11
    <2> QED BY <1>10, <2>1, <2>2 DEF Heap
  <1>14. Counted
    <2>1. Len(sent) = 0 /\ Len(chans["sorted"].buf) = 0
      BY <1>1, <1>4, EmptyFacts
    <2>2. Len(sent) + Len(chans["sorted"].buf) + (IF sorter.has = None THEN 0 ELSE 1) = Max({sorter.n - plan.offset, 0})
      BY <1>1, <1>12, <2>1
    <2> QED BY <1>1, <1>10, <1>13, <2>1, <2>2 DEF Counted
  <1> QED BY <1>3, <1>7, <1>8, <1>9, <1>14

LEMMA FreshNext == (Fresh => ChanTypes /\ OnePlace /\ OnlyPasses /\ InOrder /\ Counted)'
  BY FreshFacts, PTL

\* A request has a plan of the right kind, and only one without a statement is sorted.
LEMMA PlanTyped ==
  ASSUME NEW r \in Requests, NEW next, next = IF r.sql # None THEN SqlPlan(r.sql) ELSE SimplePlan(FromString(r.params))
  PROVE  next \in Plans /\ (next.less # None => next.offset = 0)
  <1>1. CASE r.sql # None
    <2>1. /\ r.sql.where \in {None} \cup SUBSET Ids /\ r.sql.wrong \in BOOLEAN
          /\ r.sql.offset \in Nat /\ r.sql.rows \in Int
      BY <1>1, SearchAssumption
    <2>2. next = [keep |-> r.sql.where, wrong |-> r.sql.wrong, less |-> None, offset |-> r.sql.offset, rows |-> r.sql.rows]
      BY <1>1 DEF SqlPlan
    <2> QED BY <2>1, <2>2 DEF Plans
  <1>2. CASE r.sql = None
    <2>1. PICK p : p = FromString(r.params)
      OBVIOUS
    <2>2. /\ DOMAIN Defaults = Numbers \cup {"sort", "order"} /\ Defaults["gid"] = -1 /\ Defaults["limit"] = -1
          /\ Defaults["sort"] = NoSortKey
      BY DEF Defaults, Numbers
    <2>3. p["gid"] \in Int /\ p["limit"] \in Int /\ p["sort"] \in SortKeys
      <3>1. \A n \in DOMAIN r.params \cap Numbers : r.params[n] \in Int
        BY SearchAssumption
      <3>2. "sort" \in DOMAIN r.params => r.params["sort"] \in SortKeys
        BY SearchAssumption
      <3>3. \A n \in DOMAIN Defaults : p[n] = IF n \in DOMAIN r.params THEN r.params[n] ELSE Defaults[n]
        BY <2>1 DEF FromString
      <3>4. "gid" \in Numbers /\ "limit" \in Numbers /\ NoSortKey \in SortKeys
        BY DEF Numbers, SortKeys
      <3>5. p["gid"] \in Int
        BY <2>2, <3>1, <3>3, <3>4
      <3>6. p["limit"] \in Int
        BY <2>2, <3>1, <3>3, <3>4
      <3>7. p["sort"] \in SortKeys
        BY <2>2, <3>2, <3>3, <3>4
      <3> QED BY <3>5, <3>6, <3>7
    <2>4. PICK fn : fn = SortFn(p)
      OBVIOUS
    <2>5. fn \in {None} \cup Orders
      BY <2>3, <2>4 DEF SortFn, SortKeys, Orders
    <2>6. PICK k : k = IF p["gid"] >= 0 THEN {id \in Ids : ~Filtered(p, id)} ELSE None
      OBVIOUS
    <2>7. k \in {None} \cup SUBSET Ids
      BY <2>6
    <2>8. PICK l \in Int : l = p["limit"]
      BY <2>3
    <2>9. next = [keep |-> k, wrong |-> FALSE, less |-> fn, offset |-> 0, rows |-> l]
      BY <1>2, <2>1, <2>4, <2>6, <2>8 DEF SimplePlan
    <2>10. next \in Plans
      <3>1. PICK A, B : A = {None} \cup SUBSET Ids /\ B = {None} \cup Orders
        OBVIOUS
      <3>2. k \in A /\ fn \in B
        BY <2>5, <2>7, <3>1
      <3>3. l \in Int
        BY <2>8
      <3>4. [keep |-> k, wrong |-> FALSE, less |-> fn, offset |-> 0, rows |-> l]
              \in [keep : A, wrong : BOOLEAN, less : B, offset : Nat, rows : Int]
        BY <3>2, <3>3
      <3> QED BY <2>9, <3>1, <3>4 DEF Plans
    <2>11. next.offset = 0
      BY <2>9
    <2> QED BY <2>10, <2>11
  <1> QED BY <1>1, <1>2

\* A request comes in.
LEMMA HandleStep ==
  ASSUME CallInv, NEW r \in Requests, Handle(r) PROVE CallInv'
  <1> USE DEF CallInv
  <1>1. PICK next : next = IF r.sql # None THEN SqlPlan(r.sql) ELSE SimplePlan(FromString(r.params))
    OBVIOUS
  <1>2. next \in Plans /\ (next.less # None => next.offset = 0)
    BY <1>1, PlanTyped
  <1>3. PICK answer \in {"rejected", "answered", "running"} :
          LET Start(has) == IF answer = "running" /\ has THEN "start" ELSE "off"
          IN  /\ status' = answer /\ plan' = next
              /\ reader' = [reader EXCEPT !.pc = Start(TRUE)]
              /\ filter' = [filter EXCEPT !.pc = Start(next.keep # None)]
              /\ sorter' = [sorter EXCEPT !.pc = Start(next.less # None \/ next.rows > 0)]
              /\ sender' = [sender EXCEPT !.pc = Start(TRUE)]
    <2> DEFINE ans == CASE r.bad # {} \/ Conflicts(r)       -> "rejected"
                  [] r.sql # None /\ ~r.sql.valid     -> "rejected"
                  [] r.sql = None /\ Bounded(FromString(r.params))       -> "answered"
                  [] r.sql = None /\ r.format # "json" -> "rejected"
                  [] OTHER                            -> "running"
    <2>1. ans \in {"rejected", "answered", "running"}
      OBVIOUS
    <2> QED BY <1>1, <2>1 DEF Handle
  <1>4. /\ status = "idle" /\ stored' = stored /\ live' = live /\ chans' = chans /\ readDone' = readDone
        /\ ctxDone' = ctxDone /\ gone' = gone /\ sent' = sent /\ pooled' = pooled
    BY DEF Handle
  <1>5. Untouched
    BY <1>4 DEF Stages
  <1>6. PICK x, y, z : /\ x = (IF answer = "running" THEN "start" ELSE "off")
                       /\ y = (IF answer = "running" /\ next.keep # None THEN "start" ELSE "off")
                       /\ z = (IF answer = "running" /\ (next.less # None \/ next.rows > 0) THEN "start" ELSE "off")
    OBVIOUS
  <1>7. /\ reader' = [pc |-> x, id |-> 0, sim |-> {}] /\ filter' = [pc |-> y, has |-> None]
        /\ sorter' = [pc |-> z, has |-> None, n |-> 0, items |-> <<>>] /\ sender' = [pc |-> x, failed |-> FALSE]
        /\ x \in {"off", "start"} /\ y \in {"off", "start"} /\ z \in {"off", "start"}
    BY <1>3, <1>5, <1>6 DEF Untouched
  <1>8. /\ chans' = [c \in Chans |-> NewChan] /\ ~readDone' /\ ~ctxDone' /\ sent' = <<>> /\ pooled' = [id \in Ids |-> 0]
    BY <1>4, <1>5 DEF Untouched
  <1>9. Fresh'
    BY <1>2, <1>3, <1>7, <1>8 DEF Fresh
  <1>10. ChanTypes' /\ OnePlace' /\ OnlyPasses' /\ InOrder' /\ Counted'
    BY <1>9, FreshNext
  <1>11. CallTypes'
    <2>1. reader' \in Readers /\ reader'.id = 0 /\ filter' \in Filters /\ sender' \in Senders
      BY <1>7 DEF Readers, Filters, Senders
    <2>2. sorter' \in Sorters /\ sorter'.n = 0
      BY <1>7 DEF Sorters
    <2>3. 0 <= plan'.offset + Max({plan'.rows, 0})
      <3>1. plan'.offset \in Nat /\ plan'.rows \in Int
        BY <1>2, <1>3 DEF Plans
      <3> QED BY <3>1, MaxMin
    <2>4. plan' \in Plans /\ status' \in {"idle", "rejected", "running", "answered", "crashed"} /\ 0 <= stored'
          /\ stored' \in 0..Cardinality(Ids)
      BY <1>2, <1>3, <1>4, IdFacts DEF CallTypes
    <2> QED BY <1>4, <1>10, <2>1, <2>2, <2>3, <2>4 DEF CallTypes
  <1>12. Stages'
    <2>1. /\ chans'["read"].buf = <<>> /\ chans'["filtered"].buf = <<>> /\ chans'["sorted"].buf = <<>>
          /\ chans'["read"].closed = FALSE /\ chans'["filtered"].closed = FALSE /\ chans'["sorted"].closed = FALSE
      BY <1>8 DEF Chans, NewChan
    <2>2. /\ reader'.pc = x /\ filter'.pc = y /\ filter'.has = None /\ sorter'.pc = z /\ sorter'.has = None
          /\ sorter'.items = <<>> /\ sender'.pc = x /\ sender'.failed = FALSE
      BY <1>7
    <2>3. x = "off" => Untouched'
      <3>1. x = "off" => y = "off" /\ z = "off"
        BY <1>6
      <3> QED BY <1>7, <1>8, <3>1 DEF Untouched
    <2>4. status' = answer /\ (x # "off" <=> answer = "running") /\ answer # "idle"
      BY <1>3, <1>6
    <2>5. x # "off" => (HasFilter' <=> y # "off") /\ (HasSorter' <=> z # "off")
      BY <1>3, <1>6 DEF HasFilter, HasSorter
    <2>6. IF plan'.less = None THEN TRUE ELSE plan'.offset = 0
      BY <1>2, <1>3
    <2>7. stored'..(Cardinality(Ids) - 1) \subseteq live'
      BY <1>4 DEF Stages
    <2> QED BY <1>7, <1>8, <2>1, <2>2, <2>3, <2>4, <2>5, <2>6, <2>7 DEF Stages, Undisturbed
  <1> QED BY <1>10, <1>11, <1>12

LEMMA InitCalls == Init => CallInv
  <1> SUFFICES ASSUME Init PROVE CallInv
    OBVIOUS
  <1>1. /\ stored \in 0..Cardinality(Ids) /\ live \in SUBSET Ids /\ \A id \in Ids : id >= stored => id \in live
        /\ plan = NoPlan /\ status = "idle" /\ gone = FALSE
    BY DEF Init
  <1>2. Untouched /\ readDone = FALSE /\ ctxDone = FALSE
    BY DEF Init, Untouched
  <1>3. plan \in Plans /\ plan.less = None /\ plan.offset = 0 /\ plan.rows = 0
    BY <1>1 DEF NoPlan, Plans
  <1>4. /\ reader \in Readers /\ reader.pc = "off" /\ reader.id = 0
        /\ filter \in Filters /\ filter.pc = "off" /\ filter.has = None
        /\ sorter \in Sorters /\ sorter.pc = "off" /\ sorter.has = None /\ sorter.n = 0 /\ sorter.items = <<>>
        /\ sender \in Senders /\ sender.pc = "off" /\ sender.failed = FALSE
    BY <1>2 DEF Untouched, Readers, Filters, Sorters, Senders
  <1>5. Fresh
    BY <1>2, <1>3, <1>4 DEF Fresh, Untouched
  <1>6. ChanTypes /\ OnePlace /\ OnlyPasses /\ InOrder /\ Counted
    BY <1>5, FreshFacts
  <1>7. CallTypes
    <2>1. 0 <= plan.offset + Max({plan.rows, 0})
      BY <1>3, MaxMin
    <2>2. sent \in Seq(Ids) /\ pooled \in [Ids -> Nat]
      BY <1>2 DEF Untouched
    <2>3. 0 <= stored
      BY <1>1, IdFacts
    <2> QED BY <1>1, <1>2, <1>3, <1>4, <1>6, <2>1, <2>2, <2>3 DEF CallTypes
  <1>8. Stages
    <2>1. stored..(Cardinality(Ids) - 1) \subseteq live
      BY <1>1, IdFacts
    <2>2. \A c \in Chans : chans[c].buf = <<>> /\ chans[c].closed = FALSE
      BY <1>2 DEF Untouched, NewChan
    <2> QED BY <1>1, <1>2, <1>3, <1>4, <2>1, <2>2 DEF Stages, Undisturbed, Chans
  <1> QED BY <1>6, <1>7, <1>8 DEF CallInv

LEMMA InitGoroutines == Init => GInv
  <1> SUFFICES ASSUME Init PROVE GInv
    OBVIOUS
  <1>1. gsearch = [pc |-> "idle", range |-> None, gid |-> 0, buf |-> <<>>, writer |-> "off", sent |-> <<>>]
    BY DEF Init
  <1>2. GTypes
    BY <1>1 DEF GTypes
  <1>3. Rising(<<>>)
    BY DEF Rising
  <1>4. Wanted = {}
    BY <1>1 DEF Wanted
  <1>5. GInOrder
    BY <1>1, <1>3, <1>4, EmptyFacts DEF GInOrder
  <1> QED BY <1>2, <1>5 DEF GInv

-----------------------------------------------------------------------------
(* The theorems *)

LEMMA ReaderKeeps == ASSUME CallInv, Reader PROVE CallInv'
  <1>1. \/ ReaderStep(ReadStore) \/ ReaderStep(EndStore) \/ ReaderStep(ReadSim) \/ ReaderStep(EndReader)
        \/ ReaderStep(ReadFails)
    BY DEF Reader, ReaderGoesOn, ReaderStep
  <1> QED BY <1>1, ReadStoreStep, EndStoreStep, ReadSimStep, EndReaderStep, ReadFailsStep

LEMMA FilterKeeps == ASSUME CallInv, Filter PROVE CallInv'
  <1>1. /\ Running /\ (FilterTake \/ FilterSend \/ EndFilter)
        /\ UNCHANGED <<stored, live, plan, status, reader, sorter, sender, readDone, ctxDone, gone, sent>>
    BY DEF Filter
  <1> QED BY <1>1, FilterTakeStep, FilterSendStep, EndFilterStep

LEMMA SorterKeeps == ASSUME CallInv, Sorter PROVE CallInv'
  <1>1. /\ Running /\ (LimitTake \/ LimitSend \/ EndLimit \/ SortTake \/ SortAll \/ SortSend \/ EndSort)
        /\ UNCHANGED <<stored, live, plan, status, reader, filter, sender, ctxDone, gone, sent, pooled>>
    BY DEF Sorter
  <1> QED BY <1>1, LimitTakeStep, LimitSendStep, EndLimitStep, SortTakeStep, SortAllStep, SortSendStep, EndSortStep

LEMMA SenderKeeps == ASSUME CallInv, Sender PROVE CallInv'
  <1>1. /\ Running /\ (SendRecord \/ SendFails \/ StopSending \/ Drain \/ EndSender)
        /\ UNCHANGED <<stored, live, plan, status, reader, filter, sorter, gone>>
    BY DEF Sender
  <1> QED BY <1>1, SendRecordStep, DropStep, StopSendingStep, EndSenderStep

LEMMA CallsKeep == ASSUME IInv, Calls PROVE IInv'
  <1>1. CallInv /\ GInv /\ gsearch' = gsearch
    BY DEF IInv, Calls
  <1>2. GInv'
    BY <1>1, GStutter
  <1>3. (\E r \in Requests : Handle(r)) \/ Leave \/ Reader \/ Filter \/ Sorter \/ Sender \/ Crash \/ Wait
    BY DEF Calls
  <1>4. CallInv'
    BY <1>1, <1>3, HandleStep, RequestStep, ReaderKeeps, FilterKeeps, SorterKeeps, SenderKeeps
  <1> QED BY <1>2, <1>4 DEF IInv

\* IInv is an inductive invariant of the handlers: every step of the reader, filter,
\* limiter or sorter and sender, every failure, every request and every step of
\* goroutineSearch keeps it.
THEOREM SearchInvariant == Spec => []IInv
  <1>1. Init => IInv
    BY InitCalls, InitGoroutines DEF IInv
  <1>2. ASSUME IInv, [Next]_vars PROVE IInv'
    <2>1. CASE Calls
      BY <1>2, <2>1, CallsKeep
    <2>2. CASE UNCHANGED callVars
      <3>1. CallInv'
        BY <1>2, <2>2, CallStutter DEF IInv
      <3>2. \/ \E range \in TimeRanges : SearchGoroutines(range)
            \/ ReadGoroutine \/ EndGoroutines \/ GoroutineFails \/ WriteGoroutine \/ EndWriter
            \/ UNCHANGED gsearch
        BY <1>2 DEF Next, vars, Calls, GoroutineReader, GoroutineWriter
      <3>3. GInv
        BY <1>2 DEF IInv
      <3>4. GInv'
        BY <3>2, <3>3, GSearchStep, GReadStep, GEndStep, GWriteStep, GEndWriterStep, GStutter
      <3> QED BY <3>1, <3>4 DEF IInv
    <2> QED BY <1>2, <2>1, <2>2 DEF Next, vars, GoroutineReader, GoroutineWriter
  <1> QED BY <1>1, <1>2, PTL DEF Spec

LEMMA InvariantPool == ASSUME IInv PROVE PoolIsSafe
  <1>1. CallInv /\ GInv
    BY DEF IInv
  <1>2. TypeOK /\ OnePlace /\ CallTypes
    BY <1>1 DEF CallInv, GInv, TypeOK
  <1>3. ASSUME NEW id \in Ids, pooled[id] = 1 PROVE id \notin InFlight
    <2>1. id \in Place["pooled"]
      <3>1. pooled[id] > 0
        BY <1>3
      <3> QED BY <3>1, PlaceIs
    <2>2. \A p \in Places \ {"pooled"} : id \notin Place[p]
      BY <1>2, <2>1 DEF OnePlace, Apart, Places
    <2>3. \A c \in Chans : id \notin Range(chans[c].buf)
      BY <2>2, PlaceIs DEF Chans, Places
    <2>4. id \notin Range(sorter.items) /\ id \notin {filter.has} \ {None} /\ id \notin {sorter.has} \ {None}
      BY <2>2, PlaceIs DEF Places
    <2>5. id \notin UNION {Range(chans[c].buf) : c \in Chans}
      BY <2>3
    <2>6. id \notin {filter.has, sorter.has} \ {None}
      BY <2>4
    <2> QED BY <2>4, <2>5, <2>6 DEF InFlight
  <1> QED BY <1>2, <1>3 DEF PoolIsSafe, OnePlace

\* No record is put back into FuncLogPool twice, or while the pipeline still holds
\* it, whatever the log, the request and the capacity of the channels, and whoever
\* of the goroutines fails when (the Put calls of filterFuncLog and sendTo).
THEOREM PoolSafety == Spec => []PoolIsSafe
  BY SearchInvariant, InvariantPool, PTL

LEMMA InvariantAnswer == ASSUME IInv PROVE AnswerIsTheWindow
  <1>1. CallInv /\ GoroutinesInOrder
    BY GInvImplies DEF IInv
  <1>2. AnswerIsSound
    BY <1>1 DEF CallInv, OnePlace, OnlyPasses, InOrder, Sorting, AnswerIsSound
  <1>3. ASSUME status = "answered", reader.pc = "done", ~ctxDone, ~sender.failed
        PROVE  /\ Len(sent) = WindowSize
               /\ Sorting => \A id \in Passes \ Range(sent) : Smaller(sent, id, plan.less)
    <2>1. Undisturbed /\ reader.pc # "off" /\ sent \in Seq(Ids) /\ plan \in Plans
      BY <1>1, <1>3 DEF Undisturbed, CallInv, CallTypes
    <2>2. sorter.pc \in {"off", "done"} /\ Drained(SenderIn) /\ sorter.items = <<>> /\ (HasSorter <=> sorter.pc # "off")
      BY <1>1, <1>3, <2>1 DEF CallInv, Stages
    <2>3. CASE HasSorter
      <3>1. sorter.pc = "done" /\ chans["sorted"].buf = <<>>
        BY <2>2, <2>3 DEF SenderIn, Drained
      <3>2. /\ Len(sent) + Len(chans["sorted"].buf) + Len(sorter.items) = WindowSize
            /\ Sorting => \A x \in Passes \ OutRange, y \in OutRange : ~Less(plan.less, x, y)
        BY <1>1, <2>1, <3>1 DEF CallInv, Counted
      <3>3. Len(sent) \in Nat /\ Len(chans["sorted"].buf) = 0 /\ Len(sorter.items) = 0
        BY <2>1, <2>2, <3>1, EmptyRange, EmptyFacts
      <3>4. Len(sent) = WindowSize
        BY <3>2, <3>3
      <3>5. OutRange = Range(sent)
        BY <2>2, <3>1, EmptyFacts DEF OutRange
      <3> QED BY <3>2, <3>4, <3>5 DEF Smaller, Range
    <2>4. CASE ~HasSorter
      <3>1. ~readDone /\ Drained(SorterIn) /\ plan.less = None
        BY <1>1, <2>1, <2>2, <2>4 DEF CallInv, Stages, SenderIn, HasSorter
      <3>2. Arrived = Passes
        BY <1>1, <2>1, <3>1, AllArrived
      <3>3. Len(sent) = Cardinality(Passes)
        BY <1>1, <2>4, <3>1, <3>2 DEF CallInv, Counted
      <3>4. ~(plan.rows > 0)
        BY <2>4 DEF HasSorter
      <3>5. WindowSize = Cardinality(Passes)
        BY <3>4 DEF WindowSize
      <3> QED BY <3>1, <3>3, <3>5 DEF Sorting
    <2> QED BY <2>3, <2>4
  <1> QED BY <1>1, <1>2, <1>3 DEF AnswerIsTheWindow, Sorting

\* Whatever the log, the request and the channels: the client of an undisturbed
\* request gets exactly the rows that filter, order, offset and limit select, the one
\* of a request that fails gets no wrong, repeated or misplaced row, and
\* goroutineSearch sends the goroutines of its range once each and in order.
THEOREM AnswerCorrect == Spec => []AnswerIsTheWindow
  BY SearchInvariant, InvariantAnswer, PTL
=============================================================================
