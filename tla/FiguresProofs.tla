---------------------------- MODULE FiguresProofs ----------------------------
(***************************************************************************)
(* What Statistics promises holds for any column and any layer.  Ranked    *)
(* values: an order of a finite set has a sequence in that order, and the  *)
(* pages cut it without a gap.  Breaks: each is a fraction between the     *)
(* least and the greatest value, and buckets of the histogram are nowhere  *)
(* narrower than the bounds that are shown.  Charts: the statistic of the  *)
(* statistics of parts is the statistic of the whole.                      *)
(*                                                                         *)
(* Isolines.  The polygons of a step are what is reached in its time, on   *)
(* a grid of any size, whatever is reached of it and for any number of     *)
(* steps.                                                                  *)
(*                                                                         *)
(* A line runs over crossings: edges between a pixel that is reached, on   *)
(* its left, and one that is not.  Every crossing has one that follows and *)
(* one that it follows, so that lines close (Trace, LinesAre).  How often  *)
(* closed lines go around a pixel (Winding) changes by one where one of    *)
(* them is crossed, in rows and columns alike (StepAcross, StepAlong); so  *)
(* a single line goes around each pixel once or not at all, and always the *)
(* same way (LoopsWindOnce), and all of them together go once around what  *)
(* is reached (AllWindAroundReached).  Around a pixel there is then one    *)
(* shell more than there are holes if it is reached, and as many if not    *)
(* (ShellsAndHoles); and a hole in one shell only is that shell's, which   *)
(* goes around all the hole does (ShellAroundHole).                        *)
(* What the code computes is this: the sum it keeps while it follows a     *)
(* line is positive just when the line goes around to the left             *)
(* (LeftIsPositive, RightIsNot, TurnOfStep), and counting the edges to the *)
(* right of a point tells whether the line goes around it (InRing).        *)
(***************************************************************************)
EXTENDS Statistics, Isolines, ToolsProofs

(* Sorting.  What comes before what, and what it makes of a set.           *)
IsOrder(S, before) ==
  /\ \A x \in S : <<x, x>> \notin before
  /\ \A x, y, z \in S : <<x, y>> \in before /\ <<y, z>> \in before => <<x, z>> \in before

IsInOrder(S, before, s) ==
  /\ s \in [1..Cardinality(S) -> S]
  /\ \A i, j \in 1..Cardinality(S) : i < j => s[i] # s[j] /\ <<s[j], s[i]>> \notin before

LEMMA SomethingIsFirst ==
  ASSUME NEW S, IsFiniteSet(S), NEW before, IsOrder(S, before)
  PROVE  \A s \in SUBSET S : s # {} => \E x \in s : \A y \in s : <<y, x>> \notin before
<1> DEFINE Good == {s \in SUBSET S : s # {} => \E x \in s : \A y \in s : <<y, x>> \notin before}
<1>1. ASSUME NEW s \in SUBSET S, \A t \in SUBSET s : t # s => t \in Good, s # {}
      PROVE  \E x \in s : \A y \in s : <<y, x>> \notin before
  <2>1. PICK p : p = Picked(s)
    OBVIOUS
  <2>2. p \in s /\ Rest(s) = s \ {p} /\ Rest(s) \in Good
    BY <1>1, <2>1, RestIsSmaller DEF Rest
  <2>3. <<p, p>> \notin before
    BY <2>2 DEF IsOrder
  <2>4. CASE Rest(s) = {}
    BY <2>2, <2>3, <2>4
  <2>5. CASE Rest(s) # {}
    <3>1. PICK x \in Rest(s) : \A y \in Rest(s) : <<y, x>> \notin before
      BY <2>2, <2>5
    <3>2. CASE <<p, x>> \in before
      <4>1. \A y \in Rest(s) : <<y, p>> \notin before
        BY <2>2, <3>1, <3>2 DEF IsOrder
      <4> QED BY <2>2, <2>3, <4>1
    <3>3. CASE <<p, x>> \notin before
      BY <2>2, <3>1, <3>3
    <3> QED BY <3>2, <3>3
  <2> QED BY <2>4, <2>5
<1>2. \A s \in SUBSET S : s \in Good
  <2>1. ASSUME NEW s \in SUBSET S, \A t \in SUBSET s : t # s => t \in Good
        PROVE  s \in Good
    BY <1>1, <2>1
  <2> HIDE DEF Good
  <2> QED BY <2>1, BySmaller
<1> QED BY <1>2

LEMMA InOrderExists ==
  ASSUME NEW S, IsFiniteSet(S), NEW before, IsOrder(S, before)
  PROVE  \E s : IsInOrder(S, before, s)
<1> DEFINE Good == {t \in SUBSET S : \E s : IsInOrder(t, before, s)}
<1>1. ASSUME NEW t \in SUBSET S, \A r \in SUBSET t : r # t => r \in Good
      PROVE  t \in Good
  <2>1. PICK n : n = Cardinality(t)
    OBVIOUS
  <2>2. IsFiniteSet(t) /\ n \in Nat
    BY <2>1, FS_Subset, FS_CardinalityType
  <2>3. CASE t = {}
    <3>1. n = 0
      BY <2>1, <2>3, FS_EmptySet
    <3> DEFINE s == [i \in 1..0 |-> i]
    <3>2. s \in [1..n -> t] /\ \A i \in 1..n : FALSE
      BY <3>1
    <3>3. IsInOrder(t, before, s)
      <4> HIDE DEF s
      <4> QED BY <2>1, <3>2 DEF IsInOrder
    <3> HIDE DEF s
    <3> QED BY <3>3
  <2>4. CASE t # {}
    <3>1. PICK x \in t : \A y \in t : <<y, x>> \notin before
      BY <2>4, SomethingIsFirst
    <3>2. t \ {x} \in Good /\ Cardinality(t \ {x}) = n - 1 /\ n - 1 \in Nat
      <4>1. t \ {x} \in SUBSET t /\ t \ {x} # t
        OBVIOUS
      <4>2. IsFiniteSet(t \ {x}) /\ Cardinality(t \ {x}) = n - 1
        BY <2>1, <2>2, FS_RemoveElement
      <4>3. Cardinality(t \ {x}) \in Nat
        BY <4>2, FS_CardinalityType
      <4> HIDE DEF Good
      <4> QED BY <1>1, <4>1, <4>2, <4>3
    <3>3. PICK q : IsInOrder(t \ {x}, before, q)
      BY <3>2
    <3>4. /\ \A i \in 1..(n - 1) : q[i] \in t /\ q[i] # x
          /\ \A i, j \in 1..(n - 1) : i < j => q[i] # q[j] /\ <<q[j], q[i]>> \notin before
      BY <3>2, <3>3 DEF IsInOrder
    <3> DEFINE s == [i \in 1..n |-> IF i = 1 THEN x ELSE q[i - 1]]
    <3>5. \A i \in 1..n : s[i] = IF i = 1 THEN x ELSE q[i - 1]
      OBVIOUS
    <3>6. \A i \in 1..n : i # 1 => i - 1 \in 1..(n - 1)
      BY <2>2
    <3>7. \A i \in 1..n : s[i] \in t /\ (i # 1 => s[i] = q[i - 1] /\ s[i] # x)
      <4> HIDE DEF s
      <4> QED BY <3>4, <3>5, <3>6
    <3>8. s \in [1..n -> t]
      <4>1. s = [i \in 1..n |-> s[i]]
        OBVIOUS
      <4> HIDE DEF s
      <4> QED BY <3>7, <4>1
    <3>9. ASSUME NEW i \in 1..n, NEW j \in 1..n, i < j
          PROVE  s[i] # s[j] /\ <<s[j], s[i]>> \notin before
      <4>1. j # 1 /\ s[j] = q[j - 1] /\ s[j] # x /\ s[j] \in t /\ j - 1 \in 1..(n - 1)
        <5> HIDE DEF s
        <5> QED BY <2>2, <3>6, <3>7, <3>9
      <4>2. CASE i = 1
        <5>1. s[i] = x
          BY <4>2
        <5> HIDE DEF s
        <5> QED BY <3>1, <4>1, <5>1
      <4>3. CASE i # 1
        <5>1. s[i] = q[i - 1] /\ i - 1 \in 1..(n - 1) /\ i - 1 < j - 1
          <6> HIDE DEF s
          <6> QED BY <2>2, <3>6, <3>7, <3>9, <4>3
        <5> HIDE DEF s
        <5> QED BY <3>4, <4>1, <5>1
      <4> QED BY <4>2, <4>3
    <3>10. IsInOrder(t, before, s)
      <4> HIDE DEF s
      <4> QED BY <2>1, <3>8, <3>9 DEF IsInOrder
    <3> HIDE DEF s
    <3> QED BY <3>10
  <2> QED BY <2>3, <2>4
<1>2. \A t \in SUBSET S : t \in Good
  <2> HIDE DEF Good
  <2> QED BY <1>1, BySmaller
<1> QED BY <1>2

(* ORDER BY leaves nothing out, and nothing in its wrong place.            *)
LEMMA InOrderIs ==
  ASSUME NEW S, IsFiniteSet(S), NEW before, IsOrder(S, before)
  PROVE  /\ IsInOrder(S, before, InOrder(S, before))
         /\ {InOrder(S, before)[i] : i \in 1..Cardinality(S)} = S
<1>1. PICK n : n = Cardinality(S) /\ n \in Nat
  BY FS_CardinalityType
<1>2. PICK s : s = InOrder(S, before)
  OBVIOUS
<1>3. PICK q : IsInOrder(S, before, q)
  BY InOrderExists
<1>4. \E r \in [1..n -> S] : \A i, j \in DOMAIN r : i < j => r[i] # r[j] /\ <<r[j], r[i]>> \notin before
  <2>1. q \in [1..n -> S] /\ DOMAIN q = 1..n
    BY <1>1, <1>3 DEF IsInOrder
  <2> QED BY <1>1, <1>3, <2>1 DEF IsInOrder
<1>5. s \in [1..n -> S] /\ \A i, j \in DOMAIN s : i < j => s[i] # s[j] /\ <<s[j], s[i]>> \notin before
  <2>1. InOrder(S, before) = CHOOSE r \in [1..n -> S] : \A i, j \in DOMAIN r : i < j => r[i] # r[j] /\ <<r[j], r[i]>> \notin before
    BY <1>1, Zenon DEF InOrder
  <2> QED BY <1>2, <1>4, <2>1, Zenon
<1>6. DOMAIN s = 1..n
  BY <1>5
<1>7. IsInOrder(S, before, s)
  BY <1>1, <1>5, <1>6 DEF IsInOrder
<1> DEFINE all == {s[i] : i \in 1..n}
<1>8. \A i, j \in 1..n : s[i] = s[j] => i = j
  <2> TAKE i \in 1..n, j \in 1..n
  <2>1. i < j => s[i] # s[j]
    BY <1>5, <1>6
  <2>2. j < i => s[j] # s[i]
    BY <1>5, <1>6
  <2> QED BY <1>1, <2>1, <2>2
<1>9. IsFiniteSet(1..n) /\ Cardinality(1..n) = n
  BY <1>1, FS_Interval
<1>10. Cardinality(all) = n
  <2>1. PICK D : D = 1..n
    OBVIOUS
  <2>2. IsFiniteSet(D) /\ Cardinality(D) = n /\ \A i, j \in D : s[i] = s[j] => i = j
    BY <1>8, <1>9, <2>1
  <2>3. Cardinality({s[i] : i \in D}) = Cardinality(D)
    BY <2>2, AsMany, Zenon
  <2> QED BY <2>1, <2>2, <2>3
<1>11. all \in SUBSET S
  BY <1>5
<1>12. all = S
  <2> HIDE DEF all
  <2> QED BY <1>1, <1>10, <1>11, FS_Subset
<1> QED BY <1>1, <1>2, <1>7, <1>12

(* FlattenSeq, as a function of how many sequences are joined.             *)
Flattening(seqs, n, f) == f = [i \in 1..n |-> IF i = 1 THEN seqs[i] ELSE f[i - 1] \o seqs[i]]

LEMMA FlatteningExists ==
  ASSUME NEW seqs
  PROVE  \A n \in Nat \ {0} : \E f : Flattening(seqs, n, f)
<1> DEFINE Bad == {n \in Nat \ {0} : ~ \E f : Flattening(seqs, n, f)}
<1>1. SUFFICES ASSUME Bad # {} PROVE FALSE
  OBVIOUS
<1>2. PICK m \in Bad : \A n \in Bad : m <= n
  <2>1. Bad \in SUBSET Nat
    OBVIOUS
  <2> HIDE DEF Bad
  <2> QED BY <1>1, <2>1, LeastExists
<1>3. CASE m = 1
  <2> DEFINE f == [i \in 1..1 |-> seqs[1]]
  <2>1. f = [i \in 1..1 |-> IF i = 1 THEN seqs[i] ELSE f[i - 1] \o seqs[i]]
    OBVIOUS
  <2>2. Flattening(seqs, 1, f)
    BY <2>1 DEF Flattening
  <2> HIDE DEF f
  <2> QED BY <1>3, <2>2
<1>4. CASE m # 1
  <2>1. m - 1 \in Nat \ {0} /\ m \in Nat /\ m - 1 < m
    BY <1>4
  <2>2. m - 1 \notin Bad
    <3> HIDE DEF Bad
    <3> QED BY <1>2, <2>1
  <2>3. PICK f : Flattening(seqs, m - 1, f)
    BY <2>1, <2>2
  <2>0. PICK joined : joined = f[m - 1] \o seqs[m]
    OBVIOUS
  <2> DEFINE g == [i \in 1..m |-> IF i = m THEN joined ELSE f[i]]
  <2>4. g[m - 1] = f[m - 1] /\ \A i \in 1..(m - 1) : g[i] = f[i]
    <3>1. \A i \in 1..(m - 1) : i \in 1..m /\ i # m
      BY ONLY <2>1
    <3>2. \A i \in 1..(m - 1) : g[i] = f[i]
      BY ONLY <3>1
    <3>3. m - 1 \in 1..(m - 1)
      BY ONLY <2>1
    <3> QED BY ONLY <3>2, <3>3
  <2>5. \A i \in 1..(m - 1) : f[i] = IF i = 1 THEN seqs[i] ELSE f[i - 1] \o seqs[i]
    BY <2>3, Zenon DEF Flattening
  <2>6. ASSUME NEW i \in 1..m
        PROVE  g[i] = IF i = 1 THEN seqs[i] ELSE g[i - 1] \o seqs[i]
    <3>1. CASE i = m
      <4>1. g[i] = joined
        BY ONLY <3>1, i \in 1..m
      <4> HIDE DEF g
      <4> QED BY <1>4, <2>0, <2>4, <3>1, <4>1
    <3>2. CASE i # m
      <4>1. i \in 1..(m - 1) /\ (i # 1 => i - 1 \in 1..(m - 1))
        BY <2>1, <3>2
      <4>2. g[i] = f[i] /\ (i # 1 => g[i - 1] = f[i - 1])
        <5> HIDE DEF g
        <5> QED BY <2>4, <4>1
      <4>3. f[i] = IF i = 1 THEN seqs[i] ELSE f[i - 1] \o seqs[i]
        BY <2>5, <4>1
      <4> HIDE DEF g
      <4> QED BY <4>2, <4>3
    <3> QED BY <3>1, <3>2
  <2>7. g = [i \in 1..m |-> IF i = 1 THEN seqs[i] ELSE g[i - 1] \o seqs[i]]
    <3>1. g = [i \in 1..m |-> g[i]]
      OBVIOUS
    <3> HIDE DEF g
    <3> QED BY <2>6, <3>1
  <2>8. Flattening(seqs, m, g)
    <3> HIDE DEF g
    <3> QED BY <2>7, Zenon DEF Flattening
  <2> HIDE DEF g
  <2> QED BY <2>8
<1> QED BY <1>3, <1>4

LEMMA FlattenIs ==
  ASSUME NEW seqs, NEW m \in Nat \ {0}, Len(seqs) = m
  PROVE  \E f : Flattening(seqs, m, f) /\ FlattenSeq(seqs) = f[m]
<1> DEFINE it == CHOOSE f : Flattening(seqs, m, f)
<1>1. Flattening(seqs, m, it)
  BY FlatteningExists
<1>2. FlattenSeq(seqs) = it[m]
  <2>1. m # 0
    OBVIOUS
  <2> QED BY <2>1, Zenon DEF FlattenSeq, Flattening
<1> QED BY <1>1, <1>2

LEMMA JoinedSequences ==
  ASSUME NEW V, NEW s \in Seq(V), NEW t \in Seq(V), NEW a \in Nat, NEW b \in Nat, Len(s) = a, Len(t) = b
  PROVE  s \o t = [i \in 1..(a + b) |-> IF i <= a THEN s[i] ELSE t[i - a]]
<1>1. /\ s \o t \in Seq(V) /\ Len(s \o t) = a + b
      /\ \A i \in 1..(a + b) : (s \o t)[i] = IF i <= a THEN s[i] ELSE t[i - a]
  BY ConcatProperties
<1>2. PICK u : u = s \o t
  OBVIOUS
<1>3. u \in Seq(V) /\ Len(u) = a + b /\ \A i \in 1..(a + b) : u[i] = IF i <= a THEN s[i] ELSE t[i - a]
  BY ONLY <1>1, <1>2
<1>4. u = [i \in 1..(a + b) |-> u[i]]
  BY ONLY <1>3
<1> QED BY ONLY <1>2, <1>3, <1>4

LEMMA JoinedParts ==
  ASSUME NEW a \in Nat, NEW b \in Nat, a <= b, NEW c
  PROVE  [i \in 1..a |-> c[i]] \o [i \in 1..(b - a) |-> c[a + i]] = [i \in 1..b |-> c[i]]
<1> DEFINE s == [i \in 1..a |-> c[i]]
           t == [i \in 1..(b - a) |-> c[a + i]]
           V == {c[i] : i \in 1..b}
<1>1. b - a \in Nat /\ \A i \in 1..(b - a) : a + i \in 1..b
  OBVIOUS
<1>2. s \in Seq(V) /\ t \in Seq(V) /\ Len(s) = a /\ Len(t) = b - a
  BY <1>1
<1>3. s \o t = [i \in 1..(a + (b - a)) |-> IF i <= a THEN s[i] ELSE t[i - a]]
  <2> HIDE DEF s, t, V
  <2> QED BY <1>1, <1>2, JoinedSequences
<1>4. a + (b - a) = b
  OBVIOUS
<1>5. ASSUME NEW i \in 1..b PROVE (IF i <= a THEN s[i] ELSE t[i - a]) = c[i]
  <2>1. CASE i <= a
    BY <2>1
  <2>2. CASE ~(i <= a)
    <3>1. i - a \in 1..(b - a) /\ a + (i - a) = i
      BY <2>2
    <3>2. t[i - a] = c[a + (i - a)]
      BY <3>1
    <3> HIDE DEF s, t
    <3> QED BY <2>2, <3>1, <3>2
  <2> QED BY <2>1, <2>2
<1> HIDE DEF s, t
<1> QED BY <1>3, <1>4, <1>5 DEF s, t

(* get_unique_values.  What comes before what, and how many values the     *)
(* first pages hold.                                                       *)
ValuesBefore(values, order) ==
  LET before(v, w) ==
        LET m == Count(values, v) n == Count(values, w)
        IN IF m = n THEN v < w ELSE IF order = "descendent" THEN m > n ELSE m < n
  IN {x \in Known_values(values) \X Known_values(values) : before(x[1], x[2])}

ListedValues(values, order) == InOrder(Known_values(values), ValuesBefore(values, order))

Upto(n, size, p) == Min({p * size, n})

IsColumn(values) == values \in Seq(Int \cup {Null})

LEMMA ColumnIs ==
  ASSUME NEW values, IsColumn(values)
  PROVE  /\ Len(values) \in Nat /\ DOMAIN values = 1..Len(values) /\ IsFiniteSet(DOMAIN values)
         /\ Cardinality(DOMAIN values) = Len(values)
         /\ IsFiniteSet(Known_values(values)) /\ Known_values(values) \in SUBSET Int
         /\ Cardinality(Known_values(values)) \in Nat /\ Cardinality(Known_values(values)) <= Len(values)
         /\ \A v : Count(values, v) \in Nat
<1>1. Len(values) \in Nat /\ DOMAIN values = 1..Len(values) /\ \A i \in DOMAIN values : values[i] \in Int \cup {Null}
  BY DEF IsColumn
<1>2. IsFiniteSet(1..Len(values)) /\ Cardinality(1..Len(values)) = Len(values)
  BY <1>1, FS_Interval
<1> DEFINE at == {i \in DOMAIN values : values[i] # Null}
<1>3. Known_values(values) = {values[i] : i \in at}
  BY DEF Known_values, Range
<1>4. IsFiniteSet(at) /\ Cardinality(at) <= Len(values) /\ Cardinality(at) \in Nat
  BY <1>1, <1>2, FS_Subset, FS_CardinalityType
<1>5. IsFiniteSet({values[i] : i \in at}) /\ Cardinality({values[i] : i \in at}) <= Cardinality(at)
  <2> DEFINE T == {values[i] : i \in at}
             f == [i \in at |-> values[i]]
  <2>1. f \in Surjection(at, T)
    BY DEF Surjection
  <2> HIDE DEF f, T, at
  <2>2. IsFiniteSet(T) /\ Cardinality(T) <= Cardinality(at)
    BY <1>4, <2>1, FS_Surjection
  <2> QED BY <2>2 DEF T
<1>6. Cardinality({values[i] : i \in at}) \in Nat
  BY <1>5, FS_CardinalityType
<1>7. {values[i] : i \in at} \in SUBSET Int
  BY <1>1
<1>8. ASSUME NEW v PROVE Count(values, v) \in Nat
  <2>1. IsFiniteSet({i \in DOMAIN values : values[i] = v})
    BY <1>1, <1>2, FS_Subset
  <2> QED BY <2>1, FS_CardinalityType DEF Count
<1> HIDE DEF at
<1> QED BY <1>1, <1>2, <1>3, <1>4, <1>5, <1>6, <1>7, <1>8

LEMMA ValuesAreOrdered ==
  ASSUME NEW values, IsColumn(values), NEW order
  PROVE  IsOrder(Known_values(values), ValuesBefore(values, order))
<1> DEFINE known == Known_values(values)
           num == [v \in known |-> Count(values, v)]
<1>1. known \in SUBSET Int /\ \A v \in known : num[v] \in Nat /\ num[v] = Count(values, v)
  BY ColumnIs
<1>2. \A v, w \in known : <<v, w>> \in ValuesBefore(values, order)
        <=> IF num[v] = num[w] THEN v < w ELSE IF order = "descendent" THEN num[v] > num[w] ELSE num[v] < num[w]
  BY DEF ValuesBefore
<1> HIDE DEF known, num
<1>3. \A v \in known : <<v, v>> \notin ValuesBefore(values, order)
  BY <1>1, <1>2
<1>4. ASSUME NEW x \in known, NEW y \in known, NEW z \in known,
             <<x, y>> \in ValuesBefore(values, order), <<y, z>> \in ValuesBefore(values, order)
      PROVE  <<x, z>> \in ValuesBefore(values, order)
  <2>1. x \in Int /\ y \in Int /\ z \in Int /\ num[x] \in Nat /\ num[y] \in Nat /\ num[z] \in Nat
    BY <1>1
  <2>2. CASE order = "descendent"
    BY <1>2, <1>4, <2>1, <2>2
  <2>3. CASE order # "descendent"
    BY <1>2, <1>4, <2>1, <2>3
  <2> QED BY <2>2, <2>3
<1> QED BY <1>3, <1>4 DEF IsOrder, known

LEMMA LengthOfFunction ==
  ASSUME NEW n \in Nat, NEW S, NEW s \in [1..n -> S]
  PROVE  s \in Seq(S) /\ Len(s) = n /\ DOMAIN s = 1..n
OBVIOUS

LEMMA UptoIs ==
  ASSUME NEW n \in Nat, NEW size \in Nat \ {0}, NEW p \in Nat
  PROVE  /\ Upto(n, size, p) \in Nat /\ Upto(n, size, p) <= n /\ Upto(n, size, p) <= p * size
         /\ p * size \in Nat
         /\ Upto(n, size, p) = IF p * size <= n THEN p * size ELSE n
<1>1. p * size \in Nat
  OBVIOUS
<1>2. PICK a : a = p * size
  OBVIOUS
<1>3. Min({a, n}) = IF a <= n THEN a ELSE n
  BY <1>1, <1>2, LesserOfTwo
<1> QED BY <1>1, <1>2, <1>3 DEF Upto

LEMMA UptoGrows ==
  ASSUME NEW n \in Nat, NEW size \in Nat \ {0}, NEW p \in Nat \ {0}
  PROVE  /\ Upto(n, size, p - 1) <= Upto(n, size, p)
         /\ Min({(p - 1) * size, Upto(n, size, p)}) = Upto(n, size, p - 1)
         /\ (p - 1) * size # Upto(n, size, p - 1) => Upto(n, size, p) = Upto(n, size, p - 1)
<1>1. p - 1 \in Nat /\ p \in Nat
  OBVIOUS
<1>2. p * size = (p - 1) * size + size
  BY <1>1
<1>3. PICK a : a = (p - 1) * size
  OBVIOUS
<1>4. PICK b : b = p * size
  OBVIOUS
<1>5. a \in Nat /\ b \in Nat /\ b = a + size
  BY <1>1, <1>2, <1>3, <1>4
<1>6. PICK u : u = Upto(n, size, p - 1)
  OBVIOUS
<1>7. PICK v : v = Upto(n, size, p)
  OBVIOUS
<1>8. u = (IF a <= n THEN a ELSE n) /\ v = (IF b <= n THEN b ELSE n) /\ u \in Nat /\ v \in Nat
  BY <1>1, <1>3, <1>4, <1>6, <1>7, UptoIs
<1>9. u <= v /\ (a # u => v = u)
  BY ONLY <1>5, <1>8, n \in Nat, size \in Nat \ {0}
<1>10. Min({a, v}) = IF a <= v THEN a ELSE v
  BY <1>5, <1>8, LesserOfTwo
<1>11. Min({a, v}) = u
  BY ONLY <1>5, <1>8, <1>10, n \in Nat, size \in Nat \ {0}
<1> QED BY ONLY <1>3, <1>6, <1>7, <1>9, <1>11

(* The values of a column with their counts, in the order they are listed. *)
CountedValues(values, order) ==
  [i \in 1..Cardinality(Known_values(values)) |->
     <<ListedValues(values, order)[i], Count(values, ListedValues(values, order)[i])>>]

LEMMA ListedIs ==
  ASSUME NEW values, IsColumn(values), NEW order
  PROVE  /\ IsInOrder(Known_values(values), ValuesBefore(values, order), ListedValues(values, order))
         /\ {ListedValues(values, order)[i] : i \in 1..Cardinality(Known_values(values))} = Known_values(values)
         /\ Len(ListedValues(values, order)) = Cardinality(Known_values(values))
<1>1. IsFiniteSet(Known_values(values)) /\ Cardinality(Known_values(values)) \in Nat
  BY ColumnIs
<1>2. /\ IsInOrder(Known_values(values), ValuesBefore(values, order), ListedValues(values, order))
      /\ {ListedValues(values, order)[i] : i \in 1..Cardinality(Known_values(values))} = Known_values(values)
  BY <1>1, ValuesAreOrdered, InOrderIs DEF ListedValues
<1>3. ListedValues(values, order) \in [1..Cardinality(Known_values(values)) -> Known_values(values)]
  BY <1>2 DEF IsInOrder
<1> QED BY <1>1, <1>2, <1>3, LengthOfFunction

PageOf(c, n, size, p) ==
  [i \in 1..(Upto(n, size, p) - Upto(n, size, p - 1)) |-> c[Upto(n, size, p - 1) + i]]

LEMMA PageIs ==
  ASSUME NEW values, IsColumn(values), NEW order, NEW size \in Nat \ {0}, NEW p \in Nat \ {0},
         NEW n, n = Cardinality(Known_values(values))
  PROVE  /\ get_unique_values(values, order, size, p).items = PageOf(CountedValues(values, order), n, size, p)
         /\ get_unique_values(values, order, size, p).total = n
<1> DEFINE sorted == ListedValues(values, order)
           last == Min({p * size, Len(sorted)})
           before == Min({(p - 1) * size, last})
<1>1. get_unique_values(values, order, size, p)
        = [items |-> [i \in 1..(last - before) |->
                        LET v == sorted[(p - 1) * size + i] IN <<v, Count(values, v)>>],
           total |-> Len(sorted)]
  BY Zenon DEF get_unique_values, ListedValues, ValuesBefore
<1>2. Len(sorted) = n /\ n \in Nat
  BY ListedIs, ColumnIs
<1>3. last = Upto(n, size, p)
  BY <1>2, Zenon DEF Upto
<1>4. PICK u : u = Upto(n, size, p - 1)
  OBVIOUS
<1>5. PICK v : v = Upto(n, size, p)
  OBVIOUS
<1>6. before = u
  BY <1>2, <1>3, <1>4, UptoGrows
<1>7. PICK a : a = (p - 1) * size
  OBVIOUS
<1>8. u \in Nat /\ v \in Nat /\ v <= n /\ u <= v /\ (a # u => v = u)
  <2>1. p - 1 \in Nat /\ p \in Nat
    OBVIOUS
  <2>2. Upto(n, size, p - 1) \in Nat /\ Upto(n, size, p) \in Nat /\ Upto(n, size, p) <= n
    <3> HIDE DEF last, before, sorted
    <3> QED BY <1>2, <2>1, UptoIs
  <2>3. /\ Upto(n, size, p - 1) <= Upto(n, size, p)
        /\ (p - 1) * size # Upto(n, size, p - 1) => Upto(n, size, p) = Upto(n, size, p - 1)
    <3> HIDE DEF last, before, sorted
    <3> QED BY <1>2, UptoGrows
  <2> QED BY ONLY <1>4, <1>5, <1>7, <2>2, <2>3
<1> DEFINE page == [i \in 1..(v - u) |-> <<sorted[a + i], Count(values, sorted[a + i])>>]
<1>9. get_unique_values(values, order, size, p) = [items |-> page, total |-> n]
  <2>1. last = v
    BY ONLY <1>3, <1>5
  <2> HIDE DEF last, before, sorted
  <2> QED BY ONLY <1>1, <1>2, <1>6, <1>7, <2>1, Zenon
<1>10. page = [i \in 1..(v - u) |-> CountedValues(values, order)[u + i]]
  <2>1. ASSUME NEW i \in 1..(v - u)
        PROVE  <<sorted[a + i], Count(values, sorted[a + i])>> = CountedValues(values, order)[u + i]
    <3>1. a = u /\ u + i \in 1..n
      BY ONLY <1>2, <1>8, <2>1
    <3>2. CountedValues(values, order)[u + i] = <<sorted[u + i], Count(values, sorted[u + i])>>
      BY <3>1 DEF CountedValues
    <3> QED BY ONLY <3>1, <3>2
  <2> HIDE DEF sorted
  <2> QED BY <2>1
<1>11. get_unique_values(values, order, size, p).items = page /\ get_unique_values(values, order, size, p).total = n
  <2> HIDE DEF page
  <2> QED BY <1>9
<1> HIDE DEF page
<1> QED BY ONLY <1>4, <1>5, <1>10, <1>11, Zenon DEF PageOf

(* All pages, one after the other.                                         *)
LEMMA PagesAre ==
  ASSUME NEW values, IsColumn(values), NEW order, NEW size \in Nat \ {0}, NEW seqs,
         seqs = [p \in 1..(Len(values) + 1) |-> get_unique_values(values, order, size, p).items]
  PROVE  FlattenSeq(seqs) = CountedValues(values, order)
<1>1. PICK m : m = Len(values) + 1 /\ m \in Nat \ {0} /\ Len(values) \in Nat
  BY ColumnIs
<1>2. PICK n : n = Cardinality(Known_values(values)) /\ n \in Nat /\ n <= Len(values)
  BY ColumnIs
<1>3. PICK c : c = CountedValues(values, order)
  OBVIOUS
<1>4. \A p \in 1..m : seqs[p] = [i \in 1..(Upto(n, size, p) - Upto(n, size, p - 1)) |-> c[Upto(n, size, p - 1) + i]]
  <2> TAKE p \in 1..m
  <2>1. seqs[p] = get_unique_values(values, order, size, p).items
    BY ONLY <1>1, seqs = [p_1 \in 1..(Len(values) + 1) |-> get_unique_values(values, order, size, p_1).items], p \in 1..m
  <2>2. p \in Nat \ {0}
    BY <1>1
  <2>3. get_unique_values(values, order, size, p).items = PageOf(CountedValues(values, order), n, size, p)
    BY <1>2, <2>2, PageIs
  <2> QED BY ONLY <1>3, <2>1, <2>3, Zenon DEF PageOf
<1>5. Len(seqs) = m
  BY <1>1
<1>6. PICK f : Flattening(seqs, m, f) /\ FlattenSeq(seqs) = f[m]
  BY <1>1, <1>5, FlattenIs
<1>7. \A p \in 1..m : f[p] = IF p = 1 THEN seqs[p] ELSE f[p - 1] \o seqs[p]
  BY <1>6, Zenon DEF Flattening
<1> DEFINE upto(p) == [i \in 1..Upto(n, size, p) |-> c[i]]
           Bad == {p \in 1..m : f[p] # upto(p)}
<1>8. Bad = {}
  <2>1. SUFFICES ASSUME Bad # {} PROVE FALSE
    OBVIOUS
  <2>2. PICK p \in Bad : \A q \in Bad : p <= q
    <3>1. Bad \in SUBSET Nat
      BY <1>1
    <3> HIDE DEF Bad
    <3> QED BY <2>1, <3>1, LeastExists
  <2>3. p \in 1..m /\ p \in Nat \ {0} /\ f[p] # upto(p)
    BY <1>1, <2>2
  <2>4. PICK u : u = Upto(n, size, p - 1)
    OBVIOUS
  <2>5. PICK v : v = Upto(n, size, p)
    OBVIOUS
  <2>6. p - 1 \in Nat /\ p \in Nat
    BY ONLY <2>3
  <2>7. u \in Nat /\ v \in Nat /\ u <= v
    BY <1>2, <2>3, <2>4, <2>5, <2>6, UptoIs, UptoGrows
  <2>8. seqs[p] = [i \in 1..(v - u) |-> c[u + i]]
    BY ONLY <1>4, <2>3, <2>4, <2>5, Zenon
  <2>9. CASE p = 1
    <3>1. u = 0
      <4>1. 0 \in Nat /\ p - 1 = 0 /\ 0 * size = 0
        BY ONLY <2>9, size \in Nat \ {0}
      <4>2. Upto(n, size, 0) <= 0 * size /\ Upto(n, size, 0) \in Nat
        BY <1>2, <4>1, UptoIs
      <4>3. u = Upto(n, size, 0)
        BY ONLY <2>4, <4>1
      <4> QED BY ONLY <4>1, <4>2, <4>3
    <3>2. f[p] = seqs[p]
      BY ONLY <1>7, <2>3, <2>9
    <3>3. v - u = v /\ \A i \in 1..v : u + i = i
      BY ONLY <2>7, <3>1
    <3>4. seqs[p] = [i \in 1..v |-> c[i]]
      BY ONLY <2>8, <3>3
    <3> QED BY ONLY <2>3, <2>5, <3>2, <3>4 DEF upto
  <2>10. CASE p # 1
    <3>1. p - 1 \in 1..m /\ p - 1 < p /\ p - 1 \in Nat
      BY ONLY <1>1, <2>3, <2>10
    <3>2. f[p - 1] = upto(p - 1)
      <4>1. p - 1 \notin Bad
        <5> HIDE DEF Bad
        <5>1. p \in Nat
          BY ONLY <2>3
        <5> QED BY <2>2, <3>1, <5>1
      <4> QED BY ONLY <3>1, <4>1
    <3>3. f[p - 1] = [i \in 1..u |-> c[i]]
      BY ONLY <2>4, <3>2
    <3>4. f[p] = f[p - 1] \o seqs[p]
      BY ONLY <1>7, <2>3, <2>10
    <3>5. [i \in 1..u |-> c[i]] \o [i \in 1..(v - u) |-> c[u + i]] = [i \in 1..v |-> c[i]]
      BY <2>7, JoinedParts
    <3>6. f[p] = [i \in 1..v |-> c[i]]
      BY ONLY <2>8, <3>3, <3>4, <3>5, Zenon
    <3> QED BY ONLY <2>3, <2>5, <3>6 DEF upto
  <2> QED BY <2>9, <2>10
<1>9. f[m] = upto(m)
  <2>1. m \in 1..m
    BY <1>1
  <2> QED BY ONLY <1>8, <2>1
<1>10. Upto(n, size, m) = n
  <2>1. PICK k : k = m * size
    OBVIOUS
  <2>2. m <= k /\ k \in Nat
    <3>1. m \in Nat /\ size \in Nat /\ 1 <= size
      BY <1>1
    <3>2. m * 1 <= m * size /\ m * size \in Nat
      BY ONLY <3>1, SMT
    <3> QED BY ONLY <2>1, <3>1, <3>2
  <2>3. Upto(n, size, m) = IF k <= n THEN k ELSE n
    BY <1>1, <1>2, <2>1, UptoIs
  <2> QED BY ONLY <1>1, <1>2, <2>2, <2>3
<1>11. c = [i \in 1..n |-> c[i]]
  BY ONLY <1>2, <1>3 DEF CountedValues
<1> QED BY ONLY <1>3, <1>6, <1>9, <1>10, <1>11

LEMMA LeastOfNumbers ==
  ASSUME NEW S \in SUBSET Int, IsFiniteSet(S), S # {}
  PROVE  Min(S) \in S /\ \A y \in S : Min(S) <= y
<1>1. \E x \in S : \A y \in S : x <= y
  BY GreatestExists
<1> QED BY <1>1 DEF Min

(* A statistic of numbers is a number.                                     *)
LEMMA StatisticIsNumber ==
  ASSUME NEW S, IsFiniteSet(S), S # {}, \A x \in S : x[2].value \in Int, NEW op
  PROVE  get_statistics_sql(op, S) \in Int
<1> DEFINE vs == {x[2].value : x \in S}
           g == [x \in S |-> x[2].value]
<1>1. IsFiniteSet(vs) /\ vs # {} /\ vs \in SUBSET Int
  <2>1. vs = {g[x] : x \in S}
    OBVIOUS
  <2>2. IsFiniteSet({g[x] : x \in S})
    <3> HIDE DEF g
    <3> QED BY ImageIsFinite
  <2>3. IsFiniteSet(vs)
    BY <2>1, <2>2
  <2> QED BY <2>3
<1>2. Cardinality(S) \in Int
  BY FS_CardinalityType
<1>3. Valuing(S) \in Int
  <2>1. Valuing(S) = SumOver(g, S)
    BY ValuingIsSum
  <2>2. \A x \in S : g[x] \in Int
    OBVIOUS
  <2> HIDE DEF g
  <2> QED BY <2>1, <2>2, SumIsNumber
<1>4. Min(vs) \in Int /\ Max(vs) \in Int
  <2> HIDE DEF vs
  <2> QED BY <1>1, LeastOfNumbers, GreatestIs
<1>5. get_statistics_sql(op, S) = IF op = "count" THEN Cardinality(S) ELSE IF op = "sum" THEN Valuing(S)
                                  ELSE IF op = "min" THEN Min(vs) ELSE Max(vs)
  BY Zenon DEF get_statistics_sql, Valuing
<1> HIDE DEF vs
<1> QED BY <1>2, <1>3, <1>4, <1>5

(* What SQL makes of values with NULLs: the statistic of those known.      *)
AreNumbers(pairs) == IsFiniteSet(pairs) /\ \A p \in pairs : p[2] \in Int \cup {Null}

PairValued(p) == <<p[1], [value |-> p[2]]>>

LEMMA StatIs ==
  ASSUME NEW pairs, AreNumbers(pairs), NEW op
  PROVE  Stat(op, pairs) \in Int \cup {Null}
<1> DEFINE known == {p \in pairs : p[2] # Null}
           f == [p \in known |-> PairValued(p)]
<1>1. IsFiniteSet(known) /\ \A p \in known : p[2] \in Int
  BY FS_Subset DEF AreNumbers
<1>2. CASE known = {}
  BY <1>2 DEF Stat
<1>3. CASE known # {}
  <2>1. Stat(op, pairs) = get_statistics_sql(op, {PairValued(p) : p \in known})
    BY <1>3, Zenon DEF Stat, PairValued
  <2>2. {PairValued(p) : p \in known} = {f[p] : p \in known}
    OBVIOUS
  <2>3. IsFiniteSet({f[p] : p \in known})
    <3> HIDE DEF f, known
    <3> QED BY <1>1, ImageIsFinite
  <2>4. \A x \in {PairValued(p) : p \in known} : x[2].value \in Int
    BY <1>1 DEF PairValued
  <2>5. {PairValued(p) : p \in known} # {}
    BY <1>3
  <2> HIDE DEF f, known
  <2>6. PICK S : S = {PairValued(p) : p \in known}
    OBVIOUS
  <2> QED BY <2>1, <2>2, <2>3, <2>4, <2>5, <2>6, StatisticIsNumber
<1> QED BY <1>2, <1>3

(* get_statistic_aggregation.                                              *)
GroupStat(column, op, g) ==
  Stat(op, {<<i, column[i][2]>> : i \in {k \in DOMAIN column : column[k][1] = g}})

GroupNames(column) == {column[i][1] : i \in DOMAIN column}

GroupResults(column, op) == {[group |-> g, value |-> GroupStat(column, op, g)] : g \in GroupNames(column)}

Greater(v, w) == w # Null /\ (v = Null \/ v > w)

GroupBefore(a, b, order) ==
  IF order = "descendent" THEN Greater(a.value, b.value) ELSE Greater(b.value, a.value)

GroupsBefore(column, op, order) ==
  {x \in GroupResults(column, op) \X GroupResults(column, op) : GroupBefore(x[1], x[2], order)}

RankedGroups(column, op, order) == InOrder(GroupResults(column, op), GroupsBefore(column, op, order))

AreGroups(column, m) ==
  /\ m \in Nat /\ DOMAIN column = 1..m
  /\ \A i \in 1..m : column[i][2] \in Int \cup {Null}

LEMMA GroupResultsAre ==
  ASSUME NEW column, NEW m, AreGroups(column, m), NEW op
  PROVE  /\ IsFiniteSet(GroupResults(column, op))
         /\ Cardinality(GroupResults(column, op)) = Cardinality(GroupNames(column))
         /\ Cardinality(GroupResults(column, op)) \in Nat
         /\ Cardinality(GroupResults(column, op)) <= m
         /\ \A a \in GroupResults(column, op) : a.value \in Int \cup {Null}
<1> DEFINE names == GroupNames(column)
           f == [g \in names |-> [group |-> g, value |-> GroupStat(column, op, g)]]
           name == [i \in 1..m |-> column[i][1]]
<1>1. IsFiniteSet(1..m) /\ Cardinality(1..m) = m /\ m \in Nat
  BY FS_Interval DEF AreGroups
<1>2. IsFiniteSet(names) /\ Cardinality(names) <= m
  <2>1. name \in Surjection(1..m, names)
    BY DEF Surjection, AreGroups, GroupNames
  <2> HIDE DEF name, names
  <2> QED BY <1>1, <2>1, FS_Surjection
<1>3. GroupResults(column, op) = {f[g] : g \in names}
  BY DEF GroupResults
<1>4. \A g, h \in names : f[g] = f[h] => g = h
  <2>1. \A g \in names : f[g].group = g
    OBVIOUS
  <2> HIDE DEF f, names
  <2> QED BY <2>1
<1>5. IsFiniteSet({f[g] : g \in names}) /\ Cardinality({f[g] : g \in names}) = Cardinality(names)
  <2> HIDE DEF f, names
  <2> QED BY <1>2, <1>4, AsMany
<1>6. ASSUME NEW g PROVE GroupStat(column, op, g) \in Int \cup {Null}
  <2> DEFINE at == {k \in DOMAIN column : column[k][1] = g}
             of == [i \in at |-> <<i, column[i][2]>>]
             pairs == {<<i, column[i][2]>> : i \in at}
  <2>1. IsFiniteSet(at) /\ at \in SUBSET (1..m)
    <3>1. at \in SUBSET (1..m)
      BY DEF AreGroups
    <3> QED BY <1>1, <3>1, FS_Subset
  <2>2. pairs = {of[i] : i \in at}
    OBVIOUS
  <2>3. IsFiniteSet({of[i] : i \in at})
    <3> HIDE DEF of, at
    <3> QED BY <2>1, ImageIsFinite
  <2>4. \A p \in pairs : p[2] \in Int \cup {Null}
    BY DEF AreGroups
  <2>5. AreNumbers(pairs)
    <3> HIDE DEF of, at
    <3> QED BY <2>2, <2>3, <2>4 DEF AreNumbers
  <2> QED BY <2>5, StatIs DEF GroupStat
<1>7. \A a \in GroupResults(column, op) : a.value \in Int \cup {Null}
  BY <1>6 DEF GroupResults
<1>8. Cardinality(names) \in Nat
  BY <1>2, FS_CardinalityType
<1> HIDE DEF f
<1> QED BY <1>2, <1>3, <1>5, <1>7, <1>8

LEMMA GroupsAreOrdered ==
  ASSUME NEW column, NEW m, AreGroups(column, m), NEW op, NEW order
  PROVE  IsOrder(GroupResults(column, op), GroupsBefore(column, op, order))
<1>1. PICK R : R = GroupResults(column, op)
  OBVIOUS
<1>2. \A a \in R : a.value \in Int \cup {Null}
  BY <1>1, GroupResultsAre
<1>3. \A a, b \in R : <<a, b>> \in GroupsBefore(column, op, order) <=> GroupBefore(a, b, order)
  BY <1>1 DEF GroupsBefore
<1>4. ASSUME NEW a \in R PROVE ~GroupBefore(a, a, order)
  BY <1>2 DEF GroupBefore, Greater
<1>5. ASSUME NEW a \in R, NEW b \in R, NEW c \in R, GroupBefore(a, b, order), GroupBefore(b, c, order)
      PROVE  GroupBefore(a, c, order)
  <2>1. PICK x, y, z : x = a.value /\ y = b.value /\ z = c.value
    OBVIOUS
  <2>2. x \in Int \cup {Null} /\ y \in Int \cup {Null} /\ z \in Int \cup {Null}
    BY <1>2, <2>1
  <2>3. \A u, v, w \in Int \cup {Null} : Greater(u, v) /\ Greater(v, w) => Greater(u, w)
    BY DEF Greater
  <2> QED BY ONLY <1>5, <2>1, <2>2, <2>3 DEF GroupBefore
<1> QED BY <1>1, <1>3, <1>4, <1>5 DEF IsOrder

LEMMA RankedGroupsAre ==
  ASSUME NEW column, NEW m, AreGroups(column, m), NEW op, NEW order, NEW n, n = Cardinality(GroupResults(column, op))
  PROVE  /\ IsInOrder(GroupResults(column, op), GroupsBefore(column, op, order), RankedGroups(column, op, order))
         /\ {RankedGroups(column, op, order)[i] : i \in 1..n} = GroupResults(column, op)
         /\ Len(RankedGroups(column, op, order)) = n
         /\ RankedGroups(column, op, order) \in Seq(GroupResults(column, op))
<1>1. IsFiniteSet(GroupResults(column, op)) /\ n \in Nat
  BY GroupResultsAre
<1>2. /\ IsInOrder(GroupResults(column, op), GroupsBefore(column, op, order), RankedGroups(column, op, order))
      /\ {RankedGroups(column, op, order)[i] : i \in 1..n} = GroupResults(column, op)
  BY <1>1, GroupsAreOrdered, InOrderIs DEF RankedGroups
<1>3. RankedGroups(column, op, order) \in [1..n -> GroupResults(column, op)]
  BY <1>2 DEF IsInOrder
<1> QED BY <1>1, <1>2, <1>3, LengthOfFunction

LEMMA FirstElements ==
  ASSUME NEW S, NEW s, NEW k \in Nat, \A i \in 1..k : s[i] \in S
  PROVE  /\ SubSeq(s, 1, k) \in Seq(S) /\ Len(SubSeq(s, 1, k)) = k
         /\ \A i \in 1..k : SubSeq(s, 1, k)[i] = s[i]
BY SubSeqProperties

LEMMA RankedListIs ==
  ASSUME NEW column, NEW m, AreGroups(column, m), NEW op, NEW order, NEW size \in Nat,
         NEW n, n = Cardinality(GroupResults(column, op)), NEW k, k = Min({size, n})
  PROVE  /\ get_statistic_aggregation(column, op, order, size).total = n
         /\ Range(get_statistic_aggregation(column, op, order, size).items)
              = {RankedGroups(column, op, order)[i] : i \in 1..k}
         /\ k \in Nat /\ k <= n /\ (n <= size => k = n)
<1>1. PICK sorted : sorted = RankedGroups(column, op, order)
  OBVIOUS
<1>2. get_statistic_aggregation(column, op, order, size)
        = [items |-> SubSeq(sorted, 1, Min({size, Len(sorted)})), total |-> Len(sorted)]
  BY <1>1, Zenon DEF get_statistic_aggregation, RankedGroups, GroupsBefore, GroupBefore, Greater,
       GroupResults, GroupNames, GroupStat
<1>3. Len(sorted) = n /\ sorted \in Seq(GroupResults(column, op)) /\ n \in Nat
  BY <1>1, RankedGroupsAre, GroupResultsAre
<1>4. k \in Nat /\ k <= n /\ (n <= size => k = n)
  <2>1. k = IF size <= n THEN size ELSE n
    BY <1>3, LesserOfTwo
  <2> QED BY <1>3, <2>1
<1>5. PICK top : top = SubSeq(sorted, 1, k)
  OBVIOUS
<1>6. Len(top) = k /\ DOMAIN top = 1..k /\ \A i \in 1..k : top[i] = sorted[i]
  <2>1. PICK S : S = GroupResults(column, op)
    OBVIOUS
  <2>2. 1 \in Int /\ k \in Int /\ \A i \in 1..k : sorted[i] \in S
    BY ONLY <1>3, <1>4, <2>1
  <2>3. /\ SubSeq(sorted, 1, k) \in Seq(S) /\ Len(SubSeq(sorted, 1, k)) = k
        /\ \A i \in 1..k : SubSeq(sorted, 1, k)[i] = sorted[i]
    BY ONLY <1>4, <2>2, FirstElements
  <2>4. top \in Seq(S) /\ Len(top) = k /\ \A i \in 1..k : top[i] = sorted[i]
    BY ONLY <1>5, <2>3
  <2> QED BY ONLY <2>4
<1>7. Range(top) = {sorted[i] : i \in 1..k}
  BY <1>6 DEF Range
<1>8. get_statistic_aggregation(column, op, order, size) = [items |-> top, total |-> n]
  BY ONLY <1>2, <1>3, <1>5, k = Min({size, n}), Zenon
<1> QED BY ONLY <1>1, <1>4, <1>7, <1>8

(* Values and groups are listed by rank, whatever the column.              *)
THEOREM AnyValuesAreRanked ==
  ASSUME NEW values, IsColumn(values), NEW groups, DOMAIN groups = DOMAIN values,
         NEW op, NEW order, NEW size \in Nat \ {0}
  PROVE  ValuesAreRanked(values, groups, op, order, size)
<1> DEFINE pages == [p \in 1..(Len(values) + 1) |-> get_unique_values(values, order, size, p)]
           parts == [p \in 1..(Len(values) + 1) |-> get_unique_values(values, order, size, p).items]
           items == FlattenSeq([p \in DOMAIN pages |-> pages[p].items])
           column == [i \in DOMAIN values |-> <<groups[i], values[i]>>]
           top == get_statistic_aggregation(column, op, order, size)
           all == get_statistic_aggregation(column, op, order, Len(values) + 1)
           worth(a, b) == IF order = "descendent" THEN a >= b ELSE a <= b
           known == Known_values(values)
<1>1. PICK n : n = Cardinality(known) /\ n \in Nat /\ Len(values) \in Nat
  BY ColumnIs
<1>2. PICK s : s = ListedValues(values, order)
  OBVIOUS
<1>3. PICK c : c = CountedValues(values, order)
  OBVIOUS
<1>4. items = c
  <2>1. [p \in DOMAIN pages |-> pages[p].items] = parts
    OBVIOUS
  <2>2. FlattenSeq(parts) = CountedValues(values, order)
    BY PagesAre
  <2> HIDE DEF pages, parts
  <2> QED BY ONLY <1>3, <2>1, <2>2
<1>5. c = [i \in 1..n |-> <<s[i], Count(values, s[i])>>]
  BY ONLY <1>1, <1>2, <1>3, Zenon DEF CountedValues
<1>6. IsInOrder(known, ValuesBefore(values, order), s) /\ {s[i] : i \in 1..n} = known
  BY ONLY <1>1, <1>2, ListedIs, IsColumn(values)
<1>7. Len(c) = n /\ DOMAIN c = 1..n
  BY <1>1, <1>5
<1>8. Range(c) = {<<v, Count(values, v)>> : v \in known}
  <2>1. Range(c) = {c[i] : i \in 1..n}
    BY ONLY <1>7 DEF Range
  <2>2. \A i \in 1..n : c[i] = <<s[i], Count(values, s[i])>>
    BY ONLY <1>5
  <2> HIDE DEF known
  <2> QED BY ONLY <1>6, <2>1, <2>2
<1>9. ASSUME NEW i \in 1..n, NEW j \in 1..n, i < j PROVE worth(c[i][2], c[j][2])
  <2>1. c[i][2] = Count(values, s[i]) /\ c[j][2] = Count(values, s[j])
    BY ONLY <1>5, <1>9
  <2>2. s[i] \in known /\ s[j] \in known /\ <<s[j], s[i]>> \notin ValuesBefore(values, order)
    <3> HIDE DEF known
    <3> QED BY ONLY <1>1, <1>6, <1>9, i \in 1..n, j \in 1..n DEF IsInOrder
  <2>3. PICK a : a = Count(values, s[i])
    OBVIOUS
  <2>4. PICK b : b = Count(values, s[j])
    OBVIOUS
  <2>5. a \in Nat /\ b \in Nat
    BY <2>3, <2>4, ColumnIs
  <2>6. ~(IF b = a THEN s[j] < s[i] ELSE IF order = "descendent" THEN b > a ELSE b < a)
    BY <2>2, <2>3, <2>4 DEF ValuesBefore
  <2>7. IF order = "descendent" THEN a >= b ELSE a <= b
    BY ONLY <2>5, <2>6
  <2> QED BY ONLY <2>1, <2>3, <2>4, <2>7
<1>10. pages[1].total = n
  <2>1. PICK one : one = 1 /\ one \in Nat \ {0}
    OBVIOUS
  <2>2. one \in 1..(Len(values) + 1)
    BY <1>1, <2>1
  <2>3. pages[one] = get_unique_values(values, order, size, one)
    BY <2>2
  <2>4. get_unique_values(values, order, size, one).total = n
    <3>1. n = Cardinality(Known_values(values))
      BY <1>1
    <3> HIDE DEF pages, parts, items, column, top, all, known
    <3> QED BY ONLY IsColumn(values), size \in Nat \ {0}, <2>1, <3>1, PageIs
  <2> HIDE DEF pages
  <2> QED BY ONLY <2>1, <2>3, <2>4
<1>11. PICK m : m = Len(values) /\ m \in Nat /\ DOMAIN values = 1..m
  BY ColumnIs
<1>12. AreGroups(column, m) /\ \A i \in 1..m : column[i] = <<groups[i], values[i]>>
  BY <1>11 DEF AreGroups, IsColumn
<1>13. PICK N : N = Cardinality(GroupResults(column, op)) /\ N \in Nat /\ N <= m
  <2> HIDE DEF column
  <2> QED BY <1>12, GroupResultsAre
<1>14. N = Cardinality(Range(groups))
  <2>1. GroupNames(column) = Range(groups)
    <3>1. Range(groups) = {groups[i] : i \in 1..m}
      BY <1>11 DEF Range
    <3>2. DOMAIN column = 1..m
      BY <1>11
    <3> HIDE DEF column
    <3> QED BY <1>12, <3>1, <3>2 DEF GroupNames
  <2> HIDE DEF column
  <2> QED BY <1>12, <1>13, <2>1, GroupResultsAre
<1>15. PICK k : k = Min({size, N})
  OBVIOUS
<1>16. PICK r : r = RankedGroups(column, op, order)
  OBVIOUS
<1>17. top.total = N /\ Range(top.items) = {r[i] : i \in 1..k} /\ k \in Nat /\ k <= N
  <2> HIDE DEF column
  <2> QED BY ONLY <1>12, <1>13, <1>15, <1>16, size \in Nat \ {0}, RankedListIs
<1>18. Range(all.items) = {r[i] : i \in 1..N}
  <2>1. PICK more : more = Len(values) + 1
    OBVIOUS
  <2>2. more \in Nat /\ N <= more
    BY ONLY <1>11, <1>13, <2>1
  <2>3. PICK l : l = Min({more, N})
    OBVIOUS
  <2> HIDE DEF column
  <2>4. Range(get_statistic_aggregation(column, op, order, more).items) = {r[i] : i \in 1..l} /\ l = N
    BY ONLY <1>12, <1>13, <1>16, <2>2, <2>3, RankedListIs
  <2> QED BY ONLY <2>1, <2>4
<1>19. /\ IsInOrder(GroupResults(column, op), GroupsBefore(column, op, order), r)
       /\ {r[i] : i \in 1..N} = GroupResults(column, op)
       /\ \A a \in GroupResults(column, op) : a.value \in Int \cup {Null}
  <2> HIDE DEF column
  <2> QED BY ONLY <1>12, <1>13, <1>16, RankedGroupsAre, GroupResultsAre
<1>20. ASSUME NEW a \in Range(top.items), NEW b \in Range(all.items) \ Range(top.items), a.value # Null, b.value # Null
       PROVE  worth(a.value, b.value)
  <2> HIDE DEF top, all, column
  <2>1. PICK i \in 1..k : a = r[i]
    BY <1>17
  <2>2. PICK j \in 1..N : b = r[j]
    BY <1>18
  <2>3. i < j /\ i \in 1..N
    <3>1. j \notin 1..k
      BY <1>17, <1>20, <2>2
    <3> QED BY ONLY <1>13, <1>17, <3>1, i \in 1..k, j \in 1..N
  <2>4. <<b, a>> \notin GroupsBefore(column, op, order)
    BY ONLY <1>13, <1>19, <2>1, <2>2, <2>3 DEF IsInOrder
  <2>5. a \in GroupResults(column, op) /\ b \in GroupResults(column, op)
    BY ONLY <1>19, <2>1, <2>2, <2>3
  <2>6. ~GroupBefore(b, a, order)
    BY ONLY <2>4, <2>5 DEF GroupsBefore
  <2>7. PICK x : x = a.value
    OBVIOUS
  <2>8. PICK y : y = b.value
    OBVIOUS
  <2>9. x \in Int /\ y \in Int
    BY ONLY <1>19, <1>20, <2>5, <2>7, <2>8
  <2>10. IF order = "descendent" THEN x >= y ELSE x <= y
    BY ONLY <1>20, <2>6, <2>7, <2>8, <2>9 DEF GroupBefore, Greater
  <2> QED BY ONLY <2>7, <2>8, <2>10
<1>21. ValuesAreRanked(values, groups, op, order, size)
         <=> /\ Range(items) = {<<v, Count(values, v)>> : v \in known}
             /\ Len(items) = Cardinality(known) /\ pages[1].total = Len(items)
             /\ \A i, j \in DOMAIN items : i < j => worth(items[i][2], items[j][2])
             /\ top.total = Cardinality(Range(groups))
             /\ Range(top.items) \subseteq Range(all.items)
             /\ \A a \in Range(top.items), b \in Range(all.items) \ Range(top.items) :
                  a.value # Null /\ b.value # Null => worth(a.value, b.value)
  BY Zenon DEF ValuesAreRanked
<1>22. Range(top.items) \subseteq Range(all.items)
  <2>1. \A i \in 1..k : i \in 1..N
    BY ONLY <1>13, <1>17
  <2> HIDE DEF top, all
  <2> QED BY ONLY <1>17, <1>18, <2>1
<1>23. Range(items) = {<<v, Count(values, v)>> : v \in known} /\ Len(items) = n
  <2> HIDE DEF items, known
  <2> QED BY ONLY <1>4, <1>7, <1>8
<1>24. \A i, j \in DOMAIN items : i < j => worth(items[i][2], items[j][2])
  <2> HIDE DEF items, worth
  <2> QED BY ONLY <1>4, <1>7, <1>9
<1> HIDE DEF items, known, pages, top, all, worth
<1> QED BY ONLY <1>1, <1>10, <1>14, <1>17, <1>20, <1>21, <1>22, <1>23, <1>24

(* Numbers.                                                                *)
LEMMA TimesGrows ==
  ASSUME NEW a \in Int, NEW b \in Int, a <= b, NEW c \in Nat
  PROVE  a * c <= b * c /\ c * a <= c * b /\ a * c \in Int /\ b * c \in Int
<1>1. a * c \in Int /\ b * c \in Int /\ b - a \in Nat
  OBVIOUS
<1>2. (b - a) * c >= 0
  BY <1>1
<1>3. (b - a) * c = b * c - a * c
  OBVIOUS
<1>4. c * a = a * c /\ c * b = b * c
  OBVIOUS
<1> QED BY <1>1, <1>2, <1>3, <1>4

LEMMA TimesDistributes ==
  ASSUME NEW a \in Int, NEW b \in Int, NEW c \in Int
  PROVE  a * (b + 1) = a * b + a /\ (a + b) * c = a * c + b * c /\ (a - b) * c = a * c - b * c
<1>1. a * (b + 1) = a * b + a
  OBVIOUS
<1>2. (a + b) * c = a * c + b * c
  OBVIOUS
<1>3. (a - b) * c = a * c - b * c
  OBVIOUS
<1> QED BY <1>1, <1>2, <1>3

LEMMA QuotientIs ==
  ASSUME NEW a \in Int, NEW c \in Nat \ {0}
  PROVE  /\ a \div c \in Int
         /\ \A q \in Int : q <= a \div c <=> q * c <= a
<1>1. PICK d : d = a \div c
  OBVIOUS
<1>2. a \div c \in Int /\ c * (a \div c) <= a /\ a < c * (a \div c) + c
  BY Z3
<1>3. d \in Int /\ d * c <= a /\ a < d * c + c /\ d * c \in Int
  BY ONLY <1>1, <1>2, c \in Nat \ {0}, a \in Int
<1>4. ASSUME NEW q \in Int PROVE q <= d <=> q * c <= a
  <2>1. CASE q <= d
    <3>1. q * c <= d * c /\ q * c \in Int
      BY ONLY <1>3, <2>1, TimesGrows, q \in Int, c \in Nat \ {0}
    <3> QED BY ONLY <1>3, <2>1, <3>1, a \in Int
  <2>2. CASE d + 1 <= q
    <3>1. PICK e : e = d + 1 /\ e \in Int
      BY ONLY <1>3
    <3>2. e * c <= q * c /\ q * c \in Int
      BY ONLY <1>3, <2>2, <3>1, TimesGrows, q \in Int, c \in Nat \ {0}
    <3>3. e * c = d * c + c
      BY ONLY <1>3, <3>1, c \in Nat \ {0}
    <3> QED BY ONLY <1>3, <2>2, <3>2, <3>3, a \in Int, q \in Int, c \in Nat \ {0}
  <2> QED BY ONLY <1>3, <2>1, <2>2, q \in Int
<1> QED BY ONLY <1>1, <1>3, <1>4

(* The sum of numbers between two bounds, times d.                         *)
LEMMA SumIsBetween ==
  ASSUME NEW g, NEW S, IsFiniteSet(S), NEW d \in Nat, NEW n \in Int, NEW m \in Int,
         \A x \in S : g[x] \in Int /\ n <= g[x] * d /\ g[x] * d <= m
  PROVE  n * Cardinality(S) <= SumOver(g, S) * d /\ SumOver(g, S) * d <= m * Cardinality(S)
<1> DEFINE Good == {s \in SUBSET S : n * Cardinality(s) <= SumOver(g, s) * d
                                     /\ SumOver(g, s) * d <= m * Cardinality(s)}
<1>1. ASSUME NEW s \in SUBSET S, \A t \in SUBSET s : t # s => t \in Good
      PROVE  s \in Good
  <2>1. IsFiniteSet(s)
    BY FS_Subset
  <2>2. CASE s = {}
    <3>1. SumOver(g, s) = 0 /\ Cardinality(s) = 0
      BY <2>2, SumOfNothing, FS_EmptySet
    <3>2. n * 0 <= 0 * d /\ 0 * d <= m * 0
      OBVIOUS
    <3> QED BY <3>1, <3>2
  <2>3. CASE s # {}
    <3>1. PICK x : x \in s
      BY <2>3
    <3>2. s \ {x} \in Good
      BY <1>1, <3>1
    <3>3. SumOver(g, s) = g[x] + SumOver(g, s \ {x})
      BY <2>1, <3>1, SumOfOne
    <3>4. Cardinality(s \ {x}) = Cardinality(s) - 1 /\ IsFiniteSet(s \ {x})
      BY <2>1, <3>1, FS_RemoveElement
    <3>5. PICK c : c = Cardinality(s \ {x}) /\ c \in Nat /\ Cardinality(s) = c + 1
      BY <2>1, <3>4, FS_CardinalityType
    <3>6. PICK u : u = SumOver(g, s \ {x}) /\ u \in Int
      BY <3>4, SumIsNumber
    <3>7. PICK v : v = g[x] /\ v \in Int /\ n <= v * d /\ v * d <= m
      BY <3>1
    <3>8. n * c <= u * d /\ u * d <= m * c
      BY <3>2, <3>5, <3>6
    <3>9. n * (c + 1) = n * c + n /\ m * (c + 1) = m * c + m /\ (v + u) * d = v * d + u * d
      <4>1. n * (c + 1) = n * c + n
        BY ONLY <3>5, n \in Int, TimesDistributes
      <4>2. m * (c + 1) = m * c + m
        BY ONLY <3>5, m \in Int, TimesDistributes
      <4>3. (v + u) * d = v * d + u * d
        BY ONLY <3>6, <3>7, d \in Nat, TimesDistributes
      <4> QED BY ONLY <4>1, <4>2, <4>3
    <3>10. n * c \in Int /\ m * c \in Int /\ v * d \in Int /\ u * d \in Int
      BY ONLY <3>5, <3>6, <3>7, n \in Int, m \in Int, d \in Nat
    <3>11. n * (c + 1) <= (v + u) * d /\ (v + u) * d <= m * (c + 1)
      BY ONLY <3>7, <3>8, <3>9, <3>10, n \in Int, m \in Int
    <3>12. SumOver(g, s) = v + u
      BY ONLY <3>3, <3>6, <3>7
    <3> QED BY ONLY <3>5, <3>11, <3>12, s \in SUBSET S
  <2> QED BY <2>2, <2>3
<1> HIDE DEF Good
<1>2. S \in Good
  BY <1>1, BySmaller
<1> QED BY <1>2 DEF Good

(* The places of a column's values that are not zero.                      *)
Sized(values) == {i \in DOMAIN values : values[i] # Null /\ values[i] # 0}

IsSplitting(b) == b[1] \in Int /\ b[2] \in Nat \ {0}

(* Between the least value and the greatest.                               *)
InRange(b, at, values) ==
  \E j, l \in at : ~Less(b, <<values[j], 1>>) /\ ~Less(<<values[l], 1>>, b)

LEMMA SizedAre ==
  ASSUME NEW values, IsColumn(values), Sized(values) # {}
  PROVE  /\ IsFiniteSet(Sized(values)) /\ \A i \in Sized(values) : values[i] \in Int
         /\ Cardinality(Sized(values)) \in Nat \ {0}
         /\ {values[i] : i \in Sized(values)} \in SUBSET Int /\ {values[i] : i \in Sized(values)} # {}
         /\ IsFiniteSet({values[i] : i \in Sized(values)})
<1>1. IsFiniteSet(Sized(values)) /\ \A i \in Sized(values) : values[i] \in Int
  <2>1. IsFiniteSet(DOMAIN values)
    BY ColumnIs
  <2>2. Sized(values) \in SUBSET DOMAIN values
    BY DEF Sized
  <2> QED BY <2>1, <2>2, FS_Subset DEF Sized, IsColumn
<1>2. Cardinality(Sized(values)) \in Nat \ {0}
  <2>1. Cardinality(Sized(values)) \in Nat
    BY <1>1, FS_CardinalityType
  <2>2. Cardinality(Sized(values)) # 0
    BY <1>1, FS_EmptySet
  <2> QED BY <2>1, <2>2
<1>3. IsFiniteSet({values[i] : i \in Sized(values)})
  BY <1>1, ImageIsFinite
<1> QED BY <1>1, <1>2, <1>3

(* The mean lies between the least and the greatest, and all but one of    *)
(* the values may be above it.                                             *)
LEMMA MeanIs ==
  ASSUME NEW values, NEW A, IsFiniteSet(A), A # {}, \A i \in A : values[i] \in Int
  PROVE  /\ IsSplitting(Mean(A, values)) /\ InRange(Mean(A, values), A, values)
         /\ \E i \in A : ~Less(Mean(A, values), <<values[i], 1>>)
         /\ Mean(A, values) = <<SumOver(values, A), Cardinality(A)>>
<1>1. Mean(A, values) = <<SumOver(values, A), Cardinality(A)>>
  BY Zenon DEF Mean, SumOver
<1>2. SumOver(values, A) \in Int
  BY SumIsNumber
<1>3. Cardinality(A) \in Nat \ {0}
  <2>1. Cardinality(A) \in Nat
    BY FS_CardinalityType
  <2>2. Cardinality(A) # 0
    BY FS_EmptySet
  <2> QED BY <2>1, <2>2
<1> DEFINE vs == {values[i] : i \in A}
<1>4. vs \in SUBSET Int /\ vs # {} /\ IsFiniteSet(vs)
  BY ImageIsFinite
<1>5. PICK j \in A : \A i \in A : values[j] <= values[i]
  <2>1. \E x \in vs : \A y \in vs : x <= y
    <3> HIDE DEF vs
    <3> QED BY <1>4, GreatestExists
  <2> QED BY <2>1
<1>6. PICK l \in A : \A i \in A : values[i] <= values[l]
  <2>1. \E x \in vs : \A y \in vs : y <= x
    <3> HIDE DEF vs
    <3> QED BY <1>4, GreatestExists
  <2> QED BY <2>1
<1>7. PICK n : n = values[j] /\ n \in Int
  OBVIOUS
<1>8. PICK m : m = values[l] /\ m \in Int
  OBVIOUS
<1>9. PICK one : one = 1 /\ one \in Nat
  OBVIOUS
<1>10. \A i \in A : values[i] \in Int /\ n <= values[i] * one /\ values[i] * one <= m
  BY ONLY <1>5, <1>6, <1>7, <1>8, <1>9, \A i \in A : values[i] \in Int
<1>11. n * Cardinality(A) <= SumOver(values, A) * one /\ SumOver(values, A) * one <= m * Cardinality(A)
  BY <1>7, <1>8, <1>9, <1>10, SumIsBetween
<1>12. PICK c : c = Cardinality(A)
  OBVIOUS
<1>13. PICK u : u = SumOver(values, A)
  OBVIOUS
<1>14. n * c <= u /\ u <= m * c /\ n * c \in Int /\ m * c \in Int
  BY ONLY <1>2, <1>3, <1>7, <1>8, <1>9, <1>11, <1>12, <1>13
<1>15. ~Less(<<u, c>>, <<values[j], 1>>) /\ ~Less(<<values[l], 1>>, <<u, c>>)
  BY ONLY <1>2, <1>7, <1>8, <1>12, <1>13, <1>14, <1>3 DEF Less
<1>16. Mean(A, values) = <<u, c>>
  BY ONLY <1>1, <1>12, <1>13
<1>17. IsSplitting(<<u, c>>)
  BY ONLY <1>2, <1>3, <1>12, <1>13 DEF IsSplitting
<1> QED BY ONLY <1>1, <1>15, <1>16, <1>17, j \in A, l \in A DEF InRange

IsSample(at, values) == IsFiniteSet(at) /\ at # {} /\ \A i \in at : values[i] \in Int

(* Breaks lie within the values and are in order.                          *)
Splits(cls, at, values, breaks) ==
  /\ Len(cls) = breaks
  /\ \A k \in 1..breaks : /\ InRange(cls[k], at, values)
                          /\ k > 1 => ~Less(cls[k], cls[k - 1])

ValuesOfRows(at, values) == {values[i] : i \in at}

LEMMA SampleIs ==
  ASSUME NEW at, NEW values, IsSample(at, values)
  PROVE  /\ ValuesOfRows(at, values) \in SUBSET Int /\ ValuesOfRows(at, values) # {} /\ IsFiniteSet(ValuesOfRows(at, values))
         /\ Cardinality(at) \in Nat \ {0}
         /\ Min(ValuesOfRows(at, values)) \in ValuesOfRows(at, values)
         /\ Max(ValuesOfRows(at, values)) \in ValuesOfRows(at, values)
         /\ \A v \in ValuesOfRows(at, values) : Min(ValuesOfRows(at, values)) <= v /\ v <= Max(ValuesOfRows(at, values))
<1> DEFINE vs == ValuesOfRows(at, values)
<1>1. vs \in SUBSET Int /\ vs # {} /\ IsFiniteSet(vs)
  BY ImageIsFinite DEF IsSample, ValuesOfRows
<1>2. Cardinality(at) \in Nat \ {0}
  <2>1. Cardinality(at) \in Nat
    BY FS_CardinalityType DEF IsSample
  <2>2. Cardinality(at) # 0
    BY FS_EmptySet DEF IsSample
  <2> QED BY <2>1, <2>2
<1> HIDE DEF vs
<1>3. Min(vs) \in vs /\ Max(vs) \in vs /\ \A v \in vs : Min(vs) <= v /\ v <= Max(vs)
  BY <1>1, LeastOfNumbers, GreatestIs
<1> QED BY <1>1, <1>2, <1>3 DEF vs

LEMMA AValueIsWithin ==
  ASSUME NEW at, NEW values, IsSample(at, values), NEW v \in ValuesOfRows(at, values)
  PROVE  InRange(<<v, 1>>, at, values) /\ v \in Int
<1>1. PICK i \in at : v = values[i] /\ v \in Int
  BY DEF ValuesOfRows, IsSample
<1>2. ~Less(<<v, 1>>, <<v, 1>>)
  BY <1>1 DEF Less
<1> QED BY <1>1, <1>2 DEF InRange

LEMMA EqualIntervalsSplit ==
  ASSUME NEW at, NEW values, IsSample(at, values), NEW breaks \in Nat
  PROVE  Splits(equal_interval_breaks(at, values, breaks), at, values, breaks)
<1> DEFINE vs == ValuesOfRows(at, values)
<1>1. PICK low : low = Min(vs)
  OBVIOUS
<1>2. PICK high : high = Max(vs)
  OBVIOUS
<1>3. PICK cls : cls = equal_interval_breaks(at, values, breaks)
  OBVIOUS
<1>4. cls = [k \in 1..breaks |-> <<low * (breaks + 1) + k * (high - low), breaks + 1>>]
  BY <1>1, <1>2, <1>3, Zenon DEF equal_interval_breaks, ValuesOfRows
<1>5. low \in vs /\ high \in vs /\ low \in Int /\ high \in Int /\ low <= high
  BY <1>1, <1>2, SampleIs
<1>6. PICK n : n = breaks + 1 /\ n \in Nat \ {0}
  OBVIOUS
<1>7. PICK r : r = high - low /\ r \in Nat
  BY <1>5
<1>8. \A k \in 1..breaks : cls[k] = <<low * n + k * r, n>>
  BY ONLY <1>4, <1>6, <1>7
<1>9. PICK j \in at : values[j] = low
  BY <1>5 DEF ValuesOfRows
<1>10. PICK l \in at : values[l] = high
  BY <1>5 DEF ValuesOfRows
<1>11. ASSUME NEW k \in 1..breaks PROVE InRange(cls[k], at, values)
  <2>1. k \in Nat /\ k <= n /\ n \in Nat
    BY <1>6
  <2>2. k * r \in Nat /\ low * n \in Int /\ high * n \in Int /\ n * r \in Int
    BY ONLY <1>5, <1>6, <1>7, <2>1
  <2>3. k * r <= n * r
    BY ONLY <1>7, <2>1, TimesGrows
  <2>4. high * n = low * n + n * r
    <3>1. (high - low) * n = high * n - low * n
      BY ONLY <1>5, <2>1, TimesDistributes
    <3>2. n * r = r * n
      BY ONLY <1>7, <2>1
    <3> QED BY ONLY <1>7, <2>2, <3>1, <3>2
  <2>5. low * n <= low * n + k * r /\ low * n + k * r <= high * n
    BY ONLY <2>2, <2>3, <2>4
  <2>6. PICK b : b = low * n + k * r /\ b \in Int /\ low * n <= b /\ b <= high * n
    BY ONLY <2>2, <2>5
  <2>7. ~Less(<<b, n>>, <<low, 1>>) /\ ~Less(<<high, 1>>, <<b, n>>)
    BY ONLY <1>5, <2>1, <2>2, <2>6 DEF Less
  <2>8. cls[k] = <<b, n>>
    BY ONLY <1>8, <2>6, k \in 1..breaks
  <2> QED BY ONLY <1>9, <1>10, <2>7, <2>8 DEF InRange
<1>12. ASSUME NEW k \in 1..breaks, k > 1 PROVE ~Less(cls[k], cls[k - 1])
  <2>1. k - 1 \in 1..breaks /\ k \in Nat /\ k - 1 \in Int
    BY <1>12
  <2>2. PICK h : h = k - 1 /\ h \in Int /\ h <= k
    BY <2>1
  <2>3. h * r <= k * r /\ h * r \in Int /\ k * r \in Int /\ low * n \in Int
    BY ONLY <1>5, <1>6, <1>7, <2>1, <2>2, TimesGrows
  <2>4. PICK a : a = low * n + h * r /\ a \in Int
    BY ONLY <2>3
  <2>5. PICK b : b = low * n + k * r /\ b \in Int /\ a <= b
    BY ONLY <2>3, <2>4
  <2>6. a * n <= b * n /\ a * n \in Int /\ b * n \in Int
    BY ONLY <1>6, <2>4, <2>5, TimesGrows
  <2>7. ~Less(<<b, n>>, <<a, n>>)
    BY ONLY <2>6 DEF Less
  <2>8. cls[k] = <<b, n>> /\ cls[k - 1] = <<a, n>>
    BY ONLY <1>8, <2>1, <2>2, <2>4, <2>5, k \in 1..breaks
  <2> QED BY ONLY <2>7, <2>8
<1>13. Len(cls) = breaks
  BY ONLY <1>4, breaks \in Nat
<1> QED BY ONLY <1>3, <1>11, <1>12, <1>13 DEF Splits

-----------------------------------------------------------------------------
(* percentile_disc: the values that enough values do not exceed.           *)
UpTo(at, values, v) == {i \in at : values[i] <= v}

Enough(at, values, n, k) ==
  {v \in ValuesOfRows(at, values) : Cardinality(UpTo(at, values, v)) * n >= k * Cardinality(at)}

LEMMA EnoughIs ==
  ASSUME NEW at, NEW values, IsSample(at, values), NEW n \in Nat, NEW k \in Nat, k <= n
  PROVE  /\ Min(Enough(at, values, n, k)) \in Enough(at, values, n, k)
         /\ \A v \in Enough(at, values, n, k) : Min(Enough(at, values, n, k)) <= v
<1> DEFINE vs == ValuesOfRows(at, values)
           s == Enough(at, values, n, k)
<1>1. s \in SUBSET Int /\ IsFiniteSet(s)
  <2>1. s \in SUBSET vs
    BY DEF Enough
  <2> HIDE DEF s
  <2> QED BY <2>1, SampleIs, FS_Subset
<1>2. Max(vs) \in s
  <2>1. Max(vs) \in vs /\ \A v \in vs : v <= Max(vs)
    BY SampleIs
  <2>2. UpTo(at, values, Max(vs)) = at
    BY <2>1 DEF UpTo, ValuesOfRows
  <2>3. Cardinality(at) \in Nat
    BY SampleIs
  <2>4. k * Cardinality(at) <= n * Cardinality(at) /\ n * Cardinality(at) = Cardinality(at) * n
        /\ k * Cardinality(at) \in Int /\ n * Cardinality(at) \in Int
    BY <2>3, TimesGrows
  <2>5. Cardinality(UpTo(at, values, Max(vs))) * n >= k * Cardinality(at)
    BY <2>2, <2>4
  <2> HIDE DEF vs
  <2> QED BY <2>1, <2>5 DEF Enough, vs
<1> HIDE DEF s, vs
<1>3. Min(s) \in s /\ \A v \in s : Min(s) <= v
  BY <1>1, <1>2, LeastOfNumbers
<1> QED BY <1>3 DEF s

Quantile(at, values, breaks, k) == Min(Enough(at, values, breaks + 1, k))

LEMMA QuantilesAre ==
  ASSUME NEW at, NEW values, NEW breaks \in Nat
  PROVE  /\ quantile_breaks(at, values, breaks) = [k \in 1..breaks |-> <<Quantile(at, values, breaks, k), 1>>]
         /\ Len(quantile_breaks(at, values, breaks)) = breaks
<1>1. quantile_breaks(at, values, breaks) = [k \in 1..breaks |-> <<Quantile(at, values, breaks, k), 1>>]
  BY Zenon DEF quantile_breaks, Quantile, Enough, UpTo, ValuesOfRows
<1> QED BY <1>1

LEMMA QuantileIs ==
  ASSUME NEW at, NEW values, IsSample(at, values), NEW breaks \in Nat, NEW k \in 1..(breaks + 1), NEW q,
         q = Quantile(at, values, breaks, k)
  PROVE  /\ q \in ValuesOfRows(at, values) /\ q \in Int
         /\ Cardinality(UpTo(at, values, q)) * (breaks + 1) >= k * Cardinality(at)
         /\ \A v \in ValuesOfRows(at, values) : v < q => ~(Cardinality(UpTo(at, values, v)) * (breaks + 1) >= k * Cardinality(at))
<1>1. PICK n : n = breaks + 1 /\ n \in Nat /\ k \in Nat /\ k <= n
  OBVIOUS
<1>2. q \in Enough(at, values, n, k) /\ \A v \in Enough(at, values, n, k) : q <= v
  BY <1>1, EnoughIs DEF Quantile
<1>3. ValuesOfRows(at, values) \in SUBSET Int
  BY SampleIs
<1>4. q \in ValuesOfRows(at, values) /\ q \in Int /\ Cardinality(UpTo(at, values, q)) * n >= k * Cardinality(at)
  BY ONLY <1>2, <1>3 DEF Enough
<1>5. ASSUME NEW v \in ValuesOfRows(at, values), v < q
      PROVE  ~(Cardinality(UpTo(at, values, v)) * n >= k * Cardinality(at))
  <2>1. v \notin Enough(at, values, n, k)
    BY <1>2, <1>3, <1>4, <1>5
  <2> QED BY ONLY <1>5, <2>1 DEF Enough
<1> QED BY ONLY <1>1, <1>4, <1>5

LEMMA QuantilesGrow ==
  ASSUME NEW at, NEW values, IsSample(at, values), NEW breaks \in Nat, NEW k \in 1..breaks, k > 1
  PROVE  Quantile(at, values, breaks, k - 1) <= Quantile(at, values, breaks, k)
<1>1. PICK h : h = k - 1 /\ h \in 1..(breaks + 1) /\ h \in Nat /\ h <= k
  OBVIOUS
<1>2. k \in 1..(breaks + 1) /\ k \in Nat
  OBVIOUS
<1>3. PICK p : p = Quantile(at, values, breaks, h)
  OBVIOUS
<1>4. PICK q : q = Quantile(at, values, breaks, k)
  OBVIOUS
<1>5. /\ p \in Int
      /\ \A v \in ValuesOfRows(at, values) : v < p => ~(Cardinality(UpTo(at, values, v)) * (breaks + 1) >= h * Cardinality(at))
  BY <1>1, <1>3, QuantileIs
<1>6. q \in ValuesOfRows(at, values) /\ q \in Int /\ Cardinality(UpTo(at, values, q)) * (breaks + 1) >= k * Cardinality(at)
  BY <1>2, <1>4, QuantileIs
<1>7. PICK c : c = Cardinality(at) /\ c \in Nat
  BY SampleIs
<1>8. h * c <= k * c /\ h * c \in Int /\ k * c \in Int
  BY ONLY <1>1, <1>2, <1>7, TimesGrows
<1>9. Cardinality(UpTo(at, values, q)) * (breaks + 1) \in Int
  <2>1. IsFiniteSet(UpTo(at, values, q))
    BY FS_Subset DEF IsSample, UpTo
  <2> QED BY <2>1, FS_CardinalityType
<1>10. ~(q < p)
  <2>1. PICK w : w = Cardinality(UpTo(at, values, q)) * (breaks + 1) /\ w \in Int
    BY ONLY <1>9
  <2>2. w >= h * c
    BY ONLY <1>6, <1>7, <1>8, <2>1
  <2> QED BY ONLY <1>5, <1>6, <1>7, <2>1, <2>2
<1> QED BY ONLY <1>1, <1>3, <1>4, <1>5, <1>6, <1>10

LEMMA QuantilesSplit ==
  ASSUME NEW at, NEW values, IsSample(at, values), NEW breaks \in Nat
  PROVE  Splits(quantile_breaks(at, values, breaks), at, values, breaks)
<1>1. PICK cls : cls = quantile_breaks(at, values, breaks)
  OBVIOUS
<1>2. Len(cls) = breaks /\ \A k \in 1..breaks : cls[k] = <<Quantile(at, values, breaks, k), 1>>
  BY <1>1, QuantilesAre
<1>3. ASSUME NEW k \in 1..breaks PROVE InRange(cls[k], at, values)
  <2>1. k \in 1..(breaks + 1)
    OBVIOUS
  <2>2. PICK q : q = Quantile(at, values, breaks, k)
    OBVIOUS
  <2>3. q \in ValuesOfRows(at, values)
    BY <2>1, <2>2, QuantileIs
  <2> QED BY <1>2, <2>2, <2>3, AValueIsWithin
<1>4. ASSUME NEW k \in 1..breaks, k > 1 PROVE ~Less(cls[k], cls[k - 1])
  <2>1. PICK h : h = k - 1 /\ h \in 1..breaks /\ h \in 1..(breaks + 1) /\ k \in 1..(breaks + 1)
    BY <1>4
  <2>2. PICK p : p = Quantile(at, values, breaks, h)
    OBVIOUS
  <2>3. PICK q : q = Quantile(at, values, breaks, k)
    OBVIOUS
  <2>4. p \in Int /\ q \in Int
    BY <2>1, <2>2, <2>3, QuantileIs
  <2>5. p <= q
    BY <1>4, <2>1, <2>2, <2>3, QuantilesGrow
  <2>6. ~Less(<<q, 1>>, <<p, 1>>)
    BY ONLY <2>4, <2>5 DEF Less
  <2> QED BY ONLY <1>2, <2>1, <2>2, <2>3, <2>6, k \in 1..breaks
<1> QED BY ONLY <1>1, <1>2, <1>3, <1>4 DEF Splits

(* What is below the upper break of a class, and up to the lower one.      *)
BelowBreak(at, values, breaks, k) ==
  IF k = breaks + 1 THEN at ELSE {i \in at : values[i] < Quantile(at, values, breaks, k)}

PastBreak(at, values, breaks, h) ==
  IF h = 0 THEN {} ELSE UpTo(at, values, Quantile(at, values, breaks, h))

LEMMA BelowBreakIs ==
  ASSUME NEW at, NEW values, IsSample(at, values), NEW breaks \in Nat, NEW k \in 1..(breaks + 1)
  PROVE  Cardinality(BelowBreak(at, values, breaks, k)) * (breaks + 1) <= k * Cardinality(at)
<1>1. PICK n : n = breaks + 1 /\ n \in Nat \ {0}
  OBVIOUS
<1>2. PICK c : c = Cardinality(at) /\ c \in Nat
  BY SampleIs
<1>3. k \in Nat /\ k * c \in Nat
  BY <1>2
<1>4. PICK s : s = BelowBreak(at, values, breaks, k)
  OBVIOUS
<1>5. PICK q : q = Quantile(at, values, breaks, k)
  OBVIOUS
<1>6. CASE k = n
  <2>1. s = at
    BY ONLY <1>1, <1>4, <1>6 DEF BelowBreak
  <2>2. c * n <= n * c
    BY ONLY <1>1, <1>2
  <2> QED BY ONLY <1>1, <1>2, <1>4, <1>6, <2>1, <2>2
<1>7. CASE k # n
  <2>1. s = {i \in at : values[i] < q}
    BY ONLY <1>1, <1>4, <1>5, <1>7 DEF BelowBreak
  <2>2. /\ q \in Int
        /\ \A v \in ValuesOfRows(at, values) : v < q => ~(Cardinality(UpTo(at, values, v)) * (breaks + 1) >= k * Cardinality(at))
    BY <1>5, QuantileIs
  <2>3. IsFiniteSet(s) /\ s \in SUBSET at /\ \A i \in s : values[i] \in Int
    BY <2>1, FS_Subset DEF IsSample
  <2>4. CASE s = {}
    <3>1. Cardinality(s) = 0
      BY <2>4, FS_EmptySet
    <3>2. Cardinality(s) * n = 0
      BY ONLY <1>1, <3>1
    <3> QED BY ONLY <1>1, <1>2, <1>3, <1>4, <3>2
  <2>5. CASE s # {}
    <3>1. IsSample(s, values)
      BY <2>3, <2>5 DEF IsSample
    <3>2. PICK w : w = Max(ValuesOfRows(s, values)) /\ w \in ValuesOfRows(s, values) /\ \A v \in ValuesOfRows(s, values) : v <= w
      BY <3>1, SampleIs
    <3>3. PICK l \in s : w = values[l] /\ w \in Int
      BY <2>3, <3>2 DEF ValuesOfRows
    <3>4. w < q /\ w \in ValuesOfRows(at, values)
      BY <2>1, <3>3 DEF ValuesOfRows
    <3>5. UpTo(at, values, w) = s
      <4>1. \A i \in s : values[i] <= w
        BY <3>2 DEF ValuesOfRows
      <4>2. \A i \in at : values[i] \in Int
        BY DEF IsSample
      <4>3. \A i \in at : values[i] <= w => i \in s
        BY ONLY <2>1, <2>2, <3>3, <3>4, <4>2
      <4> QED BY ONLY <2>3, <4>1, <4>3 DEF UpTo
    <3>6. PICK z : z = Cardinality(s) * n /\ z \in Int
      <4>1. Cardinality(s) \in Nat
        BY <2>3, FS_CardinalityType
      <4> QED BY <1>1, <4>1
    <3>7. ~(z >= k * c)
      BY ONLY <1>1, <1>2, <2>2, <3>4, <3>5, <3>6
    <3> QED BY ONLY <1>1, <1>2, <1>3, <1>4, <3>6, <3>7
  <2> QED BY <2>4, <2>5
<1> QED BY <1>6, <1>7

LEMMA PastBreakIs ==
  ASSUME NEW at, NEW values, IsSample(at, values), NEW breaks \in Nat, NEW h \in 0..breaks
  PROVE  /\ Cardinality(PastBreak(at, values, breaks, h)) * (breaks + 1) >= h * Cardinality(at)
         /\ PastBreak(at, values, breaks, h) \in SUBSET at
<1>1. CASE h = 0
  <2>1. PastBreak(at, values, breaks, h) = {}
    BY ONLY <1>1 DEF PastBreak
  <2>2. Cardinality({}) = 0
    BY FS_EmptySet
  <2>3. Cardinality(at) \in Nat
    BY SampleIs
  <2>4. 0 * (breaks + 1) >= h * Cardinality(at)
    BY ONLY <1>1, <2>3, breaks \in Nat
  <2> QED BY ONLY <2>1, <2>2, <2>4
<1>2. CASE h # 0
  <2>1. h \in 1..(breaks + 1)
    BY <1>2
  <2>2. PICK q : q = Quantile(at, values, breaks, h)
    OBVIOUS
  <2>3. Cardinality(UpTo(at, values, q)) * (breaks + 1) >= h * Cardinality(at)
    BY <2>1, <2>2, QuantileIs
  <2>4. PastBreak(at, values, breaks, h) = UpTo(at, values, q) /\ UpTo(at, values, q) \in SUBSET at
    BY ONLY <1>2, <2>2 DEF PastBreak, UpTo
  <2> QED BY ONLY <2>3, <2>4
<1> QED BY <1>1, <1>2

(* No class holds more than its share.                                     *)
LEMMA ClassIs ==
  ASSUME NEW at, NEW values, IsSample(at, values), NEW breaks \in Nat, NEW k \in 1..(breaks + 1)
  PROVE  (breaks + 1) * Cardinality(BelowBreak(at, values, breaks, k) \ PastBreak(at, values, breaks, k - 1))
           <= Cardinality(at)
<1>1. PICK n : n = breaks + 1 /\ n \in Nat \ {0}
  OBVIOUS
<1>2. PICK c : c = Cardinality(at) /\ c \in Nat
  BY SampleIs
<1>3. PICK h : h = k - 1 /\ h \in 0..breaks /\ h \in Nat /\ k = h + 1 /\ k \in Nat
  OBVIOUS
<1>4. PICK B : B = BelowBreak(at, values, breaks, k)
  OBVIOUS
<1>5. PICK P : P = PastBreak(at, values, breaks, h)
  OBVIOUS
<1>6. B \in SUBSET at /\ P \in SUBSET at /\ IsFiniteSet(B) /\ IsFiniteSet(P)
  <2>1. B \in SUBSET at
    BY <1>4 DEF BelowBreak
  <2>2. P \in SUBSET at
    BY <1>3, <1>5, PastBreakIs
  <2> QED BY <2>1, <2>2, FS_Subset DEF IsSample
<1>7. PICK b : b = Cardinality(B) /\ b \in Nat /\ b * n <= k * c
  BY <1>1, <1>2, <1>4, <1>6, BelowBreakIs, FS_CardinalityType
<1>8. PICK p : p = Cardinality(P) /\ p \in Nat /\ p * n >= h * c
  BY <1>1, <1>2, <1>3, <1>5, <1>6, PastBreakIs, FS_CardinalityType
<1>9. P \subseteq B \/ B \ P = {}
  <2>1. CASE k = n
    <3>1. B = at
      BY ONLY <1>1, <1>4, <2>1 DEF BelowBreak
    <3> QED BY <1>6, <3>1
  <2>2. CASE h = 0
    <3>1. P = {}
      BY ONLY <1>5, <2>2 DEF PastBreak
    <3> QED BY <3>1
  <2>3. CASE k # n /\ h # 0
    <3>1. k \in 1..(breaks + 1) /\ h \in 1..(breaks + 1)
      BY <1>3, <2>3
    <3>2. PICK q : q = Quantile(at, values, breaks, k) /\ q \in Int
      BY <3>1, QuantileIs
    <3>3. PICK r : r = Quantile(at, values, breaks, h) /\ r \in Int
      BY <3>1, QuantileIs
    <3>4. B = {i \in at : values[i] < q}
      BY ONLY <1>1, <1>4, <2>3, <3>2 DEF BelowBreak
    <3>5. P = {i \in at : values[i] <= r}
      BY ONLY <1>5, <2>3, <3>3 DEF PastBreak, UpTo
    <3>6. \A i \in at : values[i] \in Int
      BY DEF IsSample
    <3>7. CASE r < q
      BY ONLY <3>2, <3>3, <3>4, <3>5, <3>6, <3>7
    <3>8. CASE q <= r
      BY ONLY <3>2, <3>3, <3>4, <3>5, <3>6, <3>8
    <3> QED BY <3>2, <3>3, <3>7, <3>8
  <2> QED BY <2>1, <2>2, <2>3
<1>10. n * Cardinality(B \ P) <= c
  <2>1. CASE B \ P = {}
    <3>1. Cardinality(B \ P) = 0
      BY <2>1, FS_EmptySet
    <3> QED BY ONLY <1>1, <1>2, <3>1
  <2>2. CASE P \subseteq B
    <3>1. B \cap P = P
      BY <2>2
    <3>2. Cardinality(B \ P) = Cardinality(B) - Cardinality(B \cap P)
      BY <1>6, FS_Difference
    <3>3. Cardinality(B \ P) = b - p
      BY ONLY <1>7, <1>8, <3>1, <3>2
    <3>4. (b - p) * n = b * n - p * n
      BY ONLY <1>1, <1>7, <1>8, TimesDistributes
    <3>5. (h + 1) * c = h * c + c
      <4>1. c * (h + 1) = c * h + c
        BY ONLY <1>2, <1>3, TimesDistributes
      <4> QED BY ONLY <1>2, <1>3, <4>1
    <3>6. b * n \in Int /\ p * n \in Int /\ h * c \in Int /\ k * c \in Int /\ (b - p) * n = n * (b - p)
      BY ONLY <1>1, <1>2, <1>3, <1>7, <1>8
    <3>7. k * c = h * c + c
      BY ONLY <1>3, <3>5
    <3>8. (b - p) * n <= c
      BY ONLY <1>2, <1>7, <1>8, <3>4, <3>6, <3>7
    <3> QED BY ONLY <3>3, <3>6, <3>8
  <2> QED BY <1>9, <2>1, <2>2
<1> QED BY ONLY <1>1, <1>2, <1>3, <1>4, <1>5, <1>10

QuantilesShare(cls, at, values, breaks) ==
  \A k \in 1..(breaks + 1) :
    (breaks + 1) * Cardinality({i \in at :
        /\ k <= breaks => Less(<<values[i], 1>>, cls[k])
        /\ k > 1 => Less(cls[k - 1], <<values[i], 1>>)}) <= Cardinality(at)

LEMMA QuantilesAreShared ==
  ASSUME NEW at, NEW values, IsSample(at, values), NEW breaks \in Nat
  PROVE  QuantilesShare(quantile_breaks(at, values, breaks), at, values, breaks)
<1>1. PICK cls : cls = quantile_breaks(at, values, breaks)
  OBVIOUS
<1>2. \A k \in 1..breaks : cls[k] = <<Quantile(at, values, breaks, k), 1>>
  BY <1>1, QuantilesAre
<1>3. \A i \in at : values[i] \in Int
  BY DEF IsSample
<1>4. ASSUME NEW k \in 1..(breaks + 1)
      PROVE  {i \in at : /\ k <= breaks => Less(<<values[i], 1>>, cls[k])
                         /\ k > 1 => Less(cls[k - 1], <<values[i], 1>>)}
               = BelowBreak(at, values, breaks, k) \ PastBreak(at, values, breaks, k - 1)
  <2>1. ASSUME NEW i \in at
        PROVE  (k <= breaks => Less(<<values[i], 1>>, cls[k])) <=> i \in BelowBreak(at, values, breaks, k)
    <3>1. CASE k = breaks + 1
      BY <3>1 DEF BelowBreak
    <3>2. CASE k # breaks + 1
      <4>1. k \in 1..breaks /\ k \in 1..(breaks + 1)
        BY <3>2
      <4>2. PICK q : q = Quantile(at, values, breaks, k) /\ q \in Int
        BY <4>1, QuantileIs
      <4>3. Less(<<values[i], 1>>, <<q, 1>>) <=> values[i] < q
        BY ONLY <1>3, <4>2, i \in at DEF Less
      <4>4. i \in BelowBreak(at, values, breaks, k) <=> values[i] < q
        BY ONLY <3>2, <4>2, i \in at DEF BelowBreak
      <4>5. k <= breaks
        BY <4>1
      <4> QED BY ONLY <1>2, <4>1, <4>2, <4>3, <4>4, <4>5
    <3> QED BY <3>1, <3>2
  <2>2. ASSUME NEW i \in at
        PROVE  (k > 1 => Less(cls[k - 1], <<values[i], 1>>)) <=> i \notin PastBreak(at, values, breaks, k - 1)
    <3>1. CASE k = 1
      <4>1. k - 1 = 0 /\ ~(k > 1)
        BY <3>1
      <4> QED BY ONLY <4>1 DEF PastBreak
    <3>2. CASE k # 1
      <4>1. PICK h : h = k - 1 /\ h \in 1..breaks /\ h \in 1..(breaks + 1) /\ h # 0 /\ k > 1
        BY <3>2
      <4>2. PICK q : q = Quantile(at, values, breaks, h) /\ q \in Int
        BY <4>1, QuantileIs
      <4>3. Less(<<q, 1>>, <<values[i], 1>>) <=> ~(values[i] <= q)
        BY ONLY <1>3, <4>2, i \in at DEF Less
      <4>4. i \in PastBreak(at, values, breaks, h) <=> values[i] <= q
        BY ONLY <4>1, <4>2, i \in at DEF PastBreak, UpTo
      <4> QED BY ONLY <1>2, <4>1, <4>2, <4>3, <4>4
    <3> QED BY <3>1, <3>2
  <2>3. BelowBreak(at, values, breaks, k) \in SUBSET at
    BY DEF BelowBreak
  <2> QED BY <2>1, <2>2, <2>3
<1>5. ASSUME NEW k \in 1..(breaks + 1)
      PROVE  (breaks + 1) * Cardinality({i \in at :
                 /\ k <= breaks => Less(<<values[i], 1>>, cls[k])
                 /\ k > 1 => Less(cls[k - 1], <<values[i], 1>>)}) <= Cardinality(at)
  <2>1. PICK s : s = {i \in at : /\ k <= breaks => Less(<<values[i], 1>>, cls[k])
                                 /\ k > 1 => Less(cls[k - 1], <<values[i], 1>>)}
    OBVIOUS
  <2>2. s = BelowBreak(at, values, breaks, k) \ PastBreak(at, values, breaks, k - 1)
    BY ONLY <1>4, <2>1, k \in 1..(breaks + 1)
  <2>3. (breaks + 1) * Cardinality(s) <= Cardinality(at)
    BY <2>2, ClassIs
  <2> QED BY ONLY <2>1, <2>3
<1> QED BY ONLY <1>1, <1>5 DEF QuantilesShare

(* Heads and tails: what is above a break, and the break after it.         *)
HeadsOf(at, values, b) == {i \in at : Less(b, <<values[i], 1>>)}

BreakAfter(at, values, b) ==
  IF HeadsOf(at, values, b) = {} THEN <<Max(ValuesOfRows(at, values)), 1>>
  ELSE Mean(HeadsOf(at, values, b), values)

Breaking(at, values, m, reply) ==
  reply = [k \in 1..m |-> IF k = 1 THEN Mean(at, values) ELSE BreakAfter(at, values, reply[k - 1])]

LEMMA BreakingExists ==
  ASSUME NEW at, NEW values
  PROVE  \A m \in Nat \ {0} : \E reply : Breaking(at, values, m, reply)
<1> DEFINE Bad == {m \in Nat \ {0} : ~ \E reply : Breaking(at, values, m, reply)}
<1>1. SUFFICES ASSUME Bad # {} PROVE FALSE
  OBVIOUS
<1>2. PICK m \in Bad : \A n \in Bad : m <= n
  <2>1. Bad \in SUBSET Nat
    OBVIOUS
  <2> HIDE DEF Bad
  <2> QED BY <1>1, <2>1, LeastExists
<1>3. CASE m = 1
  <2>1. PICK first : first = Mean(at, values)
    OBVIOUS
  <2> DEFINE f == [i \in 1..1 |-> first]
  <2>2. f = [i \in 1..1 |-> IF i = 1 THEN Mean(at, values) ELSE BreakAfter(at, values, f[i - 1])]
    BY <2>1
  <2>3. Breaking(at, values, 1, f)
    BY <2>2 DEF Breaking
  <2> HIDE DEF f
  <2> QED BY <1>3, <2>3
<1>4. CASE m # 1
  <2>1. m - 1 \in Nat \ {0} /\ m \in Nat /\ m - 1 < m
    BY <1>4
  <2>2. m - 1 \notin Bad
    <3> HIDE DEF Bad
    <3> QED BY <1>2, <2>1
  <2>3. PICK f : Breaking(at, values, m - 1, f)
    BY <2>1, <2>2
  <2>4. PICK new : new = BreakAfter(at, values, f[m - 1])
    OBVIOUS
  <2> DEFINE g == [i \in 1..m |-> IF i = m THEN new ELSE f[i]]
  <2>5. g[m - 1] = f[m - 1] /\ \A i \in 1..(m - 1) : g[i] = f[i]
    <3>1. \A i \in 1..(m - 1) : i \in 1..m /\ i # m
      BY ONLY <2>1
    <3>2. \A i \in 1..(m - 1) : g[i] = f[i]
      BY ONLY <3>1
    <3>3. m - 1 \in 1..(m - 1)
      BY ONLY <2>1
    <3> QED BY ONLY <3>2, <3>3
  <2>6. \A i \in 1..(m - 1) : f[i] = IF i = 1 THEN Mean(at, values) ELSE BreakAfter(at, values, f[i - 1])
    BY <2>3, Zenon DEF Breaking
  <2>7. ASSUME NEW i \in 1..m
        PROVE  g[i] = IF i = 1 THEN Mean(at, values) ELSE BreakAfter(at, values, g[i - 1])
    <3>1. CASE i = m
      <4>1. g[i] = new
        BY ONLY <3>1, i \in 1..m
      <4> HIDE DEF g
      <4> QED BY <1>4, <2>4, <2>5, <3>1, <4>1
    <3>2. CASE i # m
      <4>1. i \in 1..(m - 1) /\ (i # 1 => i - 1 \in 1..(m - 1))
        BY <2>1, <3>2
      <4>2. g[i] = f[i] /\ (i # 1 => g[i - 1] = f[i - 1])
        <5> HIDE DEF g
        <5> QED BY <2>5, <4>1
      <4>3. f[i] = IF i = 1 THEN Mean(at, values) ELSE BreakAfter(at, values, f[i - 1])
        BY <2>6, <4>1
      <4> HIDE DEF g
      <4> QED BY <4>2, <4>3
    <3> QED BY <3>1, <3>2
  <2>8. g = [i \in 1..m |-> IF i = 1 THEN Mean(at, values) ELSE BreakAfter(at, values, g[i - 1])]
    <3>1. g = [i \in 1..m |-> g[i]]
      OBVIOUS
    <3> HIDE DEF g
    <3> QED BY <2>7, <3>1
  <2>9. Breaking(at, values, m, g)
    <3> HIDE DEF g
    <3> QED BY <2>8, Zenon DEF Breaking
  <2> HIDE DEF g
  <2> QED BY <2>9
<1> QED BY <1>3, <1>4

LEMMA TailsAre ==
  ASSUME NEW at, NEW values, NEW breaks \in Nat \ {0}
  PROVE  Breaking(at, values, breaks, heads_and_tails_breaks(at, values, breaks))
<1> DEFINE it == CHOOSE reply : Breaking(at, values, breaks, reply)
<1>1. Breaking(at, values, breaks, it)
  BY BreakingExists
<1>2. heads_and_tails_breaks(at, values, breaks) = it
  BY Zenon DEF heads_and_tails_breaks, Breaking, BreakAfter, HeadsOf, ValuesOfRows
<1> QED BY <1>1, <1>2

LEMMA BreakAfterIs ==
  ASSUME NEW at, NEW values, IsSample(at, values), NEW b, IsSplitting(b), InRange(b, at, values)
  PROVE  /\ IsSplitting(BreakAfter(at, values, b)) /\ InRange(BreakAfter(at, values, b), at, values)
         /\ ~Less(BreakAfter(at, values, b), b)
         /\ HeadsOf(at, values, b) # {} => HeadsOf(at, values, BreakAfter(at, values, b)) # HeadsOf(at, values, b)
<1>1. PICK high : high = Max(ValuesOfRows(at, values))
  OBVIOUS
<1>2. high \in ValuesOfRows(at, values) /\ high \in Int /\ \A i \in at : values[i] <= high
  <2>1. /\ ValuesOfRows(at, values) \in SUBSET Int /\ high \in ValuesOfRows(at, values)
        /\ \A v \in ValuesOfRows(at, values) : v <= high
    BY <1>1, SampleIs
  <2>2. \A i \in at : values[i] \in ValuesOfRows(at, values)
    BY DEF ValuesOfRows
  <2> QED BY ONLY <2>1, <2>2
<1>3. \A i \in at : values[i] \in Int
  BY DEF IsSample
<1>4. PICK n, d : n = b[1] /\ d = b[2] /\ n \in Int /\ d \in Nat \ {0}
  BY DEF IsSplitting
<1>5. PICK A : A = HeadsOf(at, values, b)
  OBVIOUS
<1>6. CASE A = {}
  <2>1. BreakAfter(at, values, b) = <<high, 1>>
    BY ONLY <1>1, <1>5, <1>6 DEF BreakAfter
  <2>2. IsSplitting(<<high, 1>>)
    BY ONLY <1>2 DEF IsSplitting
  <2>3. InRange(<<high, 1>>, at, values)
    BY <1>2, AValueIsWithin
  <2>4. PICK l \in at : ~Less(<<values[l], 1>>, b)
    BY DEF InRange
  <2>5. PICK v : v = values[l] /\ v \in Int /\ v <= high
    BY <1>2, <1>3
  <2>6. n <= v * d /\ v * d \in Int
    <3>1. v * d \in Int
      BY ONLY <1>4, <2>5
    <3>2. ~(v * d < n * 1)
      BY ONLY <1>4, <2>4, <2>5 DEF Less
    <3> QED BY ONLY <1>4, <3>1, <3>2
  <2>7. v * d <= high * d /\ high * d \in Int
    BY ONLY <1>2, <1>4, <2>5, TimesGrows
  <2>8. ~Less(<<high, 1>>, b)
    BY ONLY <1>4, <2>6, <2>7 DEF Less
  <2> QED BY ONLY <1>5, <1>6, <2>1, <2>2, <2>3, <2>8
<1>7. CASE A # {}
  <2>1. A \in SUBSET at /\ IsFiniteSet(A) /\ \A i \in A : values[i] \in Int
    <3>1. A \in SUBSET at
      BY <1>5 DEF HeadsOf
    <3> QED BY <1>3, <3>1, FS_Subset DEF IsSample
  <2>2. PICK new : new = Mean(A, values)
    OBVIOUS
  <2>3. BreakAfter(at, values, b) = new
    BY ONLY <1>5, <1>7, <2>2 DEF BreakAfter
  <2>4. /\ IsSplitting(new) /\ InRange(new, A, values)
        /\ \E i \in A : ~Less(new, <<values[i], 1>>)
        /\ new = <<SumOver(values, A), Cardinality(A)>>
    BY <1>7, <2>1, <2>2, MeanIs
  <2>5. InRange(new, at, values)
    BY ONLY <2>1, <2>4 DEF InRange
  <2>6. HeadsOf(at, values, new) # A
    BY ONLY <2>4 DEF HeadsOf
  <2>7. PICK m : m = high * d /\ m \in Int
    BY ONLY <1>2, <1>4
  <2>8. d \in Nat
    BY ONLY <1>4
  <2>9. \A i \in A : values[i] \in Int /\ n <= values[i] * d /\ values[i] * d <= m
    <3> TAKE i \in A
    <3>1. PICK v : v = values[i] /\ v \in Int /\ v <= high
      BY <1>2, <2>1
    <3>2. Less(b, <<values[i], 1>>)
      BY ONLY <1>5, i \in A DEF HeadsOf
    <3>3. n * 1 < v * d
      BY ONLY <1>4, <3>1, <3>2 DEF Less
    <3>4. v * d \in Int /\ v * d <= high * d
      BY ONLY <1>2, <2>8, <3>1, TimesGrows
    <3> QED BY ONLY <1>4, <2>7, <3>1, <3>3, <3>4
  <2>10. n * Cardinality(A) <= SumOver(values, A) * d
    BY <1>4, <2>1, <2>7, <2>8, <2>9, SumIsBetween
  <2>11. PICK u, c : u = SumOver(values, A) /\ c = Cardinality(A) /\ u \in Int /\ c \in Nat
    BY <2>1, SumIsNumber, FS_CardinalityType
  <2>12. n * c <= u * d /\ n * c \in Int /\ u * d \in Int
    BY ONLY <1>4, <2>8, <2>10, <2>11
  <2>13. ~Less(new, b)
    BY ONLY <1>4, <2>4, <2>11, <2>12 DEF Less
  <2> QED BY ONLY <1>5, <2>3, <2>4, <2>5, <2>6, <2>13
<1> QED BY <1>6, <1>7

TailsShrink(cls, at, values, breaks) ==
  \A k \in 2..breaks : HeadsOf(at, values, cls[k - 1]) # {} => HeadsOf(at, values, cls[k]) # HeadsOf(at, values, cls[k - 1])

LEMMA TailsSplit ==
  ASSUME NEW at, NEW values, IsSample(at, values), NEW breaks \in Nat \ {0}, NEW cls,
         cls = heads_and_tails_breaks(at, values, breaks)
  PROVE  Splits(cls, at, values, breaks) /\ TailsShrink(cls, at, values, breaks)
<1>1. Breaking(at, values, breaks, cls)
  BY TailsAre
<1>2. \A k \in 1..breaks : cls[k] = IF k = 1 THEN Mean(at, values) ELSE BreakAfter(at, values, cls[k - 1])
  BY <1>1, Zenon DEF Breaking
<1>3. Len(cls) = breaks
  BY <1>1 DEF Breaking
<1> DEFINE Good(k) == IsSplitting(cls[k]) /\ InRange(cls[k], at, values)
           Bad == {k \in 1..breaks : ~Good(k)}
<1>4. Bad = {}
  <2>1. SUFFICES ASSUME Bad # {} PROVE FALSE
    OBVIOUS
  <2>2. PICK k \in Bad : \A h \in Bad : k <= h
    <3>1. Bad \in SUBSET Nat
      OBVIOUS
    <3> HIDE DEF Bad
    <3> QED BY <2>1, <3>1, LeastExists
  <2>3. k \in 1..breaks /\ k \in Nat /\ ~Good(k)
    BY <2>2
  <2>4. CASE k = 1
    <3>1. cls[k] = Mean(at, values)
      BY <1>2, <2>3, <2>4
    <3>2. IsSplitting(Mean(at, values)) /\ InRange(Mean(at, values), at, values)
      BY MeanIs DEF IsSample
    <3> QED BY ONLY <2>3, <3>1, <3>2
  <2>5. CASE k # 1
    <3>1. PICK h : h = k - 1 /\ h \in 1..breaks /\ h < k
      BY <2>3, <2>5
    <3>2. h \notin Bad
      <4> HIDE DEF Bad
      <4> QED BY <2>2, <2>3, <3>1
    <3>3. Good(h)
      BY ONLY <3>1, <3>2
    <3>4. cls[k] = BreakAfter(at, values, cls[h])
      BY ONLY <1>2, <2>3, <2>5, <3>1
    <3>5. IsSplitting(cls[k]) /\ InRange(cls[k], at, values)
      BY <3>3, <3>4, BreakAfterIs
    <3> QED BY ONLY <2>3, <3>5
  <2> QED BY <2>4, <2>5
<1>5. \A k \in 1..breaks : IsSplitting(cls[k]) /\ InRange(cls[k], at, values)
  BY ONLY <1>4
<1>6. ASSUME NEW k \in 1..breaks, k > 1
      PROVE  /\ ~Less(cls[k], cls[k - 1])
             /\ HeadsOf(at, values, cls[k - 1]) # {} => HeadsOf(at, values, cls[k]) # HeadsOf(at, values, cls[k - 1])
  <2>1. PICK h : h = k - 1 /\ h \in 1..breaks /\ k # 1
    BY <1>6
  <2>2. cls[k] = BreakAfter(at, values, cls[h])
    BY ONLY <1>2, <2>1, k \in 1..breaks
  <2>3. IsSplitting(cls[h]) /\ InRange(cls[h], at, values)
    BY ONLY <1>5, <2>1
  <2>4. PICK b : b = cls[h]
    OBVIOUS
  <2>5. /\ ~Less(BreakAfter(at, values, b), b)
        /\ HeadsOf(at, values, b) # {} => HeadsOf(at, values, BreakAfter(at, values, b)) # HeadsOf(at, values, b)
    BY <2>3, <2>4, BreakAfterIs
  <2> QED BY ONLY <2>1, <2>2, <2>4, <2>5
<1>7. \A k \in 2..breaks : k \in 1..breaks /\ k > 1
  OBVIOUS
<1>8. Splits(cls, at, values, breaks)
  BY ONLY <1>3, <1>5, <1>6 DEF Splits
<1>9. TailsShrink(cls, at, values, breaks)
  BY ONLY <1>6, <1>7 DEF TailsShrink
<1> QED BY <1>8, <1>9

(* get_statistic_histogram.                                                *)
KnownAt(values) == {i \in DOMAIN values : values[i] # Null}

Lowest_value(values) == Min(Known_values(values))

Highest_value(values) == Max(Known_values(values))

BucketOf(values, bins, v) == width_bucket(v, Lowest_value(values), Highest_value(values) + 1, bins)

InBucket(values, bins, b) == {i \in DOMAIN values : values[i] # Null /\ BucketOf(values, bins, values[i]) = b}

BoundOf(values, bins, k) ==
  Lowest_value(values) + (k * (Highest_value(values) - Lowest_value(values))) \div bins

BucketCounts(values, bins) == [b \in 1..bins |-> Cardinality(InBucket(values, bins, b))]

LEMMA HistogramIs ==
  ASSUME NEW values, NEW bins
  PROVE  get_statistic_histogram(values, bins)
           = [bins |-> [b \in 1..bins |-> [range |-> <<BoundOf(values, bins, b - 1), BoundOf(values, bins, b)>>,
                                           count |-> BucketCounts(values, bins)[b]]],
              missing_count |-> Len(values) - SumOver(BucketCounts(values, bins), 1..bins)]
BY Zenon DEF get_statistic_histogram, BoundOf, BucketCounts, InBucket, BucketOf, Lowest_value, Highest_value, SumOver

LEMMA RangeIs ==
  ASSUME NEW values, IsColumn(values), Known_values(values) # {}
  PROVE  /\ Lowest_value(values) \in Int /\ Highest_value(values) \in Int
         /\ Lowest_value(values) <= Highest_value(values)
         /\ \A i \in KnownAt(values) : /\ values[i] \in Int /\ Lowest_value(values) <= values[i]
                                       /\ values[i] <= Highest_value(values)
         /\ IsFiniteSet(KnownAt(values)) /\ KnownAt(values) \in SUBSET DOMAIN values
<1>1. PICK vs : vs = Known_values(values)
  OBVIOUS
<1>2. vs \in SUBSET Int /\ IsFiniteSet(vs) /\ vs # {}
  BY <1>1, ColumnIs
<1>3. Min(vs) \in vs /\ Max(vs) \in vs /\ \A v \in vs : Min(vs) <= v /\ v <= Max(vs)
  BY <1>2, LeastOfNumbers, GreatestIs
<1>4. PICK low : low = Lowest_value(values)
  OBVIOUS
<1>5. PICK high : high = Highest_value(values)
  OBVIOUS
<1>6. low \in vs /\ high \in vs /\ \A v \in vs : low <= v /\ v <= high
  BY ONLY <1>1, <1>3, <1>4, <1>5 DEF Lowest_value, Highest_value
<1>7. \A i \in KnownAt(values) : values[i] \in vs
  BY <1>1 DEF KnownAt, Known_values, Range
<1>8. KnownAt(values) \in SUBSET DOMAIN values
  BY DEF KnownAt
<1>9. IsFiniteSet(KnownAt(values))
  BY <1>8, ColumnIs, FS_Subset
<1> QED BY ONLY <1>2, <1>4, <1>5, <1>6, <1>7, <1>8, <1>9

(* A bucket, by what it is compared with.                                  *)
LEMMA BucketIs ==
  ASSUME NEW values, IsColumn(values), Known_values(values) # {}, NEW bins \in Nat \ {0},
         NEW i \in KnownAt(values), NEW low, low = Lowest_value(values), NEW r, r = Highest_value(values) - low
  PROVE  /\ BucketOf(values, bins, values[i]) \in 1..bins
         /\ \A k \in Nat : BucketOf(values, bins, values[i]) <= k <=> (values[i] - low) * bins < k * (r + 1)
         /\ r \in Nat /\ low \in Int /\ values[i] - low \in 0..r
<1>1. PICK high : high = Highest_value(values)
  OBVIOUS
<1>2. PICK v : v = values[i]
  OBVIOUS
<1>3. low \in Int /\ high \in Int /\ v \in Int /\ low <= v /\ v <= high /\ r = high - low
  BY <1>1, <1>2, RangeIs
<1>4. r \in Nat /\ v - low \in 0..r
  BY ONLY <1>3
<1>5. PICK c : c = high + 1 - low /\ c \in Nat \ {0} /\ c = r + 1
  BY ONLY <1>3
<1>6. PICK u : u = v - low /\ u \in Nat /\ u <= r
  BY ONLY <1>4
<1>7. PICK a : a = u * bins /\ a \in Nat
  BY ONLY <1>6, bins \in Nat \ {0}
<1>8. PICK d : d = a \div c
  OBVIOUS
<1>9. d \in Int /\ \A q \in Int : q <= d <=> q * c <= a
  BY <1>5, <1>7, <1>8, QuotientIs
<1>10. PICK b : b = BucketOf(values, bins, v)
  OBVIOUS
<1>11. b = d + 1
  <2>1. PICK top : top = high + 1
    OBVIOUS
  <2>2. b = width_bucket(v, low, top, bins)
    BY ONLY <1>1, <1>10, <2>1, low = Lowest_value(values) DEF BucketOf
  <2>3. b = ((v - low) * bins) \div (top - low) + 1
    BY ONLY <2>2, Zenon DEF width_bucket
  <2>4. top - low = c /\ (v - low) * bins = a
    <3>1. top - low = c
      BY ONLY <1>3, <1>5, <2>1
    <3>2. (v - low) * bins = a
      BY ONLY <1>6, <1>7, Zenon
    <3> QED BY <3>1, <3>2
  <2> QED BY ONLY <1>8, <2>3, <2>4, Zenon
<1>12. ASSUME NEW k \in Nat PROVE b <= k <=> a < k * c
  <2>1. k <= d <=> k * c <= a
    BY ONLY <1>9, k \in Nat
  <2>2. k * c \in Int
    BY ONLY <1>5, k \in Nat
  <2> QED BY ONLY <1>7, <1>9, <1>11, <2>1, <2>2, k \in Nat
<1>13. 1 <= b
  <2>1. 0 * c <= a
    BY ONLY <1>5, <1>7
  <2>2. 0 <= d
    BY ONLY <1>9, <2>1
  <2> QED BY ONLY <1>9, <1>11, <2>2
<1>14. b <= bins
  <2>1. u < c /\ c \in Int /\ u \in Int /\ bins \in Nat /\ u + 1 <= c
    BY ONLY <1>4, <1>5, <1>6, bins \in Nat \ {0}
  <2>2. PICK w : w = u + 1 /\ w \in Int /\ w <= c
    BY ONLY <2>1
  <2>3. w * bins <= c * bins /\ w * bins \in Int /\ c * bins \in Int
    BY ONLY <2>1, <2>2, TimesGrows
  <2>4. w * bins = u * bins + bins
    BY ONLY <2>1, <2>2
  <2>5. a < bins * c
    <3>1. bins * c = c * bins
      BY ONLY <2>1
    <3> QED BY ONLY <1>7, <2>3, <2>4, <3>1, bins \in Nat \ {0}
  <2> QED BY ONLY <1>12, <2>1, <2>5
<1>15. b \in 1..bins
  BY ONLY <1>9, <1>11, <1>13, <1>14, bins \in Nat \ {0}
<1> QED BY ONLY <1>2, <1>3, <1>4, <1>5, <1>6, <1>7, <1>10, <1>12, <1>15

Upto_bucket(values, bins, k) == {i \in KnownAt(values) : BucketOf(values, bins, values[i]) <= k}

LEMMA BucketsAreCounted ==
  ASSUME NEW values, IsColumn(values), Known_values(values) # {}, NEW bins \in Nat \ {0}, NEW k \in 0..bins
  PROVE  SumOver(BucketCounts(values, bins), 1..k) = Cardinality(Upto_bucket(values, bins, k))
<1>1. PICK M : M = 1..k /\ IsFiniteSet(M)
  BY FS_Interval
<1>2. PICK of : of = [b \in M |-> InBucket(values, bins, b)]
  OBVIOUS
<1>3. \A b \in M : of[b] = InBucket(values, bins, b)
  BY ONLY <1>2
<1>4. \A i \in KnownAt(values) : BucketOf(values, bins, values[i]) \in 1..bins
  <2> TAKE i \in KnownAt(values)
  <2>1. PICK low : low = Lowest_value(values)
    OBVIOUS
  <2>2. PICK r : r = Highest_value(values) - low
    OBVIOUS
  <2> QED BY <2>1, <2>2, BucketIs
<1>5. \A b : InBucket(values, bins, b) = {i \in KnownAt(values) : BucketOf(values, bins, values[i]) = b}
  BY ONLY TRUE DEF InBucket, KnownAt
<1>6. \A b \in M : IsFiniteSet(of[b])
  <2>1. IsFiniteSet(KnownAt(values))
    BY RangeIs
  <2>2. \A b : InBucket(values, bins, b) \in SUBSET KnownAt(values)
    BY ONLY <1>5
  <2> QED BY <1>3, <2>1, <2>2, FS_Subset
<1>7. \A b, c \in M : b = c \/ of[b] \cap of[c] = {}
  BY ONLY <1>3, <1>5
<1>8. PICK sizes : sizes = BucketCounts(values, bins)
  OBVIOUS
<1>9. \A b \in M : sizes[b] = Cardinality(of[b])
  <2>1. \A b \in M : b \in 1..bins
    BY <1>1
  <2> QED BY ONLY <1>3, <1>8, <2>1 DEF BucketCounts
<1>10. Cardinality(UNION {of[b] : b \in M}) = SumOver(sizes, M)
  BY ONLY <1>1, <1>6, <1>7, <1>9, ApartAreCounted
<1>11. UNION {of[b] : b \in M} = Upto_bucket(values, bins, k)
  <2>1. \A i \in KnownAt(values) : (\E b \in M : BucketOf(values, bins, values[i]) = b)
                                     <=> BucketOf(values, bins, values[i]) <= k
    <3> TAKE i \in KnownAt(values)
    <3>1. BucketOf(values, bins, values[i]) \in 1..bins
      BY <1>4
    <3> QED BY ONLY <1>1, <3>1, k \in 0..bins, bins \in Nat \ {0}
  <2> QED BY ONLY <1>3, <1>5, <2>1 DEF Upto_bucket
<1> QED BY ONLY <1>1, <1>8, <1>10, <1>11

(* The bounds that are shown, in whole numbers.                            *)
LEMMA BoundIs ==
  ASSUME NEW values, IsColumn(values), Known_values(values) # {}, NEW bins \in Nat \ {0}, NEW k \in 1..bins,
         NEW i \in KnownAt(values)
  PROVE  /\ BoundOf(values, bins, k) \in Int
         /\ values[i] < BoundOf(values, bins, k) => BucketOf(values, bins, values[i]) <= k
         /\ BucketOf(values, bins, values[i]) <= k => values[i] <= BoundOf(values, bins, k) + 1
<1>1. PICK low : low = Lowest_value(values)
  OBVIOUS
<1>2. PICK r : r = Highest_value(values) - low
  OBVIOUS
<1>3. PICK v : v = values[i]
  OBVIOUS
<1>4. PICK bucket : bucket = BucketOf(values, bins, v)
  OBVIOUS
<1>5. /\ \A h \in Nat : bucket <= h <=> (v - low) * bins < h * (r + 1)
      /\ r \in Nat /\ low \in Int /\ v - low \in 0..r
  BY <1>1, <1>2, <1>3, <1>4, BucketIs
<1>6. k \in Nat /\ k <= bins /\ bins \in Nat
  OBVIOUS
<1>7. PICK a : a = k * r /\ a \in Nat
  BY ONLY <1>5, <1>6
<1>8. PICK d : d = a \div bins
  OBVIOUS
<1>9. d \in Int /\ \A q \in Int : q <= d <=> q * bins <= a
  BY <1>7, <1>8, QuotientIs
<1>10. PICK bound : bound = BoundOf(values, bins, k)
  OBVIOUS
<1>11. bound = low + d
  BY ONLY <1>1, <1>2, <1>7, <1>8, <1>10 DEF BoundOf
<1>12. v \in Int
  BY <1>3, RangeIs
<1>13. PICK u : u = v - low /\ u \in Int
  BY ONLY <1>5, <1>12
<1>14. k * (r + 1) = a + k
  BY ONLY <1>5, <1>6, <1>7, TimesDistributes
<1>15. bucket <= k <=> u * bins < a + k
  BY ONLY <1>5, <1>6, <1>13, <1>14
<1>16. u * bins \in Int
  BY ONLY <1>6, <1>13
<1>17. ASSUME v < bound PROVE bucket <= k
  <2>1. PICK w : w = u + 1 /\ w \in Int /\ w <= d
    BY ONLY <1>5, <1>9, <1>11, <1>12, <1>13, <1>17
  <2>2. w * bins <= a
    BY ONLY <1>9, <2>1
  <2>3. w * bins = u * bins + bins
    BY ONLY <1>6, <1>13, <2>1
  <2> QED BY ONLY <1>6, <1>7, <1>15, <1>16, <2>2, <2>3
<1>18. ASSUME bucket <= k PROVE v <= bound + 1
  <2>1. u * bins < a + k
    BY ONLY <1>15, <1>18
  <2>2. PICK w : w = u - 1 /\ w \in Int
    BY ONLY <1>13
  <2>3. w * bins = u * bins - bins
    BY ONLY <1>6, <1>13, <2>2
  <2>4. w * bins <= a
    BY ONLY <1>6, <1>7, <1>16, <2>1, <2>3
  <2>5. w <= d
    BY ONLY <1>9, <2>2, <2>4
  <2> QED BY ONLY <1>5, <1>9, <1>11, <1>12, <1>13, <2>2, <2>5
<1>19. bound \in Int
  BY ONLY <1>5, <1>9, <1>11
<1> QED BY ONLY <1>3, <1>4, <1>10, <1>17, <1>18, <1>19

(* The sum over bins, as it is written there.                              *)
BinSum(table, S) == MapThenSumSet(LAMBDA b : table[b].count, S)

LEMMA BinSumIs ==
  ASSUME NEW table, NEW S, IsFiniteSet(S), NEW sizes, \A b \in S : sizes[b] = table[b].count
  PROVE  BinSum(table, S) = SumOver(sizes, S)
<1> DEFINE it == CHOOSE sm : sm = [s \in SUBSET S |-> IF s = {} THEN 0 ELSE table[Picked(s)].count + sm[Rest(s)]]
<1>1. ASSUME NEW sm
      PROVE  Summing(sizes, S, sm) <=> sm = [s \in SUBSET S |-> IF s = {} THEN 0 ELSE table[Picked(s)].count + sm[Rest(s)]]
  <2>1. \A s \in SUBSET S : s # {} => sizes[Picked(s)] = table[Picked(s)].count
    BY RestIsSmaller
  <2> QED BY <2>1 DEF Summing
<1>2. Summing(sizes, S, it)
  BY <1>1, SummingExists
<1>3. BinSum(table, S) = it[S]
  BY Zenon DEF BinSum, MapThenSumSet, MapThenFoldSet, Picked, Rest
<1> HIDE DEF it
<1> QED BY <1>2, <1>3, SumOfSubset

HistogramCovers(values, bins) ==
  LET histogram == get_statistic_histogram(values, bins)
      below(k) == {i \in DOMAIN values : values[i] # Null /\ values[i] <= histogram.bins[k].range[2]}
      counted(k) == MapThenSumSet(LAMBDA b : histogram.bins[b].count, 1..k)
  IN /\ histogram.missing_count = Count(values, Null)
     /\ \A k \in 1..bins :
          /\ counted(k) >= Cardinality({i \in below(k) : values[i] < histogram.bins[k].range[2]})
          /\ counted(k) <= Cardinality({i \in DOMAIN values : values[i] # Null
                              /\ values[i] <= histogram.bins[k].range[2] + 1})

LEMMA HistogramsCover ==
  ASSUME NEW values, IsColumn(values), Known_values(values) # {}, NEW bins \in Nat \ {0}
  PROVE  HistogramCovers(values, bins)
<1> DEFINE h == get_statistic_histogram(values, bins)
<1>1. PICK table : table = h.bins
  OBVIOUS
<1>2. PICK sizes : sizes = BucketCounts(values, bins)
  OBVIOUS
<1>3. h = [bins |-> [b \in 1..bins |-> [range |-> <<BoundOf(values, bins, b - 1), BoundOf(values, bins, b)>>,
                                         count |-> sizes[b]]],
           missing_count |-> Len(values) - SumOver(sizes, 1..bins)]
  BY <1>2, HistogramIs
<1>4. \A b \in 1..bins : table[b].count = sizes[b] /\ table[b].range[2] = BoundOf(values, bins, b)
  <2> HIDE DEF h
  <2> QED BY ONLY <1>1, <1>3
<1>5. h.missing_count = Count(values, Null)
  <2>1. h.missing_count = Len(values) - SumOver(sizes, 1..bins)
    <3> HIDE DEF h
    <3> QED BY ONLY <1>3
  <2>2. PICK k : k = bins /\ k \in 0..bins
    OBVIOUS
  <2>3. SumOver(sizes, 1..k) = Cardinality(Upto_bucket(values, bins, k))
    BY <1>2, <2>2, BucketsAreCounted
  <2>4. Upto_bucket(values, bins, k) = KnownAt(values)
    <3>1. ASSUME NEW i \in KnownAt(values) PROVE BucketOf(values, bins, values[i]) <= k
      <4>1. PICK low : low = Lowest_value(values)
        OBVIOUS
      <4>2. PICK r : r = Highest_value(values) - low
        OBVIOUS
      <4>3. BucketOf(values, bins, values[i]) \in 1..bins
        BY <4>1, <4>2, BucketIs
      <4> QED BY ONLY <2>2, <4>3, bins \in Nat \ {0}
    <3> QED BY ONLY <3>1 DEF Upto_bucket
  <2>5. PICK D : D = DOMAIN values /\ IsFiniteSet(D) /\ Cardinality(D) = Len(values) /\ Len(values) \in Nat
    BY ColumnIs
  <2>6. {i \in D : values[i] = Null} = D \ KnownAt(values) /\ D \cap KnownAt(values) = KnownAt(values)
    BY ONLY <2>5 DEF KnownAt
  <2>7. Cardinality(D \ KnownAt(values)) = Cardinality(D) - Cardinality(D \cap KnownAt(values))
    BY <2>5, FS_Difference
  <2>8. Count(values, Null) = Cardinality({i \in D : values[i] = Null})
    BY ONLY <2>5 DEF Count
  <2> HIDE DEF h
  <2> QED BY ONLY <2>1, <2>2, <2>3, <2>4, <2>5, <2>6, <2>7, <2>8
<1>6. ASSUME NEW k \in 1..bins
      PROVE  /\ BinSum(table, 1..k) >= Cardinality({i \in KnownAt(values) : values[i] < BoundOf(values, bins, k)})
             /\ BinSum(table, 1..k) <= Cardinality({i \in KnownAt(values) : values[i] <= BoundOf(values, bins, k) + 1})
  <2>1. PICK S : S = 1..k /\ IsFiniteSet(S)
    BY FS_Interval
  <2>2. \A b \in S : sizes[b] = table[b].count
    <3>1. \A b \in S : b \in 1..bins
      BY <2>1
    <3> QED BY ONLY <1>4, <3>1
  <2>3. BinSum(table, S) = SumOver(sizes, S)
    BY <2>1, <2>2, BinSumIs
  <2>4. SumOver(sizes, 1..k) = Cardinality(Upto_bucket(values, bins, k))
    <3>1. k \in 0..bins
      OBVIOUS
    <3> QED BY <1>2, <3>1, BucketsAreCounted
  <2>5. PICK x : x = BoundOf(values, bins, k)
    OBVIOUS
  <2>6. PICK U : U = Upto_bucket(values, bins, k)
    OBVIOUS
  <2>7. PICK L : L = {i \in KnownAt(values) : values[i] < x}
    OBVIOUS
  <2>8. PICK H : H = {i \in KnownAt(values) : values[i] <= x + 1}
    OBVIOUS
  <2>9. L \subseteq U /\ U \subseteq H
    <3>1. \A i \in KnownAt(values) : /\ values[i] < x => BucketOf(values, bins, values[i]) <= k
                                     /\ BucketOf(values, bins, values[i]) <= k => values[i] <= x + 1
      BY <2>5, BoundIs
    <3>2. \A i \in KnownAt(values) : BucketOf(values, bins, values[i]) \in Int /\ values[i] \in Int /\ x \in Int
      <4> TAKE i \in KnownAt(values)
      <4>1. PICK low : low = Lowest_value(values)
        OBVIOUS
      <4>2. PICK r : r = Highest_value(values) - low
        OBVIOUS
      <4>3. BucketOf(values, bins, values[i]) \in 1..bins
        BY <4>1, <4>2, BucketIs
      <4>4. BucketOf(values, bins, values[i]) \in Int
        BY ONLY <4>3
      <4> QED BY <2>5, <4>4, BoundIs, RangeIs
    <3>3. k \in Int
      OBVIOUS
    <3>4. \A i \in L : i \in U
      BY ONLY <2>6, <2>7, <3>1, <3>2, <3>3 DEF Upto_bucket
    <3>5. \A i \in U : i \in H
      BY ONLY <2>6, <2>8, <3>1, <3>2, <3>3 DEF Upto_bucket
    <3> QED BY ONLY <3>4, <3>5
  <2>10. IsFiniteSet(H)
    <3>1. IsFiniteSet(KnownAt(values)) /\ H \in SUBSET KnownAt(values)
      BY <2>8, RangeIs
    <3> QED BY <3>1, FS_Subset
  <2>11. /\ IsFiniteSet(U) /\ Cardinality(U) <= Cardinality(H) /\ Cardinality(U) \in Nat /\ Cardinality(H) \in Nat
    BY <2>9, <2>10, FS_Subset, FS_CardinalityType
  <2>12. Cardinality(L) <= Cardinality(U) /\ Cardinality(L) \in Nat
    BY <2>9, <2>11, FS_Subset, FS_CardinalityType
  <2> QED BY ONLY <2>1, <2>3, <2>4, <2>5, <2>6, <2>7, <2>8, <2>11, <2>12
<1>7. ASSUME NEW k \in 1..bins
      PROVE  LET t == h.bins[k].range[2]
             IN /\ {i \in {j \in DOMAIN values : values[j] # Null /\ values[j] <= t} : values[i] < t}
                     = {i \in KnownAt(values) : values[i] < BoundOf(values, bins, k)}
                /\ {i \in DOMAIN values : values[i] # Null /\ values[i] <= t + 1}
                     = {i \in KnownAt(values) : values[i] <= BoundOf(values, bins, k) + 1}
  <2>1. PICK x : x = BoundOf(values, bins, k)
    OBVIOUS
  <2>2. PICK t : t = h.bins[k].range[2]
    OBVIOUS
  <2>3. t = x
    <3> HIDE DEF h
    <3> QED BY ONLY <1>1, <1>4, <2>1, <2>2, k \in 1..bins
  <2>4. \A i \in KnownAt(values) : values[i] \in Int /\ x \in Int
    BY <2>1, RangeIs, BoundIs
  <2>5. {i \in {j \in DOMAIN values : values[j] # Null /\ values[j] <= t} : values[i] < t}
          = {i \in KnownAt(values) : values[i] < x}
    BY ONLY <2>3, <2>4 DEF KnownAt
  <2>6. {i \in DOMAIN values : values[i] # Null /\ values[i] <= t + 1} = {i \in KnownAt(values) : values[i] <= x + 1}
    BY ONLY <2>3, <2>4 DEF KnownAt
  <2> HIDE DEF h
  <2> QED BY ONLY <2>1, <2>2, <2>5, <2>6
<1>8. \A k : BinSum(table, 1..k) = MapThenSumSet(LAMBDA b : h.bins[b].count, 1..k)
  <2>1. \A k : BinSum(h.bins, 1..k) = MapThenSumSet(LAMBDA b : h.bins[b].count, 1..k)
    BY Zenon DEF BinSum
  <2> QED BY ONLY <1>1, <2>1, Zenon
<1> QED BY <1>5, <1>6, <1>7, <1>8, Zenon DEF HistogramCovers

(* Classes and bins cover the values of any column.                        *)
THEOREM AnyBreaksSplitTheValues ==
  ASSUME NEW values, IsColumn(values), NEW breaks \in Nat \ {0}
  PROVE  BreaksSplitTheValues(values, breaks)
<1>1. PICK at : at = Sized(values)
  OBVIOUS
<1>2. PICK q : q = quantile_breaks(at, values, breaks)
  OBVIOUS
<1>3. PICK e : e = equal_interval_breaks(at, values, breaks)
  OBVIOUS
<1>4. PICK t : t = heads_and_tails_breaks(at, values, breaks)
  OBVIOUS
<1>5. ASSUME at # {}
      PROVE  /\ Splits(q, at, values, breaks) /\ Splits(e, at, values, breaks) /\ Splits(t, at, values, breaks)
             /\ QuantilesShare(q, at, values, breaks) /\ TailsShrink(t, at, values, breaks)
  <2>1. IsSample(at, values)
    BY <1>1, <1>5, SizedAre DEF IsSample
  <2>2. breaks \in Nat
    OBVIOUS
  <2>3. Splits(q, at, values, breaks) /\ QuantilesShare(q, at, values, breaks)
    BY <1>2, <2>1, <2>2, QuantilesSplit, QuantilesAreShared
  <2>4. Splits(e, at, values, breaks)
    BY <1>3, <2>1, <2>2, EqualIntervalsSplit
  <2>5. Splits(t, at, values, breaks) /\ TailsShrink(t, at, values, breaks)
    BY <1>4, <2>1, TailsSplit
  <2> QED BY ONLY <2>3, <2>4, <2>5
<1> DEFINE cls(op) == get_class_breaks(values, op, breaks)
<1>6. /\ cls("quantile") = q /\ cls("equal_interval") = e /\ cls("heads_and_tails") = t
  <2>1. at = {i \in DOMAIN values : values[i] # Null /\ values[i] # 0}
    BY <1>1, Zenon DEF Sized
  <2>2. \A op : cls(op) = IF op = "quantile" THEN q ELSE IF op = "equal_interval" THEN e ELSE t
    BY <1>2, <1>3, <1>4, <2>1, Zenon DEF get_class_breaks
  <2> HIDE DEF cls
  <2> QED BY ONLY <2>2
<1>7. ASSUME at # {}, NEW op \in {"quantile", "equal_interval", "heads_and_tails"}
      PROVE  /\ Len(cls(op)) = breaks
             /\ \A k \in 1..breaks :
                  /\ \A i \in at : \E j, l \in at : /\ ~Less(cls(op)[k], <<values[j], 1>>)
                                                    /\ ~Less(<<values[l], 1>>, cls(op)[k])
                  /\ k > 1 => ~Less(cls(op)[k], cls(op)[k - 1])
  <2>1. PICK c : c = cls(op)
    OBVIOUS
  <2>2. c = q \/ c = e \/ c = t
    <3> HIDE DEF cls
    <3> QED BY <1>6, <2>1
  <2>3. Splits(c, at, values, breaks)
    BY ONLY <1>5, <1>7, <2>2
  <2> HIDE DEF cls
  <2> QED BY ONLY <2>1, <2>3 DEF Splits, InRange
<1>8. ASSUME at # {}
      PROVE  /\ \A k \in 1..(breaks + 1) :
                  (breaks + 1) * Cardinality({i \in at :
                      /\ k <= breaks => Less(<<values[i], 1>>, cls("quantile")[k])
                      /\ k > 1 => Less(cls("quantile")[k - 1], <<values[i], 1>>)}) <= Cardinality(at)
             /\ \A k \in 2..breaks :
                  {i \in at : Less(cls("heads_and_tails")[k - 1], <<values[i], 1>>)} # {}
                    => {i \in at : Less(cls("heads_and_tails")[k], <<values[i], 1>>)}
                         # {i \in at : Less(cls("heads_and_tails")[k - 1], <<values[i], 1>>)}
  <2> HIDE DEF cls
  <2>1. QuantilesShare(cls("quantile"), at, values, breaks) /\ TailsShrink(cls("heads_and_tails"), at, values, breaks)
    BY ONLY <1>5, <1>6, <1>8
  <2> QED BY ONLY <2>1, Zenon DEF QuantilesShare, TailsShrink, HeadsOf
<1>9. Known_values(values) # {} => HistogramCovers(values, breaks)
  BY HistogramsCover
<1>10. at = {i \in DOMAIN values : values[i] # Null /\ values[i] # 0}
  BY <1>1, Zenon DEF Sized
<1> DEFINE Classes(s) ==
             s # {} =>
               /\ \A op \in {"quantile", "equal_interval", "heads_and_tails"} :
                    /\ Len(cls(op)) = breaks
                    /\ \A k \in 1..breaks :
                         /\ \A i \in s : \E j, l \in s : /\ ~Less(cls(op)[k], <<values[j], 1>>)
                                                         /\ ~Less(<<values[l], 1>>, cls(op)[k])
                         /\ k > 1 => ~Less(cls(op)[k], cls(op)[k - 1])
               /\ \A k \in 1..(breaks + 1) :
                    (breaks + 1) * Cardinality({i \in s :
                        /\ k <= breaks => Less(<<values[i], 1>>, cls("quantile")[k])
                        /\ k > 1 => Less(cls("quantile")[k - 1], <<values[i], 1>>)}) <= Cardinality(s)
               /\ \A k \in 2..breaks :
                    {i \in s : Less(cls("heads_and_tails")[k - 1], <<values[i], 1>>)} # {}
                      => {i \in s : Less(cls("heads_and_tails")[k], <<values[i], 1>>)}
                           # {i \in s : Less(cls("heads_and_tails")[k - 1], <<values[i], 1>>)}
<1>11. Classes(at)
  <2> HIDE DEF cls
  <2> QED BY <1>7, <1>8, Zenon
<1>12. Classes({i \in DOMAIN values : values[i] # Null /\ values[i] # 0})
  <2> HIDE DEF Classes
  <2> QED BY ONLY <1>10, <1>11, Zenon
<1> QED BY <1>9, <1>12, Zenon DEF BreaksSplitTheValues, HistogramCovers

(* A statistic of pairs, if there are any.                                 *)
StatOf(op, S) == IF S = {} THEN Null ELSE get_statistics_sql(op, S)

EachWeighs(op, S) == [x \in S |-> IF op = "count" THEN 1 ELSE x[2].value]

LEMMA SummedStatistic ==
  ASSUME NEW S, IsFiniteSet(S), \A x \in S : x[2].value \in Int, NEW op \in {"count", "sum"},
         NEW T \in SUBSET S
  PROVE  get_statistics_sql(op, T) = SumOver(EachWeighs(op, S), T)
<1> DEFINE g == EachWeighs(op, S)
<1>1. IsFiniteSet(T)
  BY FS_Subset
<1>2. CASE op = "count"
  <2>1. \A x \in T : g[x] = 1
    BY <1>2 DEF EachWeighs
  <2>2. SumOver(g, T) = Cardinality(T)
    <3> HIDE DEF g
    <3> QED BY <1>1, <2>1, SumOfOnes
  <2> QED BY <1>2, <2>2 DEF get_statistics_sql
<1>3. CASE op = "sum"
  <2> DEFINE h == [x \in T |-> x[2].value]
  <2>1. \A x \in T : g[x] = h[x]
    BY <1>3 DEF EachWeighs
  <2>2. SumOver(g, T) = SumOver(h, T)
    <3> HIDE DEF g, h
    <3> QED BY <1>1, <2>1, SumAgrees
  <2>3. Valuing(T) = SumOver(h, T)
    BY <1>1, ValuingIsSum
  <2>4. get_statistics_sql(op, T) = Valuing(T)
    BY <1>3 DEF get_statistics_sql, Valuing
  <2> QED BY <2>2, <2>3, <2>4
<1> QED BY <1>2, <1>3

(* The least of a lot is one of it, below all of it; so with the greatest. *)
LEMMA BoundingStatistic ==
  ASSUME NEW S, IsFiniteSet(S), S # {}, \A x \in S : x[2].value \in Int
  PROVE  /\ \E x \in S : get_statistics_sql("min", S) = x[2].value
         /\ \A x \in S : get_statistics_sql("min", S) <= x[2].value
         /\ \E x \in S : get_statistics_sql("max", S) = x[2].value
         /\ \A x \in S : get_statistics_sql("max", S) >= x[2].value
<1> DEFINE vs == {x[2].value : x \in S}
           g == [x \in S |-> x[2].value]
<1>1. IsFiniteSet(vs) /\ vs # {} /\ vs \in SUBSET Int
  <2>1. vs = {g[x] : x \in S}
    OBVIOUS
  <2>2. IsFiniteSet({g[x] : x \in S})
    <3> HIDE DEF g
    <3> QED BY ImageIsFinite
  <2>3. IsFiniteSet(vs)
    BY <2>1, <2>2
  <2> QED BY <2>3
<1>2. get_statistics_sql("min", S) = Min(vs)
  BY DEF get_statistics_sql
<1>3. get_statistics_sql("max", S) = Max(vs)
  BY DEF get_statistics_sql
<1>4. Min(vs) \in vs /\ (\A y \in vs : Min(vs) <= y) /\ Max(vs) \in vs /\ (\A y \in vs : y <= Max(vs))
  <2> HIDE DEF vs
  <2> QED BY <1>1, LeastOfNumbers, GreatestIs
<1>5. PICK m, n : m = Min(vs) /\ n = Max(vs)
  OBVIOUS
<1>6. m \in Int /\ n \in Int
  BY ONLY <1>1, <1>4, <1>5
<1>7. (\E x \in S : m = x[2].value) /\ (\E x \in S : n = x[2].value)
  BY ONLY <1>4, <1>5
<1>8. \A x \in S : m <= x[2].value /\ x[2].value <= n
  BY ONLY <1>4, <1>5
<1>9. \A x \in S : n >= x[2].value
  BY ONLY <1>6, <1>8, \A x \in S : x[2].value \in Int
<1> HIDE DEF vs
<1> QED BY ONLY <1>2, <1>3, <1>5, <1>7, <1>8, <1>9

(* How a statistic is read from the statistics of parts.                   *)
ReadsAs(op, reading) ==
  \/ op \in {"count", "sum"} /\ reading = "sum"
  \/ op \in {"min", "max"} /\ reading = op

Keyed(key, portion, K) == {<<key[k], portion[k]>> : k \in K}

KeyedValue(key, portion, K) == [k \in K |-> <<key[k], [value |-> portion[k]]>>]

LEMMA StatOfKeyed ==
  ASSUME NEW K, NEW key, NEW portion, NEW reading, NEW L \in SUBSET K,
         \A k \in L : portion[k] # Null, \A k \in K \ L : portion[k] = Null
  PROVE  Stat(reading, Keyed(key, portion, K))
           = StatOf(reading, {KeyedValue(key, portion, L)[k] : k \in L})
<1> DEFINE pairs == Keyed(key, portion, K)
           known == {p \in pairs : p[2] # Null}
           valued == {<<p[1], [value |-> p[2]]>> : p \in known}
           f == KeyedValue(key, portion, L)
<1>1. known = {<<key[k], portion[k]>> : k \in L}
  BY DEF Keyed
<1>2. valued = {f[k] : k \in L}
  <2>1. valued = {<<key[k], [value |-> portion[k]]>> : k \in L}
    <3>1. ASSUME NEW v \in valued PROVE \E k \in L : v = <<key[k], [value |-> portion[k]]>>
      <4>1. PICK p \in known : v = <<p[1], [value |-> p[2]]>>
        OBVIOUS
      <4>2. PICK k \in L : p = <<key[k], portion[k]>>
        <5> HIDE DEF known
        <5> QED BY <1>1
      <4>3. p[1] = key[k] /\ p[2] = portion[k]
        BY <4>2
      <4> QED BY <4>1, <4>3
    <3>2. ASSUME NEW k \in L PROVE <<key[k], [value |-> portion[k]]>> \in valued
      <4>1. PICK p : p = <<key[k], portion[k]>>
        OBVIOUS
      <4>2. p \in known
        <5> HIDE DEF known
        <5> QED BY <1>1, <4>1
      <4>3. p[1] = key[k] /\ p[2] = portion[k]
        BY <4>1
      <4> HIDE DEF known
      <4> QED BY <4>2, <4>3
    <3> HIDE DEF known, valued
    <3> QED BY <3>1, <3>2
  <2> QED BY ONLY <2>1 DEF KeyedValue
<1>3. known = {} <=> {f[k] : k \in L} = {}
  <2> HIDE DEF known, f
  <2> QED BY <1>1
<1>4. Stat(reading, pairs) = IF known = {} THEN Null ELSE get_statistics_sql(reading, valued)
  BY Zenon DEF Stat
<1> HIDE DEF known, f, pairs, valued
<1>5. PICK T : T = {f[k] : k \in L}
  OBVIOUS
<1>6. Stat(reading, pairs) = StatOf(reading, T)
  BY ONLY <1>2, <1>3, <1>4, <1>5, Zenon DEF StatOf
<1> QED BY ONLY <1>5, <1>6 DEF f, pairs

(* The statistic of the parts' statistics is the statistic of the whole.   *)
IsParted(S, K, kind, key, portion, op) ==
  /\ IsFiniteSet(S) /\ \A x \in S : x[2].value \in Int
  /\ IsFiniteSet(K) /\ \A x \in S : kind[x] \in K
  /\ \A k, l \in K : key[k] = key[l] => k = l
  /\ \A k \in K : portion[k] = StatOf(op, PartOf(S, kind, k))

LEMMA StatisticOfStatistics ==
  ASSUME NEW S, NEW K, NEW kind, NEW key, NEW portion, NEW op, NEW reading,
         IsParted(S, K, kind, key, portion, op), ReadsAs(op, reading)
  PROVE  Stat(reading, Keyed(key, portion, K)) = StatOf(op, S)
<1>1. PICK L : L = {k \in K : PartOf(S, kind, k) # {}}
  OBVIOUS
<1>2. /\ IsFiniteSet(S) /\ \A x \in S : x[2].value \in Int
      /\ IsFiniteSet(K) /\ \A x \in S : kind[x] \in K
      /\ \A k, l \in K : key[k] = key[l] => k = l
      /\ \A k \in K : portion[k] = StatOf(op, PartOf(S, kind, k))
  BY DEF IsParted
<1>3. IsFiniteSet(L) /\ L \in SUBSET K /\ \A x \in S : kind[x] \in L
  <2>1. L \in SUBSET K
    BY <1>1
  <2>2. IsFiniteSet(L)
    BY <1>2, <2>1, FS_Subset
  <2>3. \A x \in S : x \in PartOf(S, kind, kind[x])
    BY DEF PartOf
  <2> QED BY <1>1, <1>2, <2>1, <2>2, <2>3
<1>4. ASSUME NEW k \in L
      PROVE  /\ portion[k] = get_statistics_sql(op, PartOf(S, kind, k)) /\ portion[k] \in Int
             /\ PartOf(S, kind, k) # {} /\ PartOf(S, kind, k) \in SUBSET S
             /\ IsFiniteSet(PartOf(S, kind, k))
  <2>1. PICK T : T = PartOf(S, kind, k)
    OBVIOUS
  <2>2. T # {} /\ T \in SUBSET S
    BY <1>1, <2>1 DEF PartOf
  <2>3. IsFiniteSet(T) /\ \A x \in T : x[2].value \in Int
    BY <1>2, <2>2, FS_Subset
  <2>4. get_statistics_sql(op, T) \in Int
    BY <2>2, <2>3, StatisticIsNumber
  <2>5. portion[k] = get_statistics_sql(op, T)
    BY <1>2, <1>3, <2>1, <2>2 DEF StatOf
  <2> QED BY <2>1, <2>2, <2>3, <2>4, <2>5
<1>5. /\ \A k \in L : portion[k] # Null
      /\ \A k \in K \ L : portion[k] = Null
  BY <1>1, <1>2, <1>4, NullAssumption DEF StatOf
<1>6. PICK f : f = KeyedValue(key, portion, L)
  OBVIOUS
<1>7. PICK T : T = {f[k] : k \in L}
  OBVIOUS
<1>8. Stat(reading, Keyed(key, portion, K)) = StatOf(reading, T)
  BY ONLY <1>3, <1>5, <1>6, <1>7, StatOfKeyed
<1>9. \A k \in L : f[k] = <<key[k], [value |-> portion[k]]>> /\ f[k][2].value = portion[k] /\ f[k][2].value \in Int
  BY <1>4, <1>6 DEF KeyedValue
<1>10. \A k, l \in L : f[k] = f[l] => k = l
  <2> SUFFICES ASSUME NEW k \in L, NEW l \in L, f[k] = f[l] PROVE k = l
    OBVIOUS
  <2>1. f[k][1] = key[k] /\ f[l][1] = key[l]
    BY <1>6 DEF KeyedValue
  <2> QED BY ONLY <1>2, <1>3, <2>1, k \in L, l \in L, f[k] = f[l]
<1>11. IsFiniteSet(T) /\ \A x \in T : x[2].value \in Int
  <2>1. IsFiniteSet(T)
    BY ONLY <1>3, <1>7, ImageIsFinite
  <2>2. \A x \in T : x[2].value \in Int
    BY ONLY <1>7, <1>9
  <2> QED BY <2>1, <2>2
<1>12. T = {} <=> S = {}
  BY <1>3, <1>4, <1>7
<1>13. ASSUME S # {} PROVE get_statistics_sql(reading, T) = get_statistics_sql(op, S)
  <2>1. CASE op \in {"count", "sum"} /\ reading = "sum"
    <3>1. PICK g : g = EachWeighs(op, S)
      OBVIOUS
    <3>2. \A x \in S : g[x] \in Int
      BY <1>2, <3>1 DEF EachWeighs
    <3>3. \A k \in L : portion[k] = SumOver(g, PartOf(S, kind, k))
      BY <1>2, <1>4, <2>1, <3>1, SummedStatistic
    <3>4. SumOver(portion, L) = SumOver(g, S)
      BY ONLY <1>2, <1>3, <3>2, <3>3, SumOfParts
    <3>5. get_statistics_sql(op, S) = SumOver(g, S)
      BY <1>2, <2>1, <3>1, SummedStatistic
    <3>6. PICK h : h = [k \in L |-> f[k][2].value]
      OBVIOUS
    <3>7. Valuing(T) = SumOver(h, L)
      BY ONLY <1>3, <1>7, <1>9, <1>10, <3>6, ValuesOfImage
    <3>8. \A k \in L : h[k] = portion[k]
      BY ONLY <1>9, <3>6
    <3>9. SumOver(h, L) = SumOver(portion, L)
      BY ONLY <1>3, <3>8, SumAgrees
    <3>10. get_statistics_sql(reading, T) = Valuing(T)
      BY <2>1 DEF get_statistics_sql, Valuing
    <3> QED BY ONLY <3>4, <3>5, <3>7, <3>9, <3>10
  <2>2. PICK m, n : m = get_statistics_sql(op, S) /\ n = get_statistics_sql(reading, T)
    OBVIOUS
  <2>3. m \in Int /\ n \in Int
    BY <1>2, <1>11, <1>12, <1>13, <2>2, StatisticIsNumber
  <2>4. CASE op = "min" /\ reading = "min"
    <3>1. (\E x \in S : m = x[2].value) /\ \A x \in S : m <= x[2].value
      BY <1>2, <1>13, <2>2, <2>4, BoundingStatistic
    <3>2. (\E y \in T : n = y[2].value) /\ \A y \in T : n <= y[2].value
      BY <1>11, <1>12, <1>13, <2>2, <2>4, BoundingStatistic
    <3>3. (\E k \in L : n = portion[k]) /\ \A k \in L : n <= portion[k]
      BY ONLY <1>7, <1>9, <3>2
    <3>4. ASSUME NEW k \in L
          PROVE  /\ \E x \in PartOf(S, kind, k) : portion[k] = x[2].value
                 /\ \A x \in PartOf(S, kind, k) : portion[k] <= x[2].value
      <4>1. PICK U : U = PartOf(S, kind, k)
        OBVIOUS
      <4>2. U # {} /\ U \in SUBSET S /\ IsFiniteSet(U) /\ portion[k] = get_statistics_sql(op, U)
        BY <1>4, <4>1
      <4>3. \A x \in U : x[2].value \in Int
        BY <1>2, <4>2
      <4> QED BY <2>4, <4>1, <4>2, <4>3, BoundingStatistic
    <3>5. m <= n
      <4>1. PICK k \in L : n = portion[k]
        BY <3>3
      <4>2. PICK x \in PartOf(S, kind, k) : portion[k] = x[2].value
        BY <3>4
      <4>3. x \in S
        BY DEF PartOf
      <4> QED BY ONLY <3>1, <4>1, <4>2, <4>3
    <3>6. n <= m
      <4>1. PICK x \in S : m = x[2].value
        BY <3>1
      <4>2. PICK k \in L : x \in PartOf(S, kind, k)
        BY <1>3 DEF PartOf
      <4>3. portion[k] <= x[2].value /\ portion[k] \in Int /\ n <= portion[k]
        BY <1>4, <3>3, <3>4, <4>2
      <4> QED BY ONLY <2>3, <4>1, <4>3
    <3> QED BY ONLY <2>2, <2>3, <3>5, <3>6
  <2>5. CASE op = "max" /\ reading = "max"
    <3>1. (\E x \in S : m = x[2].value) /\ \A x \in S : m >= x[2].value
      BY <1>2, <1>13, <2>2, <2>5, BoundingStatistic
    <3>2. (\E y \in T : n = y[2].value) /\ \A y \in T : n >= y[2].value
      BY <1>11, <1>12, <1>13, <2>2, <2>5, BoundingStatistic
    <3>3. (\E k \in L : n = portion[k]) /\ \A k \in L : n >= portion[k]
      BY ONLY <1>7, <1>9, <3>2
    <3>4. ASSUME NEW k \in L
          PROVE  /\ \E x \in PartOf(S, kind, k) : portion[k] = x[2].value
                 /\ \A x \in PartOf(S, kind, k) : portion[k] >= x[2].value
      <4>1. PICK U : U = PartOf(S, kind, k)
        OBVIOUS
      <4>2. U # {} /\ U \in SUBSET S /\ IsFiniteSet(U) /\ portion[k] = get_statistics_sql(op, U)
        BY <1>4, <4>1
      <4>3. \A x \in U : x[2].value \in Int
        BY <1>2, <4>2
      <4> QED BY <2>5, <4>1, <4>2, <4>3, BoundingStatistic
    <3>5. m >= n
      <4>1. PICK k \in L : n = portion[k]
        BY <3>3
      <4>2. PICK x \in PartOf(S, kind, k) : portion[k] = x[2].value
        BY <3>4
      <4>3. x \in S
        BY DEF PartOf
      <4> QED BY ONLY <3>1, <4>1, <4>2, <4>3
    <3>6. n >= m
      <4>1. PICK x \in S : m = x[2].value
        BY <3>1
      <4>2. PICK k \in L : x \in PartOf(S, kind, k)
        BY <1>3 DEF PartOf
      <4>3. portion[k] >= x[2].value /\ portion[k] \in Int /\ n >= portion[k]
        BY <1>4, <3>3, <3>4, <4>2
      <4> QED BY ONLY <2>3, <4>1, <4>3
    <3> QED BY ONLY <2>2, <2>3, <3>5, <3>6
  <2> QED BY <2>1, <2>4, <2>5 DEF ReadsAs
<1> QED BY ONLY <1>8, <1>12, <1>13 DEF StatOf

(* The sources of areas, and those of the areas at some places.            *)
SourcesOfAreas(areas, sources) == {z \in areas \X sources : z[1].id = z[2].area}

SourcesAt(areas, sources, xs, g) ==
  {x \in areas \X sources : /\ x[1].id = x[2].area /\ x[1].x \in xs
                            /\ g \in {"all", x[2].group}}

SourcesOfArea(areas, sources, a, g) ==
  {z \in SourcesOfAreas(areas, sources) : z[1] = a /\ g \in {"all", z[2].group}}

(* The rows of a chart: of every area, or of every group in one.           *)
ChartRow(areas, sources, op, k) ==
  [x |-> k[1].x, group |-> k[2], from |-> <<k[1].id, StatOf(op, SourcesOfArea(areas, sources, k[1], k[2]))>>]

ChartRowsOf(areas, sources, op, N) == {ChartRow(areas, sources, op, k) : k \in N}

AreaGroups(areas, sources) == {<<z[1], z[2].group>> : z \in SourcesOfAreas(areas, sources)}

ChartFits(areas, sources, op) ==
  /\ IsFiniteSet(areas) /\ \A a \in areas : a.x \in Int
  /\ \A a, b \in areas : a.id = b.id => a = b
  /\ IsFiniteSet(sources) /\ \A s \in sources : s.value \in Int /\ s.group # "all"
  /\ op \in {"count", "sum", "min", "max"}

OwnSources(sources, a) == {x \in {a} \X sources : x[2].area = a.id}

OfOneGroup(sources, a, g) == {x \in OwnSources(sources, a) : x[2].group = g}

LEMMA OwnSourcesAre ==
  ASSUME NEW areas, NEW sources, NEW a \in areas
  PROVE  /\ OwnSources(sources, a) = SourcesOfArea(areas, sources, a, "all")
         /\ \A z : z \in OwnSources(sources, a) <=> z \in SourcesOfAreas(areas, sources) /\ z[1] = a
<1>1. ASSUME NEW z \in OwnSources(sources, a) PROVE z \in SourcesOfAreas(areas, sources) /\ z[1] = a
  BY DEF OwnSources, SourcesOfAreas
<1>2. ASSUME NEW z \in SourcesOfAreas(areas, sources), z[1] = a PROVE z \in OwnSources(sources, a)
  BY <1>2 DEF OwnSources, SourcesOfAreas
<1>3. \A z : z \in OwnSources(sources, a) <=> z \in SourcesOfAreas(areas, sources) /\ z[1] = a
  BY <1>1, <1>2
<1> QED BY <1>3 DEF SourcesOfArea

LEMMA OneGroupIs ==
  ASSUME NEW areas, NEW sources, NEW a \in areas, NEW g, g # "all"
  PROVE  OfOneGroup(sources, a, g) = SourcesOfArea(areas, sources, a, g)
<1>1. \A z : z \in OwnSources(sources, a) <=> z \in SourcesOfAreas(areas, sources) /\ z[1] = a
  BY OwnSourcesAre
<1>2. \A z : z \in OfOneGroup(sources, a, g) <=> z \in OwnSources(sources, a) /\ z[2].group = g
  BY DEF OfOneGroup
<1>3. \A z : z \in SourcesOfArea(areas, sources, a, g)
               <=> z \in SourcesOfAreas(areas, sources) /\ z[1] = a /\ g \in {"all", z[2].group}
  BY DEF SourcesOfArea
<1> QED BY ONLY <1>1, <1>2, <1>3, g # "all"

AreaOf(sources, op, names, a) ==
  [id |-> a.id, x |-> a.x,
   groups |-> [g \in {x[2].group : x \in OwnSources(sources, a)} |->
                 get_statistics_sql(op, OfOneGroup(sources, a, g))],
   columns |-> [n \in names \cup {get_result_column(names)} |->
                  IF n \in names THEN a.old ELSE StatOf(op, OwnSources(sources, a))]]

LEMMA AggregatedIs ==
  ASSUME NEW areas, NEW sources, NEW op, NEW names
  PROVE  Aggregated(areas, names, sources, op) = {AreaOf(sources, op, names, a) : a \in areas}
BY Zenon DEF Aggregated, AreaOf, OwnSources, OfOneGroup, StatOf

AreaRows(r) == {[x |-> r.x, group |-> g, from |-> <<r.id, r.groups[g]>>] : g \in DOMAIN r.groups}

LEMMA GroupedRowsAre ==
  ASSUME NEW areas, NEW sources, NEW op, ChartFits(areas, sources, op), NEW layer,
         layer = Aggregated(areas, {}, sources, op)
  PROVE  UNION {AreaRows(r) : r \in layer} = ChartRowsOf(areas, sources, op, AreaGroups(areas, sources))
<1> DEFINE groups(a) == {x[2].group : x \in OwnSources(sources, a)}
           here(a) == {ChartRow(areas, sources, op, <<a, g>>) : g \in groups(a)}
<1>1. layer = {AreaOf(sources, op, {}, a) : a \in areas}
  BY AggregatedIs
<1>2. ASSUME NEW a \in areas PROVE AreaRows(AreaOf(sources, op, {}, a)) = here(a)
  <2>1. PICK r : r = AreaOf(sources, op, {}, a)
    OBVIOUS
  <2>2. r.x = a.x /\ r.id = a.id /\ DOMAIN r.groups = groups(a)
        /\ \A g \in groups(a) : r.groups[g] = get_statistics_sql(op, OfOneGroup(sources, a, g))
    BY <2>1 DEF AreaOf
  <2>3. ASSUME NEW g \in groups(a)
        PROVE  [x |-> r.x, group |-> g, from |-> <<r.id, r.groups[g]>>] = ChartRow(areas, sources, op, <<a, g>>)
    <3>1. PICK z \in OwnSources(sources, a) : z[2].group = g
      OBVIOUS
    <3>2. z[2] \in sources
      BY <3>1 DEF OwnSources
    <3>3. g # "all"
      BY <3>1, <3>2 DEF ChartFits
    <3>4. OfOneGroup(sources, a, g) = SourcesOfArea(areas, sources, a, g)
      BY <3>3, OneGroupIs
    <3>5. z \in OfOneGroup(sources, a, g)
      BY <3>1 DEF OfOneGroup
    <3>6. r.groups[g] = StatOf(op, SourcesOfArea(areas, sources, a, g))
      BY <2>2, <3>4, <3>5 DEF StatOf
    <3>7. PICK k : k = <<a, g>>
      OBVIOUS
    <3>8. k[1] = a /\ k[2] = g
      BY <3>7
    <3>9. ChartRow(areas, sources, op, k)
            = [x |-> a.x, group |-> g, from |-> <<a.id, StatOf(op, SourcesOfArea(areas, sources, a, g))>>]
      BY ONLY <3>8, Zenon DEF ChartRow
    <3> QED BY ONLY <2>2, <3>6, <3>7, <3>9
  <2>4. AreaRows(r) = {[x |-> r.x, group |-> g, from |-> <<r.id, r.groups[g]>>] : g \in groups(a)}
    BY ONLY <2>2, Zenon DEF AreaRows
  <2> HIDE DEF groups
  <2> QED BY ONLY <2>1, <2>3, <2>4
<1>3. UNION {AreaRows(r) : r \in layer} = UNION {here(a) : a \in areas}
  <2> HIDE DEF here
  <2> QED BY <1>1, <1>2
<1>4. ASSUME NEW w \in UNION {here(a) : a \in areas}
      PROVE  w \in ChartRowsOf(areas, sources, op, AreaGroups(areas, sources))
  <2>1. PICK a \in areas : w \in here(a)
    OBVIOUS
  <2>2. PICK g \in groups(a) : w = ChartRow(areas, sources, op, <<a, g>>)
    BY <2>1
  <2>3. PICK z \in OwnSources(sources, a) : z[2].group = g
    BY <2>2
  <2>4. z \in SourcesOfAreas(areas, sources) /\ z[1] = a
    BY OwnSourcesAre
  <2>5. <<a, g>> \in AreaGroups(areas, sources)
    BY <2>3, <2>4 DEF AreaGroups
  <2> QED BY ONLY <2>2, <2>5 DEF ChartRowsOf
<1>5. ASSUME NEW w \in ChartRowsOf(areas, sources, op, AreaGroups(areas, sources))
      PROVE  w \in UNION {here(a) : a \in areas}
  <2>1. PICK k \in AreaGroups(areas, sources) : w = ChartRow(areas, sources, op, k)
    BY DEF ChartRowsOf
  <2>2. PICK z \in SourcesOfAreas(areas, sources) : k = <<z[1], z[2].group>>
    BY <2>1 DEF AreaGroups
  <2>3. z[1] \in areas
    BY DEF SourcesOfAreas
  <2>4. z \in OwnSources(sources, z[1])
    BY <2>3, OwnSourcesAre
  <2>5. z[2].group \in groups(z[1])
    BY <2>4
  <2>6. w \in here(z[1])
    <3> HIDE DEF groups
    <3> QED BY <2>1, <2>2, <2>5
  <2> HIDE DEF here
  <2> QED BY <2>3, <2>6
<1> HIDE DEF here
<1> QED BY <1>3, <1>4, <1>5

LEMMA AllRowsAre ==
  ASSUME NEW areas, NEW sources, NEW op, NEW layer,
         layer = Aggregated(areas, {}, sources, op)
  PROVE  {[x |-> r.x, group |-> "all", from |-> <<r.id, r.columns[0]>>] : r \in layer}
           = ChartRowsOf(areas, sources, op, areas \X {"all"})
<1>1. layer = {AreaOf(sources, op, {}, a) : a \in areas}
  BY AggregatedIs
<1> DEFINE row(r) == [x |-> r.x, group |-> "all", from |-> <<r.id, r.columns[0]>>]
<1>2. ASSUME NEW a \in areas
      PROVE  row(AreaOf(sources, op, {}, a)) = ChartRow(areas, sources, op, <<a, "all">>)
  <2>1. PICK r : r = AreaOf(sources, op, {}, a)
    OBVIOUS
  <2>2. get_result_column({}) = 0
    BY DEF get_result_column
  <2>3. r.x = a.x /\ r.id = a.id /\ r.columns[0] = StatOf(op, OwnSources(sources, a))
    BY <2>1, <2>2 DEF AreaOf
  <2>4. OwnSources(sources, a) = SourcesOfArea(areas, sources, a, "all")
    BY OwnSourcesAre
  <2>5. PICK k : k = <<a, "all">>
    OBVIOUS
  <2>6. k[1] = a /\ k[2] = "all"
    BY <2>5
  <2>7. ChartRow(areas, sources, op, k)
          = [x |-> a.x, group |-> "all", from |-> <<a.id, StatOf(op, SourcesOfArea(areas, sources, a, "all"))>>]
    BY ONLY <2>6, Zenon DEF ChartRow
  <2> QED BY ONLY <2>1, <2>3, <2>4, <2>5, <2>7
<1>3. {row(r) : r \in layer} = {ChartRow(areas, sources, op, <<a, "all">>) : a \in areas}
  <2> HIDE DEF row
  <2> QED BY <1>1, <1>2
<1>4. {ChartRow(areas, sources, op, <<a, "all">>) : a \in areas}
        = ChartRowsOf(areas, sources, op, areas \X {"all"})
  <2>1. ASSUME NEW w \in ChartRowsOf(areas, sources, op, areas \X {"all"})
        PROVE  \E a \in areas : w = ChartRow(areas, sources, op, <<a, "all">>)
    <3>1. PICK k \in areas \X {"all"} : w = ChartRow(areas, sources, op, k)
      BY DEF ChartRowsOf
    <3>2. k[1] \in areas /\ k = <<k[1], "all">>
      BY <3>1
    <3> QED BY <3>1, <3>2
  <2>2. ASSUME NEW a \in areas
        PROVE  ChartRow(areas, sources, op, <<a, "all">>) \in ChartRowsOf(areas, sources, op, areas \X {"all"})
    BY DEF ChartRowsOf
  <2> QED BY <2>1, <2>2
<1> QED BY <1>3, <1>4

(* What keys the rows have: whoever has sources of a group has its row.    *)
KeysFit(N, areas, sources) ==
  /\ \A k \in N : k[1] \in areas /\ k = <<k[1], k[2]>>
  /\ \A k \in N : \A z \in SourcesOfAreas(areas, sources) : k[2] \in {"all", z[2].group} => <<z[1], k[2]>> \in N

LEMMA KeysOfGroupsFit ==
  ASSUME NEW areas, NEW sources, NEW op, ChartFits(areas, sources, op)
  PROVE  KeysFit(AreaGroups(areas, sources), areas, sources)
<1> DEFINE N == AreaGroups(areas, sources)
<1>1. ASSUME NEW k \in N PROVE k[1] \in areas /\ k = <<k[1], k[2]>> /\ k[2] # "all"
  <2>1. PICK z \in SourcesOfAreas(areas, sources) : k = <<z[1], z[2].group>>
    BY DEF AreaGroups
  <2>2. z[1] \in areas /\ z[2] \in sources
    BY DEF SourcesOfAreas
  <2>3. z[2].group # "all"
    BY <2>2 DEF ChartFits
  <2> QED BY <2>1, <2>2, <2>3
<1>2. ASSUME NEW z \in SourcesOfAreas(areas, sources) PROVE <<z[1], z[2].group>> \in N
  BY DEF AreaGroups
<1> HIDE DEF N
<1>3. ASSUME NEW k \in N, NEW z \in SourcesOfAreas(areas, sources), k[2] \in {"all", z[2].group}
      PROVE  <<z[1], k[2]>> \in N
  <2>1. k[2] = z[2].group
    BY <1>1, <1>3
  <2> QED BY <1>2, <2>1
<1>4. KeysFit(N, areas, sources)
  BY <1>1, <1>3 DEF KeysFit
<1> QED BY <1>4 DEF N

LEMMA KeysOfAreasFit ==
  ASSUME NEW areas, NEW sources
  PROVE  KeysFit(areas \X {"all"}, areas, sources)
<1>1. \A k \in areas \X {"all"} : k[1] \in areas /\ k = <<k[1], k[2]>> /\ k[2] = "all"
  OBVIOUS
<1>2. \A z \in SourcesOfAreas(areas, sources) : z[1] \in areas
  BY DEF SourcesOfAreas
<1>3. \A a \in areas : <<a, "all">> \in areas \X {"all"}
  OBVIOUS
<1> QED BY <1>1, <1>2, <1>3 DEF KeysFit

LEMMA SourcesAtAre ==
  ASSUME NEW areas, NEW sources, NEW op, ChartFits(areas, sources, op), NEW xs, NEW g
  PROVE  /\ IsFiniteSet(SourcesAt(areas, sources, xs, g))
         /\ \A z \in SourcesAt(areas, sources, xs, g) : z[2].value \in Int
         /\ \A z : z \in SourcesAt(areas, sources, xs, g)
                     <=> z \in SourcesOfAreas(areas, sources) /\ z[1].x \in xs /\ g \in {"all", z[2].group}
         /\ \A z \in SourcesOfAreas(areas, sources) : z[1] \in areas
<1>1. IsFiniteSet(areas \X sources)
  BY FS_Product DEF ChartFits
<1>2. SourcesAt(areas, sources, xs, g) \in SUBSET (areas \X sources)
  BY DEF SourcesAt
<1>3. IsFiniteSet(SourcesAt(areas, sources, xs, g))
  BY <1>1, <1>2, FS_Subset
<1>4. \A z \in areas \X sources : z[1] \in areas /\ z[2] \in sources
  OBVIOUS
<1>5. \A z \in SourcesAt(areas, sources, xs, g) : z[2].value \in Int
  BY <1>2, <1>4 DEF ChartFits
<1>6. \A z : z \in SourcesAt(areas, sources, xs, g)
               <=> z \in SourcesOfAreas(areas, sources) /\ z[1].x \in xs /\ g \in {"all", z[2].group}
  BY DEF SourcesAt, SourcesOfAreas
<1>7. \A z \in SourcesOfAreas(areas, sources) : z[1] \in areas
  BY DEF SourcesOfAreas
<1> QED BY <1>3, <1>5, <1>6, <1>7

(* What a chart shows for an x and a group.                                *)
ShownFor(R, x, g) == {r.from : r \in {s \in R : s.x = x /\ s.group = g}}

LEMMA PointIs ==
  ASSUME NEW areas, NEW sources, NEW op, ChartFits(areas, sources, op), NEW reading, ReadsAs(op, reading),
         NEW N, KeysFit(N, areas, sources), NEW x, NEW g, \E k \in N : k[1].x = x /\ k[2] = g
  PROVE  Stat(reading, ShownFor(ChartRowsOf(areas, sources, op, N), x, g))
           = StatOf(op, SourcesAt(areas, sources, {x}, g))
<1>1. PICK R : R = ChartRowsOf(areas, sources, op, N)
  OBVIOUS
<1>2. PICK S : S = SourcesAt(areas, sources, {x}, g)
  OBVIOUS
<1>3. PICK K : K = {a \in areas : a.x = x /\ <<a, g>> \in N}
  OBVIOUS
<1>4. PICK kind : kind = [z \in S |-> z[1]]
  OBVIOUS
<1>5. PICK key : key = [a \in K |-> a.id]
  OBVIOUS
<1>6. PICK portion : portion = [a \in K |-> StatOf(op, SourcesOfArea(areas, sources, a, g))]
  OBVIOUS
<1>7. \A z : z \in S <=> z \in SourcesOfAreas(areas, sources) /\ z[1].x = x /\ g \in {"all", z[2].group}
  <2>1. \A u : u \in {x} <=> u = x
    OBVIOUS
  <2> QED BY <1>2, <2>1, SourcesAtAre
<1>8. \A z \in S : kind[z] \in K
  <2> SUFFICES ASSUME NEW z \in S PROVE z[1] \in K
    BY <1>4
  <2>1. z \in SourcesOfAreas(areas, sources) /\ z[1].x = x /\ g \in {"all", z[2].group}
    BY <1>7
  <2>2. z[1] \in areas
    BY <2>1, SourcesAtAre
  <2>3. <<z[1], g>> \in N
    BY <2>1 DEF KeysFit
  <2> QED BY <1>3, <2>1, <2>2, <2>3
<1>9. ASSUME NEW a \in K PROVE PartOf(S, kind, a) = SourcesOfArea(areas, sources, a, g)
  <2>1. a.x = x
    BY <1>3
  <2>2. \A z : z \in PartOf(S, kind, a) <=> z \in S /\ z[1] = a
    BY <1>4 DEF PartOf
  <2>3. \A z : z \in SourcesOfArea(areas, sources, a, g)
                 <=> z \in SourcesOfAreas(areas, sources) /\ z[1] = a /\ g \in {"all", z[2].group}
    BY DEF SourcesOfArea
  <2> QED BY ONLY <1>7, <2>1, <2>2, <2>3
<1>10. IsParted(S, K, kind, key, portion, op)
  <2>1. IsFiniteSet(S) /\ \A z \in S : z[2].value \in Int
    BY <1>2, SourcesAtAre
  <2>2. IsFiniteSet(K)
    BY <1>3, FS_Subset DEF ChartFits
  <2>3. \A a, b \in K : key[a] = key[b] => a = b
    BY <1>3, <1>5 DEF ChartFits
  <2>4. \A a \in K : portion[a] = StatOf(op, PartOf(S, kind, a))
    BY <1>6, <1>9
  <2> QED BY ONLY <1>8, <2>1, <2>2, <2>3, <2>4 DEF IsParted
<1>11. ShownFor(R, x, g) = Keyed(key, portion, K)
  <2>1. ASSUME NEW w \in ShownFor(R, x, g) PROVE w \in Keyed(key, portion, K)
    <3>1. PICK r \in R : r.x = x /\ r.group = g /\ w = r.from
      BY DEF ShownFor
    <3>2. PICK k \in N : r = ChartRow(areas, sources, op, k)
      BY <1>1, <3>1 DEF ChartRowsOf
    <3>3. r.x = k[1].x /\ r.group = k[2]
          /\ r.from = <<k[1].id, StatOf(op, SourcesOfArea(areas, sources, k[1], k[2]))>>
      BY <3>2 DEF ChartRow
    <3>4. k[1] \in areas /\ k = <<k[1], g>>
      BY <3>1, <3>3 DEF KeysFit
    <3>5. k[1] \in K
      BY <1>3, <3>1, <3>3, <3>4
    <3>6. w = <<key[k[1]], portion[k[1]]>>
      BY <1>5, <1>6, <3>1, <3>3, <3>5
    <3> QED BY <3>5, <3>6 DEF Keyed
  <2>2. ASSUME NEW a \in K PROVE <<key[a], portion[a]>> \in ShownFor(R, x, g)
    <3>1. PICK k : k = <<a, g>>
      OBVIOUS
    <3>2. k \in N /\ k[1] = a /\ k[2] = g /\ a.x = x
      BY <1>3, <3>1
    <3>3. PICK r : r = ChartRow(areas, sources, op, k)
      OBVIOUS
    <3>4. r \in R
      BY <1>1, <3>2, <3>3 DEF ChartRowsOf
    <3>5. r.x = x /\ r.group = g /\ r.from = <<a.id, StatOf(op, SourcesOfArea(areas, sources, a, g))>>
      BY <3>2, <3>3 DEF ChartRow
    <3>6. r.from = <<key[a], portion[a]>>
      BY <1>5, <1>6, <3>5
    <3> QED BY <3>4, <3>5, <3>6 DEF ShownFor
  <2>3. \A w \in Keyed(key, portion, K) : \E a \in K : w = <<key[a], portion[a]>>
    BY DEF Keyed
  <2> QED BY <2>1, <2>2, <2>3
<1>12. Stat(reading, Keyed(key, portion, K)) = StatOf(op, S)
  BY <1>10, StatisticOfStatistics
<1> QED BY ONLY <1>1, <1>2, <1>11, <1>12

(* The points of a chart, and the cumulated ones.                          *)
ChartedPoints(R, reading) ==
  {[x |-> r.x, group |-> r.group, y |-> Stat(reading, ShownFor(R, r.x, r.group))] : r \in R}

CumulatedTo(B, p) == {<<q.x, q.y>> : q \in {o \in B : o.group = p.group /\ o.x <= p.x}}

Cumulated(B) == {[p EXCEPT !.y = Stat("sum", CumulatedTo(B, p))] : p \in B}

ChartPoint(areas, sources, op, k) ==
  [x |-> k[1].x, group |-> k[2], y |-> StatOf(op, SourcesAt(areas, sources, {k[1].x}, k[2]))]

ChartPoints(areas, sources, op, N) == {ChartPoint(areas, sources, op, k) : k \in N}

LEMMA PointsAre ==
  ASSUME NEW areas, NEW sources, NEW op, ChartFits(areas, sources, op), NEW reading, ReadsAs(op, reading),
         NEW N, KeysFit(N, areas, sources)
  PROVE  ChartedPoints(ChartRowsOf(areas, sources, op, N), reading)
           = ChartPoints(areas, sources, op, N)
<1>1. PICK R : R = ChartRowsOf(areas, sources, op, N)
  OBVIOUS
<1> DEFINE point(r) == [x |-> r.x, group |-> r.group, y |-> Stat(reading, ShownFor(R, r.x, r.group))]
<1>2. ASSUME NEW k \in N PROVE point(ChartRow(areas, sources, op, k)) = ChartPoint(areas, sources, op, k)
  <2>1. PICK r : r = ChartRow(areas, sources, op, k)
    OBVIOUS
  <2>2. r.x = k[1].x /\ r.group = k[2]
    BY <2>1 DEF ChartRow
  <2>3. PICK x, g : x = k[1].x /\ g = k[2]
    OBVIOUS
  <2>4. Stat(reading, ShownFor(R, x, g)) = StatOf(op, SourcesAt(areas, sources, {x}, g))
    BY <1>1, <2>3, PointIs
  <2> QED BY ONLY <2>1, <2>2, <2>3, <2>4 DEF ChartPoint
<1>3. ChartedPoints(R, reading) = {point(r) : r \in R}
  BY Zenon DEF ChartedPoints
<1>4. R = {ChartRow(areas, sources, op, k) : k \in N}
  BY <1>1 DEF ChartRowsOf
<1> HIDE DEF point
<1>5. {point(r) : r \in R} = {ChartPoint(areas, sources, op, k) : k \in N}
  BY <1>2, <1>4
<1> QED BY <1>1, <1>3, <1>5 DEF ChartPoints

PlacesUpto(areas, x) == {a.x : a \in {b \in areas : b.x <= x}}

LEMMA CumulatedPointIs ==
  ASSUME NEW areas, NEW sources, NEW op, ChartFits(areas, sources, op), op \in {"count", "sum"},
         NEW N, KeysFit(N, areas, sources), NEW B,
         B = ChartPoints(areas, sources, op, N), NEW p \in B
  PROVE  Stat("sum", CumulatedTo(B, p))
           = StatOf(op, SourcesAt(areas, sources, PlacesUpto(areas, p.x), p.group))
<1>1. PICK g : g = p.group
  OBVIOUS
<1>2. PICK xs : xs = {a.x : a \in {b \in areas : b.x <= p.x}}
  OBVIOUS
<1>3. PICK S : S = SourcesAt(areas, sources, xs, g)
  OBVIOUS
<1>4. PICK K : K = {x \in xs : \E k \in N : k[1].x = x /\ k[2] = g}
  OBVIOUS
<1>5. PICK kind : kind = [z \in S |-> z[1].x]
  OBVIOUS
<1>6. PICK key : key = [x \in K |-> x]
  OBVIOUS
<1>7. PICK portion : portion = [x \in K |-> StatOf(op, SourcesAt(areas, sources, {x}, g))]
  OBVIOUS
<1>8. \A z : z \in S <=> z \in SourcesOfAreas(areas, sources) /\ z[1].x \in xs /\ g \in {"all", z[2].group}
  BY <1>3, SourcesAtAre
<1>9. PICK j \in N : p.group = j[2]
  <2>1. PICK j \in N : p = ChartPoint(areas, sources, op, j)
    BY DEF ChartPoints
  <2> QED BY <2>1 DEF ChartPoint
<1>10. ASSUME NEW z \in S PROVE kind[z] \in K
  <2>1. z \in SourcesOfAreas(areas, sources) /\ z[1].x \in xs /\ g \in {"all", z[2].group}
    BY <1>8
  <2>2. j[2] = g
    BY <1>1, <1>9
  <2>3. <<z[1], g>> \in N
    BY <2>1, <2>2 DEF KeysFit
  <2>4. PICK k : k = <<z[1], g>>
    OBVIOUS
  <2>5. k \in N /\ k[1].x = z[1].x /\ k[2] = g
    BY <2>3, <2>4
  <2> QED BY <1>4, <1>5, <2>1, <2>5
<1>11. ASSUME NEW x \in K PROVE PartOf(S, kind, x) = SourcesAt(areas, sources, {x}, g)
  <2>1. x \in xs
    BY <1>4
  <2>2. \A z : z \in PartOf(S, kind, x) <=> z \in S /\ z[1].x = x
    BY <1>5 DEF PartOf
  <2>3. \A z : z \in SourcesAt(areas, sources, {x}, g)
                 <=> z \in SourcesOfAreas(areas, sources) /\ z[1].x = x /\ g \in {"all", z[2].group}
    <3>1. \A u : u \in {x} <=> u = x
      OBVIOUS
    <3> QED BY <3>1, SourcesAtAre
  <2> QED BY ONLY <1>8, <2>1, <2>2, <2>3
<1>12. IsParted(S, K, kind, key, portion, op)
  <2>1. IsFiniteSet(S) /\ \A z \in S : z[2].value \in Int
    BY <1>3, SourcesAtAre
  <2>2. IsFiniteSet(K)
    <3>1. PICK below : below = {b \in areas : b.x <= p.x}
      OBVIOUS
    <3>2. IsFiniteSet(below)
      BY <3>1, FS_Subset DEF ChartFits
    <3>3. PICK f : f = [a \in below |-> a.x]
      OBVIOUS
    <3>4. xs = {f[a] : a \in below}
      BY <1>2, <3>1, <3>3
    <3>5. IsFiniteSet({f[a] : a \in below})
      BY ONLY <3>2, ImageIsFinite
    <3> QED BY <1>4, <3>4, <3>5, FS_Subset
  <2>3. \A a, b \in K : key[a] = key[b] => a = b
    BY <1>6
  <2>4. \A a \in K : portion[a] = StatOf(op, PartOf(S, kind, a))
    BY <1>7, <1>11
  <2> QED BY <1>10, <2>1, <2>2, <2>3, <2>4 DEF IsParted
<1>13. CumulatedTo(B, p) = Keyed(key, portion, K)
  <2>1. ASSUME NEW w \in CumulatedTo(B, p) PROVE w \in Keyed(key, portion, K)
    <3>1. PICK q \in B : q.group = g /\ q.x <= p.x /\ w = <<q.x, q.y>>
      BY <1>1 DEF CumulatedTo
    <3>2. PICK k \in N : q = ChartPoint(areas, sources, op, k)
      BY DEF ChartPoints
    <3>3. q.x = k[1].x /\ q.group = k[2] /\ q.y = StatOf(op, SourcesAt(areas, sources, {k[1].x}, k[2]))
      BY <3>2 DEF ChartPoint
    <3>4. k[1] \in areas
      BY DEF KeysFit
    <3>5. PICK x : x = k[1].x
      OBVIOUS
    <3>6. x \in K
      BY <1>2, <1>4, <3>1, <3>3, <3>4, <3>5
    <3>7. w = <<key[x], portion[x]>>
      BY <1>6, <1>7, <3>1, <3>3, <3>5, <3>6
    <3> QED BY <3>6, <3>7 DEF Keyed
  <2>2. ASSUME NEW x \in K PROVE <<key[x], portion[x]>> \in CumulatedTo(B, p)
    <3>1. PICK k \in N : k[1].x = x /\ k[2] = g
      BY <1>4
    <3>2. PICK q : q = ChartPoint(areas, sources, op, k)
      OBVIOUS
    <3>3. q \in B
      BY <3>2 DEF ChartPoints
    <3>4. q.x = x /\ q.group = g /\ q.y = StatOf(op, SourcesAt(areas, sources, {x}, g))
      BY <3>1, <3>2 DEF ChartPoint
    <3>5. x <= p.x
      <4>1. PICK a \in areas : a.x <= p.x /\ x = a.x
        BY <1>2, <1>4
      <4> QED BY <4>1
    <3>6. <<q.x, q.y>> = <<key[x], portion[x]>>
      BY <1>6, <1>7, <3>4
    <3> QED BY <1>1, <3>3, <3>4, <3>5, <3>6 DEF CumulatedTo
  <2>3. \A w \in Keyed(key, portion, K) : \E x \in K : w = <<key[x], portion[x]>>
    BY DEF Keyed
  <2> QED BY <2>1, <2>2, <2>3
<1>14. ReadsAs(op, "sum")
  BY DEF ReadsAs
<1>15. Stat("sum", Keyed(key, portion, K)) = StatOf(op, S)
  <2>1. PICK reading : reading = "sum"
    OBVIOUS
  <2>2. Stat(reading, Keyed(key, portion, K)) = StatOf(op, S)
    BY <1>12, <1>14, <2>1, StatisticOfStatistics
  <2> QED BY <2>1, <2>2
<1> QED BY ONLY <1>1, <1>2, <1>3, <1>13, <1>15 DEF PlacesUpto

LEMMA CumulatedKeeps ==
  ASSUME NEW B, NEW areas, NEW sources, NEW op, NEW N, B = ChartPoints(areas, sources, op, N)
  PROVE  {<<p.x, p.group>> : p \in Cumulated(B)} = {<<p.x, p.group>> : p \in B}
<1>1. ASSUME NEW p \in B, NEW v PROVE [p EXCEPT !.y = v].x = p.x /\ [p EXCEPT !.y = v].group = p.group
  <2>1. PICK k \in N : p = ChartPoint(areas, sources, op, k)
    BY DEF ChartPoints
  <2> QED BY <2>1 DEF ChartPoint
<1>2. PICK value : value = [p \in B |-> Stat("sum", CumulatedTo(B, p))]
  OBVIOUS
<1>3. Cumulated(B) = {[p EXCEPT !.y = value[p]] : p \in B}
  BY <1>2 DEF Cumulated
<1>4. ASSUME NEW p \in B
      PROVE  [p EXCEPT !.y = value[p]].x = p.x /\ [p EXCEPT !.y = value[p]].group = p.group
  <2>1. PICK v : v = value[p]
    OBVIOUS
  <2> QED BY ONLY <1>1, <2>1, p \in B
<1>5. PICK with : with = [p \in B |-> [p EXCEPT !.y = value[p]]]
  OBVIOUS
<1>6. Cumulated(B) = {with[p] : p \in B}
  BY ONLY <1>3, <1>5
<1>7. \A p \in B : with[p].x = p.x /\ with[p].group = p.group
  BY ONLY <1>4, <1>5
<1>8. ASSUME NEW w \in Cumulated(B) PROVE \E p \in B : <<w.x, w.group>> = <<p.x, p.group>>
  BY ONLY <1>6, <1>7, w \in Cumulated(B)
<1>9. ASSUME NEW p \in B PROVE \E w \in Cumulated(B) : <<w.x, w.group>> = <<p.x, p.group>>
  BY ONLY <1>6, <1>7, p \in B
<1> QED BY ONLY <1>8, <1>9

LEMMA PointsNamed ==
  ASSUME NEW areas, NEW sources
  PROVE  /\ {<<k[1].x, k[2]>> : k \in AreaGroups(areas, sources)}
              = {<<x[1].x, x[2].group>> : x \in SourcesAt(areas, sources, {a.x : a \in areas}, "all")}
         /\ {<<k[1].x, k[2]>> : k \in areas \X {"all"}} = {<<a.x, "all">> : a \in areas}
<1>1. SourcesAt(areas, sources, {a.x : a \in areas}, "all") = SourcesOfAreas(areas, sources)
  BY DEF SourcesAt, SourcesOfAreas
<1>2. ASSUME NEW k \in AreaGroups(areas, sources)
      PROVE  \E z \in SourcesOfAreas(areas, sources) : <<k[1].x, k[2]>> = <<z[1].x, z[2].group>>
  BY DEF AreaGroups
<1>3. ASSUME NEW z \in SourcesOfAreas(areas, sources)
      PROVE  \E k \in AreaGroups(areas, sources) : <<k[1].x, k[2]>> = <<z[1].x, z[2].group>>
  <2>1. PICK k : k = <<z[1], z[2].group>>
    OBVIOUS
  <2>2. k \in AreaGroups(areas, sources) /\ k[1] = z[1] /\ k[2] = z[2].group
    BY <2>1 DEF AreaGroups
  <2> QED BY <2>2
<1>4. {<<k[1].x, k[2]>> : k \in AreaGroups(areas, sources)}
        = {<<z[1].x, z[2].group>> : z \in SourcesOfAreas(areas, sources)}
  BY ONLY <1>2, <1>3
<1>5. {<<k[1].x, k[2]>> : k \in areas \X {"all"}} = {<<a.x, "all">> : a \in areas}
  <2>1. ASSUME NEW a \in areas PROVE \E k \in areas \X {"all"} : <<k[1].x, k[2]>> = <<a.x, "all">>
    <3>1. PICK k : k = <<a, "all">>
      OBVIOUS
    <3>2. k \in areas \X {"all"} /\ k[1] = a /\ k[2] = "all"
      BY <3>1
    <3> QED BY <3>2
  <2>2. ASSUME NEW k \in areas \X {"all"} PROVE \E a \in areas : <<k[1].x, k[2]>> = <<a.x, "all">>
    <3>1. k[1] \in areas /\ k[2] = "all"
      OBVIOUS
    <3> QED BY <3>1
  <2> QED BY ONLY <2>1, <2>2
<1> QED BY <1>1, <1>4, <1>5

(* A chart is of what the sources say, whatever areas and sources there    *)
(* are, for counts, sums, least and greatest (read_chart_data).            *)
THEOREM AnyChartIsOfTheSources ==
  ASSUME NEW areas, NEW names, NEW sources, NEW op, ChartFits(areas, sources, op),
         NEW grouped \in BOOLEAN, NEW cumsum \in BOOLEAN
  PROVE  ChartIsOfTheSources(areas, names, sources, op, grouped, cumsum)
<1>1. PICK layer : layer = Aggregated(areas, {}, sources, op)
  OBVIOUS
<1>2. PICK N : N = IF grouped THEN AreaGroups(areas, sources) ELSE areas \X {"all"}
  OBVIOUS
<1>3. PICK R : R = ChartRowsOf(areas, sources, op, N)
  OBVIOUS
<1>4. KeysFit(N, areas, sources)
  BY <1>2, KeysOfGroupsFit, KeysOfAreasFit
<1>5. ChartRows(layer, grouped) = R
  <2>1. CASE grouped
    <3>1. ChartRows(layer, grouped) = UNION {AreaRows(r) : r \in layer}
      BY <2>1, Zenon DEF ChartRows, AreaRows
    <3>2. N = AreaGroups(areas, sources)
      BY <1>2, <2>1
    <3> QED BY <1>1, <1>3, <3>1, <3>2, GroupedRowsAre
  <2>2. CASE ~grouped
    <3>1. ChartRows(layer, grouped)
            = {[x |-> r.x, group |-> "all", from |-> <<r.id, r.columns[0]>>] : r \in layer}
      BY <2>2, Zenon DEF ChartRows
    <3>2. N = areas \X {"all"}
      BY <1>2, <2>2
    <3> QED BY <1>1, <1>3, <3>1, <3>2, AllRowsAre
  <2> QED BY <2>1, <2>2
<1>6. PICK reading : reading = Operation(op, cumsum)
  OBVIOUS
<1>7. PICK B : B = ChartedPoints(R, reading)
  OBVIOUS
<1>8. PICK chart : chart = read_chart_data(layer, op, grouped, cumsum)
  OBVIOUS
<1>9. chart = IF cumsum THEN Cumulated(B) ELSE B
  <2>1. read_chart_data(layer, op, grouped, cumsum)
          = IF cumsum THEN Cumulated(ChartedPoints(ChartRows(layer, grouped), Operation(op, cumsum)))
            ELSE ChartedPoints(ChartRows(layer, grouped), Operation(op, cumsum))
    BY Zenon DEF read_chart_data, ChartedPoints, ShownFor, Cumulated, CumulatedTo
  <2> QED BY ONLY <1>5, <1>6, <1>7, <1>8, <2>1, Zenon
<1> DEFINE xs(p) == IF cumsum THEN {a.x : a \in {b \in areas : b.x <= p.x}} ELSE {p.x}
<1>10. ASSUME cumsum => op \in {"count", "sum"}
       PROVE  B = ChartPoints(areas, sources, op, N)
  <2>1. ReadsAs(op, reading)
    BY <1>6, <1>10 DEF Operation, ReadsAs, ChartFits
  <2> QED BY <1>3, <1>4, <1>7, <2>1, PointsAre
<1>11. ASSUME cumsum => op \in {"count", "sum"}, NEW p \in chart
       PROVE  p.y = StatOf(op, SourcesAt(areas, sources, xs(p), p.group))
  <2>1. CASE cumsum
    <3>1. PICK q \in B : p = [q EXCEPT !.y = Stat("sum", CumulatedTo(B, q))]
      BY <1>9, <1>11, <2>1 DEF Cumulated
    <3>2. PICK v : v = Stat("sum", CumulatedTo(B, q))
      OBVIOUS
    <3>3. PICK k \in N : q = ChartPoint(areas, sources, op, k)
      BY <1>10, <1>11 DEF ChartPoints
    <3>4. p.x = q.x /\ p.group = q.group /\ p.y = v
      BY <3>1, <3>2, <3>3 DEF ChartPoint
    <3>5. v = StatOf(op, SourcesAt(areas, sources, PlacesUpto(areas, q.x), q.group))
      <4>1. op \in {"count", "sum"}
        BY <1>11, <2>1
      <4>2. B = ChartPoints(areas, sources, op, N)
        BY <1>10, <1>11
      <4> QED BY ONLY ChartFits(areas, sources, op), <1>4, <3>2, <4>1, <4>2, q \in B, CumulatedPointIs
    <3>6. xs(p) = PlacesUpto(areas, q.x)
      BY <2>1, <3>4 DEF PlacesUpto
    <3> HIDE DEF xs
    <3> QED BY ONLY <3>4, <3>5, <3>6
  <2>2. CASE ~cumsum
    <3>1. p \in B
      BY <1>9, <1>11, <2>2
    <3>2. PICK k \in N : p = ChartPoint(areas, sources, op, k)
      BY <1>10, <1>11, <3>1 DEF ChartPoints
    <3>3. p.x = k[1].x /\ p.group = k[2] /\ p.y = StatOf(op, SourcesAt(areas, sources, {k[1].x}, k[2]))
      BY <3>2 DEF ChartPoint
    <3>4. xs(p) = {k[1].x}
      BY <2>2, <3>3
    <3> HIDE DEF xs
    <3> QED BY ONLY <3>3, <3>4
  <2> QED BY <2>1, <2>2
<1>12. ASSUME cumsum => op \in {"count", "sum"}
       PROVE  {<<p.x, p.group>> : p \in chart}
                = IF grouped THEN {<<x[1].x, x[2].group>> : x \in SourcesAt(areas, sources, {a.x : a \in areas}, "all")}
                  ELSE {<<a.x, "all">> : a \in areas}
  <2>1. B = ChartPoints(areas, sources, op, N)
    BY <1>10, <1>12
  <2>2. {<<p.x, p.group>> : p \in chart} = {<<p.x, p.group>> : p \in B}
    <3>1. CASE cumsum
      <4>1. chart = Cumulated(B)
        BY <1>9, <3>1
      <4> QED BY ONLY <2>1, <4>1, CumulatedKeeps
    <3>2. CASE ~cumsum
      <4>1. chart = B
        BY <1>9, <3>2
      <4> QED BY ONLY <4>1
    <3> QED BY <3>1, <3>2
  <2>3. {<<p.x, p.group>> : p \in B} = {<<k[1].x, k[2]>> : k \in N}
    <3>1. ASSUME NEW p \in B PROVE \E k \in N : <<p.x, p.group>> = <<k[1].x, k[2]>>
      <4>1. PICK k \in N : p = ChartPoint(areas, sources, op, k)
        BY <2>1 DEF ChartPoints
      <4> QED BY <4>1 DEF ChartPoint
    <3>2. ASSUME NEW k \in N PROVE \E p \in B : <<p.x, p.group>> = <<k[1].x, k[2]>>
      <4>1. PICK p : p = ChartPoint(areas, sources, op, k)
        OBVIOUS
      <4>2. p \in B
        BY <2>1, <4>1 DEF ChartPoints
      <4>3. p.x = k[1].x /\ p.group = k[2]
        BY <4>1 DEF ChartPoint
      <4> QED BY <4>2, <4>3
    <3> QED BY ONLY <3>1, <3>2
  <2>4. CASE grouped
    <3>1. N = AreaGroups(areas, sources)
      BY <1>2, <2>4
    <3>2. {<<p.x, p.group>> : p \in chart}
            = {<<x[1].x, x[2].group>> : x \in SourcesAt(areas, sources, {a.x : a \in areas}, "all")}
      BY ONLY <2>2, <2>3, <3>1, PointsNamed
    <3> QED BY ONLY <2>4, <3>2
  <2>5. CASE ~grouped
    <3>1. N = areas \X {"all"}
      BY <1>2, <2>5
    <3>2. {<<p.x, p.group>> : p \in chart} = {<<a.x, "all">> : a \in areas}
      BY ONLY <2>2, <2>3, <3>1, PointsNamed
    <3> QED BY ONLY <2>5, <3>2
  <2> QED BY <2>4, <2>5
<1>13. ASSUME names = {}
       PROVE  ChartIsOfTheSources(areas, names, sources, op, grouped, cumsum)
                <=> ((cumsum => op \in {"count", "sum"}) =>
                      /\ \A p \in chart : p.y = StatOf(op, SourcesAt(areas, sources, xs(p), p.group))
                      /\ {<<p.x, p.group>> : p \in chart}
                           = IF grouped
                             THEN {<<x[1].x, x[2].group>> : x \in SourcesAt(areas, sources, {a.x : a \in areas}, "all")}
                             ELSE {<<a.x, "all">> : a \in areas})
  BY <1>1, <1>8, <1>13, Zenon DEF ChartIsOfTheSources, SourcesAt, StatOf
<1>14. CASE names # {}
  BY <1>14, Zenon DEF ChartIsOfTheSources
<1>15. CASE names = {}
  <2> HIDE DEF xs
  <2> QED BY ONLY <1>11, <1>12, <1>13, <1>15, Zenon
<1> QED BY <1>14, <1>15

-----------------------------------------------------------------------------
(* Lines.  A crossing leads from a cell into the next one, between a pixel *)
(* that is reached, on the left, and one that is not.                      *)
Over(c, d) ==
  \/ d = <<c[1] - 1, c[2]>> /\ contour[c] \in {1, 3, 5, 7} /\ contour[d] \in {2, 3, 10, 11}
  \/ d = <<c[1], c[2] + 1>> /\ contour[c] \in {2, 6, 10, 14} /\ contour[d] \in {4, 5, 6, 7}
  \/ d = <<c[1] + 1, c[2]>> /\ contour[c] \in {4, 5, 12, 13} /\ contour[d] \in {8, 10, 12, 14}
  \/ d = <<c[1], c[2] - 1>> /\ contour[c] \in {8, 9, 10, 11} /\ contour[d] \in {1, 5, 9, 13}

Crossings == {e \in Cells(surface) \X Cells(surface) : Over(e[1], e[2])}

(* The crossing by which the next cell is left. *)
onward == [e \in Crossings |-> <<e[2], followLoop(contour[e[2]], e[2], e[1])>>]

(* Cells that are left one way whichever way they are entered. *)
Plain == {c \in Cells(surface) : contour[c] \notin {0, 5, 10, 15}}

(* A cell is a pair of numbers, and a pixel is beyond it on both sides.     *)
LEMMA CellsArePairs ==
  ASSUME NEW s, s.width \in Nat, s.height \in Nat, NEW c \in Cells(s)
  PROVE  /\ c = <<c[1], c[2]>> /\ c[1] \in Nat /\ c[2] \in Nat
         /\ c[1] + 1 < s.width /\ c[2] + 1 < s.height
BY DEF Cells

(* What a cell has of its corners. *)
LEMMA CornersOfCells ==
  ASSUME NEW s, NEW r, NEW k, s.width \in Nat, s.height \in Nat, NEW c \in Cells(s)
  PROVE  /\ get_contour(s, r, k)[c] \in 0..15
         /\ get_contour(s, r, k)[c] \in 8..15 <=> InTime(s, r, k, <<c[1], c[2]>>)
         /\ get_contour(s, r, k)[c] \in (4..7) \cup (12..15) <=> InTime(s, r, k, <<c[1] + 1, c[2]>>)
         /\ get_contour(s, r, k)[c] \in {2, 3, 6, 7, 10, 11, 14, 15}
              <=> InTime(s, r, k, <<c[1] + 1, c[2] + 1>>)
         /\ get_contour(s, r, k)[c] \in {1, 3, 5, 7, 9, 11, 13, 15}
              <=> InTime(s, r, k, <<c[1], c[2] + 1>>)
<1>1. c = <<c[1], c[2]>>
  BY CellsArePairs
<1>2. PICK t1 \in BOOLEAN : t1 <=> InTime(s, r, k, <<c[1], c[2]>>)
  BY DEF InTime
<1>3. PICK t2 \in BOOLEAN : t2 <=> InTime(s, r, k, <<c[1] + 1, c[2]>>)
  BY DEF InTime
<1>4. PICK t3 \in BOOLEAN : t3 <=> InTime(s, r, k, <<c[1] + 1, c[2] + 1>>)
  BY DEF InTime
<1>5. PICK t4 \in BOOLEAN : t4 <=> InTime(s, r, k, <<c[1], c[2] + 1>>)
  BY DEF InTime
<1>6. get_contour(s, r, k)[c] =
        (IF t1 THEN 8 ELSE 0) + (IF t2 THEN 4 ELSE 0) + (IF t3 THEN 2 ELSE 0) + (IF t4 THEN 1 ELSE 0)
  BY <1>1, <1>2, <1>3, <1>4, <1>5 DEF get_contour, Corner
<1> QED BY <1>2, <1>3, <1>4, <1>5, <1>6

(* Where a crossing goes there is a cell: what is reached is off the       *)
(* border.                                                                 *)
LEMMA CellsBeyond ==
  ASSUME NEW s, NEW r, NEW k, s.width \in Nat, s.height \in Nat, NEW c \in Cells(s)
  PROVE  LET g == get_contour(s, r, k)
             left == <<c[1] - 1, c[2]>>
             below == <<c[1], c[2] + 1>>
             right == <<c[1] + 1, c[2]>>
             above == <<c[1], c[2] - 1>>
         IN /\ g[c] \in {1, 3, 5, 7} => left \in Cells(s) /\ g[left] \in {2, 3, 10, 11}
            /\ g[c] \in {2, 6, 10, 14} => below \in Cells(s) /\ g[below] \in {4, 5, 6, 7}
            /\ g[c] \in {4, 5, 12, 13} => right \in Cells(s) /\ g[right] \in {8, 10, 12, 14}
            /\ g[c] \in {8, 9, 10, 11} => above \in Cells(s) /\ g[above] \in {1, 5, 9, 13}
<1> DEFINE g == get_contour(s, r, k)
           left == <<c[1] - 1, c[2]>>
           below == <<c[1], c[2] + 1>>
           right == <<c[1] + 1, c[2]>>
           above == <<c[1], c[2] - 1>>
<1>1. /\ c = <<c[1], c[2]>> /\ c[1] \in Nat /\ c[2] \in Nat
      /\ c[1] + 1 < s.width /\ c[2] + 1 < s.height
  BY CellsArePairs
<1>2. ASSUME NEW d \in Cells(s)
      PROVE  /\ g[d] \in 0..15
             /\ g[d] \in 8..15 <=> InTime(s, r, k, <<d[1], d[2]>>)
             /\ g[d] \in (4..7) \cup (12..15) <=> InTime(s, r, k, <<d[1] + 1, d[2]>>)
             /\ g[d] \in {2, 3, 6, 7, 10, 11, 14, 15} <=> InTime(s, r, k, <<d[1] + 1, d[2] + 1>>)
             /\ g[d] \in {1, 3, 5, 7, 9, 11, 13, 15} <=> InTime(s, r, k, <<d[1], d[2] + 1>>)
  BY CornersOfCells
<1>0. /\ g[c] \in 0..15
      /\ g[c] \in 8..15 <=> InTime(s, r, k, <<c[1], c[2]>>)
      /\ g[c] \in (4..7) \cup (12..15) <=> InTime(s, r, k, <<c[1] + 1, c[2]>>)
      /\ g[c] \in {2, 3, 6, 7, 10, 11, 14, 15} <=> InTime(s, r, k, <<c[1] + 1, c[2] + 1>>)
      /\ g[c] \in {1, 3, 5, 7, 9, 11, 13, 15} <=> InTime(s, r, k, <<c[1], c[2] + 1>>)
  BY CornersOfCells
<1>3. ASSUME NEW p, InTime(s, r, k, p) PROVE p[1] \notin {0, s.width - 1} /\ p[2] \notin {0, s.height - 1}
  BY <1>3 DEF InTime, Border
<1> HIDE DEF g
<1>4. g[c] \in {1, 3, 5, 7} => left \in Cells(s) /\ g[left] \in {2, 3, 10, 11}
  <2> SUFFICES ASSUME g[c] \in {1, 3, 5, 7} PROVE left \in Cells(s) /\ g[left] \in {2, 3, 10, 11}
    OBVIOUS
  <2>1. InTime(s, r, k, <<c[1], c[2] + 1>>) /\ ~InTime(s, r, k, <<c[1], c[2]>>)
    BY <1>0
  <2>2. c[1] # 0
    BY <1>3, <2>1
  <2>3. left \in Cells(s)
    BY <1>1, <2>2 DEF Cells
  <2>4. left[1] + 1 = c[1] /\ left[2] = c[2] /\ left[2] + 1 = c[2] + 1
    BY <1>1
  <2>5. g[left] \in 0..15 /\ ~(g[left] \in (4..7) \cup (12..15)) /\ g[left] \in {2, 3, 6, 7, 10, 11, 14, 15}
    BY <1>2, <2>1, <2>3, <2>4
  <2> QED BY <2>3, <2>5
<1>5. g[c] \in {2, 6, 10, 14} => below \in Cells(s) /\ g[below] \in {4, 5, 6, 7}
  <2> SUFFICES ASSUME g[c] \in {2, 6, 10, 14} PROVE below \in Cells(s) /\ g[below] \in {4, 5, 6, 7}
    OBVIOUS
  <2>1. InTime(s, r, k, <<c[1] + 1, c[2] + 1>>) /\ ~InTime(s, r, k, <<c[1], c[2] + 1>>)
    BY <1>0
  <2>2. c[2] + 1 # s.height - 1
    BY <1>3, <2>1
  <2>3. below \in Cells(s)
    BY <1>1, <2>2 DEF Cells
  <2>4. below[1] = c[1] /\ below[2] = c[2] + 1
    BY <1>1
  <2>5. g[below] \in 0..15 /\ ~(g[below] \in 8..15) /\ g[below] \in (4..7) \cup (12..15)
    BY <1>2, <2>1, <2>3, <2>4
  <2> QED BY <2>3, <2>5
<1>6. g[c] \in {4, 5, 12, 13} => right \in Cells(s) /\ g[right] \in {8, 10, 12, 14}
  <2> SUFFICES ASSUME g[c] \in {4, 5, 12, 13} PROVE right \in Cells(s) /\ g[right] \in {8, 10, 12, 14}
    OBVIOUS
  <2>1. InTime(s, r, k, <<c[1] + 1, c[2]>>) /\ ~InTime(s, r, k, <<c[1] + 1, c[2] + 1>>)
    BY <1>0
  <2>2. c[1] + 1 # s.width - 1
    BY <1>3, <2>1
  <2>3. right \in Cells(s)
    BY <1>1, <2>2 DEF Cells
  <2>4. right[1] = c[1] + 1 /\ right[2] = c[2]
    BY <1>1
  <2>5. g[right] \in 0..15 /\ g[right] \in 8..15 /\ ~(g[right] \in {1, 3, 5, 7, 9, 11, 13, 15})
    BY <1>2, <2>1, <2>3, <2>4
  <2> QED BY <2>3, <2>5
<1>7. g[c] \in {8, 9, 10, 11} => above \in Cells(s) /\ g[above] \in {1, 5, 9, 13}
  <2> SUFFICES ASSUME g[c] \in {8, 9, 10, 11} PROVE above \in Cells(s) /\ g[above] \in {1, 5, 9, 13}
    OBVIOUS
  <2>1. InTime(s, r, k, <<c[1], c[2]>>) /\ ~InTime(s, r, k, <<c[1] + 1, c[2]>>)
    BY <1>0
  <2>2. c[2] # 0
    BY <1>3, <2>1
  <2>3. above \in Cells(s)
    BY <1>1, <2>2 DEF Cells
  <2>4. above[1] = c[1] /\ above[2] + 1 = c[2] /\ above[1] + 1 = c[1] + 1
    BY <1>1
  <2>5. g[above] \in 0..15 /\ ~(g[above] \in {2, 3, 6, 7, 10, 11, 14, 15})
          /\ g[above] \in {1, 3, 5, 7, 9, 11, 13, 15}
    BY <1>2, <2>1, <2>3, <2>4
  <2> QED BY <2>3, <2>5
<1> QED BY <1>4, <1>5, <1>6, <1>7 DEF g

-----------------------------------------------------------------------------
(* The contour is that of the cutoff worked on. *)
ContourIsOfTheStep ==
  /\ surface.width \in Nat /\ surface.height \in Nat
  /\ contour = get_contour(surface, request, cutoff)

(* A crossing is left by a crossing. *)
LEMMA OnwardIsCrossing ==
  ASSUME ContourIsOfTheStep, NEW e \in Crossings
  PROVE  /\ onward[e] = <<e[2], followLoop(contour[e[2]], e[2], e[1])>>
         /\ onward[e] \in Crossings /\ contour[e[2]] \notin {0, 15} /\ onward[e] # e
<1> DEFINE c == e[1]
           d == e[2]
           n == followLoop(contour[d], d, c)
<1>1. c \in Cells(surface) /\ d \in Cells(surface) /\ Over(c, d) /\ e = <<c, d>>
  BY DEF Crossings
<1>2. /\ c = <<c[1], c[2]>> /\ c[1] \in Nat /\ c[2] \in Nat
      /\ d = <<d[1], d[2]>> /\ d[1] \in Nat /\ d[2] \in Nat
  BY <1>1, CellsArePairs DEF ContourIsOfTheStep
<1>3. LET left == <<d[1] - 1, d[2]>>
          below == <<d[1], d[2] + 1>>
          right == <<d[1] + 1, d[2]>>
          above == <<d[1], d[2] - 1>>
      IN /\ contour[d] \in {1, 3, 5, 7} => left \in Cells(surface) /\ contour[left] \in {2, 3, 10, 11}
         /\ contour[d] \in {2, 6, 10, 14} => below \in Cells(surface) /\ contour[below] \in {4, 5, 6, 7}
         /\ contour[d] \in {4, 5, 12, 13} => right \in Cells(surface) /\ contour[right] \in {8, 10, 12, 14}
         /\ contour[d] \in {8, 9, 10, 11} => above \in Cells(surface) /\ contour[above] \in {1, 5, 9, 13}
  BY <1>1, CellsBeyond DEF ContourIsOfTheStep
<1>4. onward[e] = <<d, n>>
  BY DEF onward
<1>5. n # d /\ n \in Cells(surface) /\ Over(d, n) /\ contour[d] \notin {0, 15}
  <2>1. /\ contour[d] \in {1, 2, 3, 4, 5, 6, 7, 8, 9, 10, 11, 12, 13, 14}
        /\ contour[d] = 5 => c[2] < d[2] \/ c[2] > d[2]
        /\ contour[d] = 10 => c[1] < d[1] \/ c[1] > d[1]
    BY <1>1, <1>2 DEF Over
  <2>2. \/ n = <<d[1] - 1, d[2]>> /\ contour[d] \in {1, 3, 5, 7}
        \/ n = <<d[1], d[2] + 1>> /\ contour[d] \in {2, 6, 10, 14}
        \/ n = <<d[1] + 1, d[2]>> /\ contour[d] \in {4, 5, 12, 13}
        \/ n = <<d[1], d[2] - 1>> /\ contour[d] \in {8, 9, 10, 11}
    BY <2>1, <1>2 DEF followLoop
  <2> HIDE DEF n
  <2>3. n \in Cells(surface) /\ Over(d, n)
    BY <1>3, <2>2 DEF Over
  <2> QED BY <1>2, <2>1, <2>2, <2>3
<1>6. <<d, n>> \in Crossings
  BY <1>1, <1>5 DEF Crossings
<1>7. c # d
  BY <1>1, <1>2 DEF Over
<1> QED BY <1>1, <1>4, <1>5, <1>6, <1>7

(* A plain cell is left by a crossing, whichever way it was entered. *)
LEMMA PlainIsLeft ==
  ASSUME ContourIsOfTheStep, NEW d \in Plain, NEW c
  PROVE  <<d, followLoop(contour[d], d, c)>> \in Crossings
<1> DEFINE n == followLoop(contour[d], d, c)
<1>1. d \in Cells(surface) /\ contour[d] \notin {0, 5, 10, 15}
  BY DEF Plain
<1>2. d = <<d[1], d[2]>> /\ d[1] \in Nat /\ d[2] \in Nat /\ contour[d] \in 0..15
  BY <1>1, CellsArePairs, CornersOfCells DEF ContourIsOfTheStep
<1>3. LET left == <<d[1] - 1, d[2]>>
          below == <<d[1], d[2] + 1>>
          right == <<d[1] + 1, d[2]>>
          above == <<d[1], d[2] - 1>>
      IN /\ contour[d] \in {1, 3, 5, 7} => left \in Cells(surface) /\ contour[left] \in {2, 3, 10, 11}
         /\ contour[d] \in {2, 6, 10, 14} => below \in Cells(surface) /\ contour[below] \in {4, 5, 6, 7}
         /\ contour[d] \in {4, 5, 12, 13} => right \in Cells(surface) /\ contour[right] \in {8, 10, 12, 14}
         /\ contour[d] \in {8, 9, 10, 11} => above \in Cells(surface) /\ contour[above] \in {1, 5, 9, 13}
  BY <1>1, CellsBeyond DEF ContourIsOfTheStep
<1>4. n \in Cells(surface) /\ Over(d, n)
  BY <1>1, <1>2, <1>3 DEF Over, followLoop
<1> QED BY <1>1, <1>4 DEF Crossings

(* There is one way into a plain cell. *)
LEMMA OneWayIn ==
  ASSUME ContourIsOfTheStep, NEW e \in Crossings, NEW f \in Crossings, e[2] = f[2], e[2] \in Plain
  PROVE  e = f
<1>1. /\ e = <<e[1], e[2]>> /\ f = <<f[1], f[2]>> /\ Over(e[1], e[2]) /\ Over(f[1], f[2])
      /\ e[1] \in Cells(surface) /\ f[1] \in Cells(surface) /\ e[2] \in Cells(surface)
  BY DEF Crossings
<1>2. /\ e[1] = <<e[1][1], e[1][2]>> /\ e[1][1] \in Nat /\ e[1][2] \in Nat
      /\ f[1] = <<f[1][1], f[1][2]>> /\ f[1][1] \in Nat /\ f[1][2] \in Nat
      /\ e[2] = <<e[2][1], e[2][2]>> /\ e[2][1] \in Nat /\ e[2][2] \in Nat
  BY <1>1, CellsArePairs DEF ContourIsOfTheStep
<1>3. contour[e[2]] \notin {0, 5, 10, 15}
  BY DEF Plain
<1>4. e[1] = f[1]
  BY <1>1, <1>2, <1>3 DEF Over
<1> QED BY <1>1, <1>4

(* No two crossings lead into the same one. *)
LEMMA OnwardIsOneToOne ==
  ASSUME ContourIsOfTheStep, NEW e \in Crossings, NEW f \in Crossings, onward[e] = onward[f]
  PROVE  e = f
<1>1. /\ e = <<e[1], e[2]>> /\ f = <<f[1], f[2]>> /\ Over(e[1], e[2]) /\ Over(f[1], f[2])
      /\ e[1] \in Cells(surface) /\ f[1] \in Cells(surface) /\ e[2] \in Cells(surface)
  BY DEF Crossings
<1>2. /\ e[1] = <<e[1][1], e[1][2]>> /\ e[1][1] \in Nat /\ e[1][2] \in Nat
      /\ f[1] = <<f[1][1], f[1][2]>> /\ f[1][1] \in Nat /\ f[1][2] \in Nat
      /\ e[2] = <<e[2][1], e[2][2]>> /\ e[2][1] \in Nat /\ e[2][2] \in Nat
  BY <1>1, CellsArePairs DEF ContourIsOfTheStep
<1>3. e[2] = f[2] /\ followLoop(contour[e[2]], e[2], e[1]) = followLoop(contour[e[2]], e[2], f[1])
  BY OnwardIsCrossing
<1>4. CASE e[2] \in Plain
  BY <1>3, <1>4, OneWayIn
<1>5. CASE e[2] \notin Plain
  <2>1. contour[e[2]] \in {5, 10}
    BY <1>1, <1>5, OnwardIsCrossing DEF Plain
  <2>2. e[1] = f[1]
    BY <1>1, <1>2, <1>3, <2>1 DEF Over, followLoop
  <2> QED BY <1>1, <1>3, <2>2
<1> QED BY <1>4, <1>5

(* There is one way out of a plain cell. *)
LEMMA OneWayOut ==
  ASSUME ContourIsOfTheStep, NEW e \in Crossings, NEW f \in Crossings, e[1] = f[1], e[1] \in Plain
  PROVE  e = f
<1>1. /\ e = <<e[1], e[2]>> /\ f = <<f[1], f[2]>> /\ Over(e[1], e[2]) /\ Over(f[1], f[2])
      /\ e[1] \in Cells(surface)
  BY DEF Crossings
<1>2. contour[e[1]] \notin {0, 5, 10, 15}
  BY DEF Plain
<1>3. e[2] = f[2]
  BY <1>1, <1>2 DEF Over
<1> QED BY <1>1, <1>3

-----------------------------------------------------------------------------
(* What is crossed so far.  A plain cell is found once it is left.  Every  *)
(* crossing was led to by another one but the first of the line followed,  *)
(* and the last of that line does not lead where a line was already.       *)
LedTo(E, e) == \E d \in E : onward[d] = e

Trace(E) ==
  /\ E \subseteq Crossings
  /\ found = {c \in Plain : \E e \in E : e[1] = c}
  /\ AtRest \/ line.pos = line.orig => \A e \in E : LedTo(E, e)
  /\ ~AtRest /\ line.pos = line.orig => line.orig \notin found
  /\ ~AtRest /\ line.pos # line.orig =>
       /\ <<line.start, line.pos>> \in E
       /\ onward[<<line.start, line.pos>>] \notin E
       /\ \A e \in E : e[1] # line.orig => LedTo(E, e)

IsolineState ==
  /\ <<surface, request>> \in Answers /\ cutoff \in Nat
  /\ Len(isolines) = cutoff - 1 /\ \E S : isolines \in Seq(S)
  /\ DOMAIN line = {"orig", "pos", "start", "direction", "coords"}
  /\ ~AtRest => line.orig \in Plain /\ line.pos \in Cells(surface)

IsolineInv == IsolineState /\ ContourIsOfTheStep /\ discarded = 0 /\ \E E : Trace(E)

LEMMA AppendedTo ==
  ASSUME NEW s, \E S : s \in Seq(S), NEW x
  PROVE  (\E S : Append(s, x) \in Seq(S)) /\ Len(Append(s, x)) = Len(s) + 1
<1>1. PICK S : s \in Seq(S)
  OBVIOUS
<1>2. s \in Seq(S \cup {x})
  BY <1>1, Zenon, SeqMonotonic
<1>3. Append(s, x) \in Seq(S \cup {x}) /\ Len(Append(s, x)) = Len(s) + 1
  BY <1>2
<1> QED BY <1>3

(* At first nothing is crossed. *)
LEMMA IsolineInitInv == IsolineInit => IsolineInv
<1> SUFFICES ASSUME IsolineInit PROVE IsolineInv
  OBVIOUS
<1>1. <<surface, request>> \in Answers /\ surface.width \in Nat /\ surface.height \in Nat
  <2>1. PICK a \in Answers : surface = a[1] /\ request = a[2]
    BY DEF IsolineInit
  <2> QED BY <2>1, AnswersAssumption
<1>2. AtRest /\ DOMAIN line = {"orig", "pos", "start", "direction", "coords"}
  BY DEF IsolineInit, AtRest, NoLine
<1>3. Len(isolines) = 0 /\ isolines \in Seq({})
  BY DEF IsolineInit
<1>4. Trace({})
  BY <1>2 DEF IsolineInit, Trace, LedTo
<1> QED BY <1>1, <1>2, <1>3, <1>4 DEF IsolineInit, IsolineInv, IsolineState, ContourIsOfTheStep

(* Crossings are of the contour. *)
LEMMA NothingMoved ==
  ASSUME UNCHANGED <<surface, contour>>
  PROVE  Crossings' = Crossings /\ onward' = onward /\ Plain' = Plain
<1>1. Crossings' = Crossings
  BY DEF Crossings, Over
<1> QED BY <1>1 DEF onward, Plain

(* The next step begins with nothing crossed. *)
LEMMA SortKeeps == IsolineInv /\ SortHoles => IsolineInv'
<1> SUFFICES ASSUME IsolineInv, SortHoles PROVE IsolineInv'
  OBVIOUS
<1>1. PICK x : isolines' = Append(isolines, x)
  BY DEF SortHoles
<1>2. Len(isolines') = cutoff' - 1 /\ cutoff' \in Nat /\ \E S : isolines' \in Seq(S)
  <2>1. Len(isolines) = cutoff - 1 /\ cutoff \in Nat /\ \E S : isolines \in Seq(S)
    BY DEF IsolineInv, IsolineState
  <2>2. Len(isolines') = Len(isolines) + 1 /\ \E S : isolines' \in Seq(S)
    BY <1>1, <2>1, AppendedTo
  <2>3. cutoff' = cutoff + 1
    BY DEF SortHoles
  <2>4. Len(isolines') = cutoff' - 1 /\ cutoff' \in Nat
    BY <2>1, <2>2, <2>3
  <2> QED BY <2>2, <2>4
<1>3. AtRest' /\ line' = line /\ found' = {}
  BY DEF SortHoles, AtRest
<1>4. Trace({})'
  BY <1>3 DEF Trace, LedTo
<1>5. IsolineState' /\ ContourIsOfTheStep' /\ discarded' = 0
  BY <1>2, <1>3 DEF IsolineInv, IsolineState, ContourIsOfTheStep, SortHoles
<1> QED BY <1>4, <1>5 DEF IsolineInv

(* Where the line followed goes next. *)
NextCell == followLoop(contour[line.pos], line.pos, line.start)

Taken == <<line.pos, NextCell>>

NewTurn == line.direction + (NextCell[1] - line.pos[1]) * (NextCell[2] + line.pos[2])

NewCoords == Append(line.coords, noInterpolate(NextCell, line.pos))

NewRing == Append(NewCoords, NewCoords[1])

LEMMA FollowTraces ==
  ASSUME IsolineState, ContourIsOfTheStep, discarded = 0, NEW E, Trace(E), FollowLine, NEW F, F = E \cup {Taken}
  PROVE  /\ Taken \in Crossings /\ Taken \notin E /\ NextCell # line.pos
         /\ line.pos # line.orig => <<line.start, line.pos>> \in E /\ onward[<<line.start, line.pos>>] = Taken
         /\ NextCell = line.orig => \A e \in F : e[1] = line.orig => onward[Taken] = e
         /\ UNCHANGED <<surface, request, cutoff, contour, isolines>>
         /\ line' = IF NextCell = line.orig THEN NoLine
                    ELSE [line EXCEPT !.pos = NextCell, !.start = line.pos,
                                      !.direction = NewTurn, !.coords = NewCoords]
         /\ shells' = shells \cup {x \in {NewRing} : NextCell = line.orig /\ NewTurn > 0}
         /\ holes' = holes \cup {x \in {NewRing} : NextCell = line.orig /\ NewTurn <= 0}
         /\ Trace(F)' /\ IsolineState' /\ ContourIsOfTheStep' /\ discarded' = 0
<1> DEFINE idx == contour[line.pos]
           here == IF Saddle(idx) THEN {} ELSE {line.pos}
           next == followLoop(idx, line.pos, line.start)
           turn == line.direction + (next[1] - line.pos[1]) * (next[2] + line.pos[2])
           coords == Append(line.coords, noInterpolate(next, line.pos))
           ring == Append(coords, coords[1])
           open == \/ idx \in {0, 15} \/ next = line.pos
                   \/ next # line.orig /\ next \in found \cup here
           f == <<line.pos, next>>
           last == <<line.start, line.pos>>
<1>1. Crossings' = Crossings /\ onward' = onward /\ Plain' = Plain
  BY NothingMoved DEF FollowLine
<1>3. /\ found' = found \cup here
      /\ discarded' = discarded + (IF open THEN 1 ELSE 0)
      /\ line' = IF open \/ next = line.orig THEN NoLine
                 ELSE [line EXCEPT !.pos = next, !.start = line.pos,
                                   !.direction = turn, !.coords = coords]
      /\ shells' = shells \cup {x \in {ring} : ~open /\ next = line.orig /\ turn > 0}
      /\ holes' = holes \cup {x \in {ring} : ~open /\ next = line.orig /\ turn <= 0}
  BY DEF FollowLine
<1>4. /\ ~AtRest /\ ContourIsOfTheStep /\ discarded = 0
      /\ UNCHANGED <<surface, request, cutoff, contour, isolines>>
      /\ line.orig \in Plain /\ line.pos \in Cells(surface)
      /\ DOMAIN line = {"orig", "pos", "start", "direction", "coords"}
  BY DEF IsolineState, FollowLine
<1>5. found = {c \in Plain : \E e \in E : e[1] = c} /\ E \subseteq Crossings
  BY DEF Trace
(* Whichever way the line got here, it leaves by a crossing that is new,   *)
(* and so is the one after it unless that one is the line's first.         *)
<1>6. f \in Crossings /\ f \notin E /\ idx \notin {0, 15}
  <2>1. CASE line.pos = line.orig
    <3>1. line.pos \in Plain /\ line.orig \notin found
      BY <1>4, <2>1 DEF Trace
    <3>2. f \in Crossings
      BY <1>4, <3>1, PlainIsLeft
    <3> QED BY <1>5, <2>1, <3>1, <3>2 DEF Plain
  <2>2. CASE line.pos # line.orig
    <3>1. last \in E /\ onward[last] \notin E
      BY <1>4, <2>2 DEF Trace
    <3>2. last \in Crossings
      BY <1>5, <3>1
    <3>3. onward[last] = f /\ f \in Crossings /\ idx \notin {0, 15}
      BY <1>4, <3>2, OnwardIsCrossing
    <3> QED BY <3>1, <3>3
  <2> QED BY <2>1, <2>2
<1>7. next # line.pos /\ next \in Cells(surface)
  <2>1. onward[f] # f /\ line.pos = f[1] /\ next = f[2]
    BY <1>4, <1>6, OnwardIsCrossing
  <2>2. Over(line.pos, next) /\ line.pos \in Cells(surface) /\ next \in Cells(surface)
    BY <1>6 DEF Crossings
  <2>3. line.pos = <<line.pos[1], line.pos[2]>> /\ line.pos[1] \in Nat /\ line.pos[2] \in Nat
    BY <1>4, CellsArePairs DEF ContourIsOfTheStep
  <2> QED BY <2>2, <2>3 DEF Over
<1>8. \A e \in E : e[1] # line.orig => LedTo(E, e)
  BY <1>4 DEF Trace
<1>9. next # line.orig => next \notin found
  <2> SUFFICES ASSUME next # line.orig, next \in found PROVE FALSE
    OBVIOUS
  <2>1. PICK e \in E : e[1] = next
    BY <1>5
  <2>2. PICK d \in E : onward[d] = e
    BY <1>8, <2>1 DEF LedTo
  <2>3. d[2] = next
    BY <1>4, <1>5, <2>1, <2>2, OnwardIsCrossing
  <2>4. next \in Plain
    BY <1>5
  <2>5. d = f
    BY <1>4, <1>5, <1>6, <2>3, <2>4, OneWayIn
  <2> QED BY <1>6, <2>5
<1>10. ~open
  BY <1>6, <1>7, <1>9
<1>11. next # line.orig => onward[f] \notin E \cup {f}
  <2> SUFFICES ASSUME next # line.orig, onward[f] \in E PROVE FALSE
    BY <1>4, <1>6, OnwardIsCrossing
  <2>1. onward[f][1] = next
    BY <1>4, <1>6, OnwardIsCrossing
  <2>2. PICK d \in E : onward[d] = onward[f]
    BY <1>8, <2>1 DEF LedTo
  <2>3. d = f
    BY <1>4, <1>5, <1>6, <2>2, OnwardIsOneToOne
  <2> QED BY <1>6, <2>3
<1>12. line.pos # line.orig => onward[last] = f /\ last \in E
  <2>1. ASSUME line.pos # line.orig PROVE onward[last] = f /\ last \in E
    <3>1. last \in E
      BY <1>4, <2>1 DEF Trace
    <3> QED BY <1>4, <1>5, <3>1, OnwardIsCrossing
  <2> QED BY <2>1
<1>13. F = E \cup {f}
  BY DEF Taken, NextCell
<1>14. found' = {c \in Plain : \E e \in F : e[1] = c}
  <2>1. here = {line.pos} \cap Plain
    BY <1>4, <1>6 DEF Plain, Saddle
  <2>2. f[1] = line.pos
    OBVIOUS
  <2> HIDE DEF here, f
  <2> QED BY <1>3, <1>5, <1>13, <2>1, <2>2
<1>15. \A e \in F : e[1] # line.orig => LedTo(F, e)
  BY <1>8, <1>12, <1>13 DEF LedTo
<1>18. next = line.orig => \A e \in F : e[1] = line.orig => onward[f] = e
  <2> SUFFICES ASSUME next = line.orig, NEW e \in F, e[1] = line.orig PROVE onward[f] = e
    OBVIOUS
  <2>1. onward[f] = <<next, followLoop(contour[next], next, line.pos)>>
    BY <1>4, <1>6, OnwardIsCrossing
  <2>2. e \in Crossings /\ e[1] \in Plain
    BY <1>4, <1>5, <1>6, <1>13
  <2>3. onward[f] \in Crossings /\ onward[f][1] = e[1]
    BY <1>4, <1>6, <2>1, OnwardIsCrossing
  <2> QED BY <1>4, <2>2, <2>3, OneWayOut
<1>16. ASSUME next = line.orig PROVE Trace(F)' /\ IsolineState' /\ ContourIsOfTheStep' /\ discarded' = 0
  <2>1. line' = NoLine /\ AtRest'
    BY <1>3, <1>16 DEF AtRest
  <2>3. \A e \in F : LedTo(F, e)
    BY <1>13, <1>15, <1>16, <1>18 DEF LedTo
  <2>4. Trace(F)'
    BY <1>1, <1>5, <1>6, <1>13, <1>14, <2>1, <2>3 DEF Trace, LedTo
  <2>5. IsolineState' /\ ContourIsOfTheStep' /\ discarded' = 0
    BY <1>1, <1>3, <1>4, <1>10, <2>1 DEF IsolineState, ContourIsOfTheStep, NoLine
  <2> QED BY <2>4, <2>5
<1>17. ASSUME next # line.orig PROVE Trace(F)' /\ IsolineState' /\ ContourIsOfTheStep' /\ discarded' = 0
  <2> HIDE DEF next, turn, coords
  <2>1. /\ line'.orig = line.orig /\ line'.pos = next /\ line'.start = line.pos
        /\ DOMAIN line' = {"orig", "pos", "start", "direction", "coords"}
    BY <1>3, <1>4, <1>10, <1>17
  <2>2. Trace(F)'
    <3>1. line'.pos # line'.orig
      BY <1>17, <2>1
    <3>2. <<line'.start, line'.pos>> = f
      BY <2>1
    <3>3. onward'[<<line'.start, line'.pos>>] \notin F
      BY <1>1, <1>11, <1>13, <1>17, <3>2
    <3>4. \A e \in F : e[1] # line'.orig => LedTo(F, e)'
      BY <1>1, <1>15, <2>1 DEF LedTo
    <3>5. AtRest' => (line.pos = line.orig)'
      BY DEF AtRest, NoLine
    <3> QED BY <1>1, <1>5, <1>6, <1>13, <1>14, <3>1, <3>2, <3>3, <3>4, <3>5 DEF Trace
  <2>3. IsolineState' /\ ContourIsOfTheStep' /\ discarded' = 0
    BY <1>1, <1>3, <1>4, <1>7, <1>10, <2>1 DEF IsolineState, ContourIsOfTheStep
  <2> QED BY <2>2, <2>3
<1>19. /\ shells' = shells \cup {x \in {ring} : next = line.orig /\ turn > 0}
       /\ holes' = holes \cup {x \in {ring} : next = line.orig /\ turn <= 0}
       /\ line' = IF next = line.orig THEN NoLine
                  ELSE [line EXCEPT !.pos = next, !.start = line.pos, !.direction = turn, !.coords = coords]
  BY <1>3, <1>10
<1>20. Trace(F)' /\ IsolineState' /\ ContourIsOfTheStep' /\ discarded' = 0
  BY <1>16, <1>17
<1> QED BY ONLY <1>4, <1>6, <1>7, <1>12, <1>18, <1>19, <1>20
        DEF NextCell, Taken, NewTurn, NewCoords, NewRing

-----------------------------------------------------------------------------
(* Winding.  Pixels on the sides of a crossing, what the four kinds cross. *)
IsReached(x, y) == InTime(surface, request, cutoff, <<x, y>>)

Downward(x, y) == <<<<x, y>>, <<x, y - 1>>>>

Upward(x, y) == <<<<x, y - 1>>, <<x, y>>>>

Forward(x, y) == <<<<x - 1, y>>, <<x, y>>>>

Backward(x, y) == <<<<x, y>>, <<x - 1, y>>>>

CornersAre(x, y) ==
  LET g == contour[<<x, y>>]
  IN /\ g \in 0..15
     /\ g \in 8..15 <=> IsReached(x, y)
     /\ g \in (4..7) \cup (12..15) <=> IsReached(x + 1, y)
     /\ g \in {2, 3, 6, 7, 10, 11, 14, 15} <=> IsReached(x + 1, y + 1)
     /\ g \in {1, 3, 5, 7, 9, 11, 13, 15} <=> IsReached(x, y + 1)

(* The corners of a cell say what is reached. *)
LEMMA CellIs ==
  ASSUME ContourIsOfTheStep, NEW x \in Int, NEW y \in Int
  PROVE  /\ <<x, y>> \in Cells(surface) <=> x \in 0..(surface.width - 2) /\ y \in 0..(surface.height - 2)
         /\ <<x, y>> \in Cells(surface) => CornersAre(x, y)
<1>1. <<x, y>> \in Cells(surface) <=> x \in 0..(surface.width - 2) /\ y \in 0..(surface.height - 2)
  BY DEF Cells
<1>2. ASSUME <<x, y>> \in Cells(surface) PROVE CornersAre(x, y)
  <2>1. PICK c \in Cells(surface) : c = <<x, y>>
    BY <1>2
  <2>2. c[1] = x /\ c[2] = y
    BY <2>1
  <2> QED BY ONLY <2>1, <2>2, CornersOfCells, ContourIsOfTheStep DEF ContourIsOfTheStep, CornersAre, IsReached
<1> QED BY <1>1, <1>2

LEMMA BorderIsNot ==
  ASSUME NEW x, NEW y, IsReached(x, y)
  PROVE  x \notin {0, surface.width - 1} /\ y \notin {0, surface.height - 1}
BY DEF IsReached, InTime, Border

(* Which crossings there are, by what is reached beside them. *)
LEMMA CrossingsAcross ==
  ASSUME ContourIsOfTheStep, NEW x \in 0..(surface.width - 2), NEW y \in 0..(surface.height - 1)
  PROVE  /\ Downward(x, y) \in Crossings <=> IsReached(x, y) /\ ~IsReached(x + 1, y)
         /\ Upward(x, y) \in Crossings <=> IsReached(x + 1, y) /\ ~IsReached(x, y)
<1>1. surface.width \in Nat /\ surface.height \in Nat
  BY DEF ContourIsOfTheStep
<1>2. CASE y \in 1..(surface.height - 2)
  <2>1. <<x, y>> \in Cells(surface) /\ <<x, y - 1>> \in Cells(surface)
    BY <1>1, <1>2, CellIs
  <2>2. CornersAre(x, y) /\ CornersAre(x, y - 1) /\ (y - 1) + 1 = y
    BY <1>1, <1>2, <2>1, CellIs
  <2>3. PICK g, h : g = contour[<<x, y>>] /\ h = contour[<<x, y - 1>>]
    OBVIOUS
  <2>4. /\ g \in 0..15 /\ h \in 0..15
        /\ g \in 8..15 <=> IsReached(x, y)
        /\ g \in (4..7) \cup (12..15) <=> IsReached(x + 1, y)
        /\ h \in {2, 3, 6, 7, 10, 11, 14, 15} <=> IsReached(x + 1, y)
        /\ h \in {1, 3, 5, 7, 9, 11, 13, 15} <=> IsReached(x, y)
    BY <2>2, <2>3 DEF CornersAre
  <2>5. Over(<<x, y>>, <<x, y - 1>>) <=> g \in {8, 9, 10, 11} /\ h \in {1, 5, 9, 13}
    BY ONLY <2>3, <1>2, <1>1, x \in Int DEF Over
  <2>6. Over(<<x, y - 1>>, <<x, y>>) <=> h \in {2, 6, 10, 14} /\ g \in {4, 5, 6, 7}
    BY ONLY <2>3, <1>2, <1>1, x \in Int DEF Over
  <2>7. /\ Downward(x, y) \in Crossings <=> g \in {8, 9, 10, 11} /\ h \in {1, 5, 9, 13}
        /\ Upward(x, y) \in Crossings <=> h \in {2, 6, 10, 14} /\ g \in {4, 5, 6, 7}
    BY ONLY <2>1, <2>5, <2>6 DEF Crossings, Downward, Upward
  <2> QED BY ONLY <2>4, <2>7
<1>3. CASE y \in {0, surface.height - 1}
  <2>1. ~IsReached(x, y) /\ ~IsReached(x + 1, y)
    BY <1>3, BorderIsNot
  <2>2. <<x, y>> \notin Cells(surface) \/ <<x, y - 1>> \notin Cells(surface)
    BY <1>1, <1>3, CellIs
  <2> QED BY <2>1, <2>2 DEF Crossings, Downward, Upward
<1> QED BY <1>1, <1>2, <1>3

LEMMA CrossingsAlong ==
  ASSUME ContourIsOfTheStep, NEW x \in 0..(surface.width - 1), NEW y \in 0..(surface.height - 2)
  PROVE  /\ Forward(x, y) \in Crossings <=> IsReached(x, y) /\ ~IsReached(x, y + 1)
         /\ Backward(x, y) \in Crossings <=> IsReached(x, y + 1) /\ ~IsReached(x, y)
<1>1. surface.width \in Nat /\ surface.height \in Nat
  BY DEF ContourIsOfTheStep
<1>2. CASE x \in 1..(surface.width - 2)
  <2>1. <<x, y>> \in Cells(surface) /\ <<x - 1, y>> \in Cells(surface)
    BY <1>1, <1>2, CellIs
  <2>2. CornersAre(x, y) /\ CornersAre(x - 1, y) /\ (x - 1) + 1 = x
    BY <1>1, <1>2, <2>1, CellIs
  <2>3. PICK g, h : g = contour[<<x, y>>] /\ h = contour[<<x - 1, y>>]
    OBVIOUS
  <2>4. /\ g \in 0..15 /\ h \in 0..15
        /\ g \in 8..15 <=> IsReached(x, y)
        /\ g \in {1, 3, 5, 7, 9, 11, 13, 15} <=> IsReached(x, y + 1)
        /\ h \in (4..7) \cup (12..15) <=> IsReached(x, y)
        /\ h \in {2, 3, 6, 7, 10, 11, 14, 15} <=> IsReached(x, y + 1)
    BY <2>2, <2>3 DEF CornersAre
  <2>5. Over(<<x, y>>, <<x - 1, y>>) <=> g \in {1, 3, 5, 7} /\ h \in {2, 3, 10, 11}
    BY ONLY <2>3, <1>2, <1>1, y \in Int DEF Over
  <2>6. Over(<<x - 1, y>>, <<x, y>>) <=> h \in {4, 5, 12, 13} /\ g \in {8, 10, 12, 14}
    BY ONLY <2>3, <1>2, <1>1, y \in Int DEF Over
  <2>7. /\ Backward(x, y) \in Crossings <=> g \in {1, 3, 5, 7} /\ h \in {2, 3, 10, 11}
        /\ Forward(x, y) \in Crossings <=> h \in {4, 5, 12, 13} /\ g \in {8, 10, 12, 14}
    BY ONLY <2>1, <2>5, <2>6 DEF Crossings, Forward, Backward
  <2> QED BY ONLY <2>4, <2>7
<1>3. CASE x \in {0, surface.width - 1}
  <2>1. ~IsReached(x, y) /\ ~IsReached(x, y + 1)
    BY <1>3, BorderIsNot
  <2>2. <<x, y>> \notin Cells(surface) \/ <<x - 1, y>> \notin Cells(surface)
    BY <1>1, <1>3, CellIs
  <2> QED BY <2>1, <2>2 DEF Crossings, Forward, Backward
<1> QED BY <1>1, <1>2, <1>3

IsAcross(e, x, y) ==
  /\ x \in 0..(surface.width - 2) /\ y \in 1..(surface.height - 2)
  /\ e \in {Downward(x, y), Upward(x, y)}

IsAlong(e, x, y) ==
  /\ x \in 1..(surface.width - 2) /\ y \in 0..(surface.height - 2)
  /\ e \in {Forward(x, y), Backward(x, y)}

(* There are no others. *)
LEMMA KindsOfCrossings ==
  ASSUME ContourIsOfTheStep, NEW e \in Crossings
  PROVE  \E x, y \in Nat : IsAcross(e, x, y) \/ IsAlong(e, x, y)
<1>1. PICK c, d \in Cells(surface) : e = <<c, d>> /\ Over(c, d)
  BY DEF Crossings
<1>2. PICK cx, cy, dx, dy \in Nat : c = <<cx, cy>> /\ d = <<dx, dy>>
  BY DEF Cells
<1>3. /\ cx \in 0..(surface.width - 2) /\ cy \in 0..(surface.height - 2)
      /\ dx \in 0..(surface.width - 2) /\ dy \in 0..(surface.height - 2)
      /\ surface.width \in Nat /\ surface.height \in Nat
  BY <1>1, <1>2, CellIs DEF ContourIsOfTheStep
<1>4. \/ dx = cx - 1 /\ dy = cy
      \/ dx = cx /\ dy = cy + 1
      \/ dx = cx + 1 /\ dy = cy
      \/ dx = cx /\ dy = cy - 1
  BY <1>1, <1>2 DEF Over
<1>5. CASE dx = cx - 1 /\ dy = cy
  <2>1. e = Backward(cx, cy)
    BY <1>1, <1>2, <1>5 DEF Backward
  <2> QED BY <1>3, <1>5, <2>1 DEF IsAlong
<1>6. CASE dx = cx /\ dy = cy + 1
  <2>1. e = Upward(dx, dy)
    BY <1>1, <1>2, <1>6 DEF Upward
  <2> QED BY <1>3, <1>6, <2>1 DEF IsAcross
<1>7. CASE dx = cx + 1 /\ dy = cy
  <2>1. e = Forward(dx, dy)
    BY <1>1, <1>2, <1>7 DEF Forward
  <2> QED BY <1>3, <1>7, <2>1 DEF IsAlong
<1>8. CASE dx = cx /\ dy = cy - 1
  <2>1. e = Downward(cx, cy)
    BY <1>1, <1>2, <1>8 DEF Downward
  <2> QED BY <1>3, <1>8, <2>1 DEF IsAcross
<1> QED BY <1>4, <1>5, <1>6, <1>7, <1>8

(* The way through a cell, by what is reached at its corners.              *)
LEMMA OnwardThrough ==
  ASSUME ContourIsOfTheStep, NEW x \in 0..(surface.width - 2), NEW y \in 0..(surface.height - 2)
  PROVE  /\ Upward(x, y) \in Crossings =>
              onward[Upward(x, y)] = IF IsReached(x, y + 1) THEN Backward(x, y)
                                     ELSE IF IsReached(x + 1, y + 1) THEN Upward(x, y + 1)
                                     ELSE Forward(x + 1, y)
         /\ Backward(x + 1, y) \in Crossings =>
              onward[Backward(x + 1, y)] = IF IsReached(x, y) THEN Downward(x, y)
                                           ELSE IF IsReached(x, y + 1) THEN Backward(x, y)
                                           ELSE Upward(x, y + 1)
         /\ Downward(x, y + 1) \in Crossings =>
              onward[Downward(x, y + 1)] = IF IsReached(x + 1, y) THEN Forward(x + 1, y)
                                           ELSE IF IsReached(x, y) THEN Downward(x, y)
                                           ELSE Backward(x, y)
         /\ Forward(x, y) \in Crossings =>
              onward[Forward(x, y)] = IF IsReached(x + 1, y + 1) THEN Upward(x, y + 1)
                                      ELSE IF IsReached(x + 1, y) THEN Forward(x + 1, y)
                                      ELSE Downward(x, y)
<1>1. surface.width \in Nat /\ surface.height \in Nat /\ x \in Nat /\ y \in Nat
  BY DEF ContourIsOfTheStep
<1>2. CornersAre(x, y)
  <2>1. <<x, y>> \in Cells(surface)
    BY <1>1, CellIs
  <2> QED BY <1>1, <2>1, CellIs
<1>3. PICK g : g = contour[<<x, y>>]
  OBVIOUS
<1>4. PICK a, b, c, d \in BOOLEAN : /\ a <=> IsReached(x, y)
                                    /\ b <=> IsReached(x + 1, y)
                                    /\ c <=> IsReached(x + 1, y + 1)
                                    /\ d <=> IsReached(x, y + 1)
  <2>1. PICK a \in BOOLEAN : a <=> IsReached(x, y)
    BY DEF IsReached, InTime
  <2>2. PICK b \in BOOLEAN : b <=> IsReached(x + 1, y)
    BY DEF IsReached, InTime
  <2>3. PICK c \in BOOLEAN : c <=> IsReached(x + 1, y + 1)
    BY DEF IsReached, InTime
  <2>4. PICK d \in BOOLEAN : d <=> IsReached(x, y + 1)
    BY DEF IsReached, InTime
  <2> QED BY <2>1, <2>2, <2>3, <2>4
<1>5. /\ g \in 0..15 /\ g \in 8..15 <=> a
      /\ g \in (4..7) \cup (12..15) <=> b
      /\ g \in {2, 3, 6, 7, 10, 11, 14, 15} <=> c
      /\ g \in {1, 3, 5, 7, 9, 11, 13, 15} <=> d
  BY ONLY <1>2, <1>3, <1>4 DEF CornersAre
<1>6. \A e \in Crossings : e[2] = <<x, y>> => onward[e] = <<<<x, y>>, followLoop(g, <<x, y>>, e[1])>>
  BY <1>3, OnwardIsCrossing
<1>7. /\ Upward(x, y) \in Crossings => b /\ ~a
      /\ Backward(x + 1, y) \in Crossings => c /\ ~b
      /\ Downward(x, y + 1) \in Crossings => d /\ ~c
      /\ Forward(x, y) \in Crossings => a /\ ~d
  <2>1. /\ x \in 0..(surface.width - 2) /\ y \in 0..(surface.height - 1)
        /\ y + 1 \in 0..(surface.height - 1)
        /\ x \in 0..(surface.width - 1) /\ y \in 0..(surface.height - 2)
        /\ x + 1 \in 0..(surface.width - 1)
    BY <1>1
  <2> QED BY ONLY <1>4, <2>1, ContourIsOfTheStep, CrossingsAcross, CrossingsAlong
<1>8. Upward(x, y) \in Crossings =>
        onward[Upward(x, y)] = IF d THEN Backward(x, y) ELSE IF c THEN Upward(x, y + 1) ELSE Forward(x + 1, y)
  <2> SUFFICES ASSUME Upward(x, y) \in Crossings
               PROVE  onward[Upward(x, y)] = IF d THEN Backward(x, y) ELSE IF c THEN Upward(x, y + 1)
                                             ELSE Forward(x + 1, y)
    OBVIOUS
  <2>1. onward[Upward(x, y)] = <<<<x, y>>, followLoop(g, <<x, y>>, <<x, y - 1>>)>>
    BY <1>6 DEF Upward
  <2>2. followLoop(g, <<x, y>>, <<x, y - 1>>) = IF d THEN <<x - 1, y>> ELSE IF c THEN <<x, y + 1>> ELSE <<x + 1, y>>
    BY ONLY <1>1, <1>4, <1>5, <1>7, Upward(x, y) \in Crossings DEF followLoop
  <2>3. (y + 1) - 1 = y /\ (x + 1) - 1 = x
    BY <1>1
  <2> QED BY ONLY <2>1, <2>2, <2>3 DEF Upward, Backward, Forward
<1>9. Backward(x + 1, y) \in Crossings =>
        onward[Backward(x + 1, y)] = IF a THEN Downward(x, y) ELSE IF d THEN Backward(x, y) ELSE Upward(x, y + 1)
  <2> SUFFICES ASSUME Backward(x + 1, y) \in Crossings
               PROVE  onward[Backward(x + 1, y)] = IF a THEN Downward(x, y) ELSE IF d THEN Backward(x, y)
                                                   ELSE Upward(x, y + 1)
    OBVIOUS
  <2>3. (y + 1) - 1 = y /\ (x + 1) - 1 = x
    BY <1>1
  <2>1. onward[Backward(x + 1, y)] = <<<<x, y>>, followLoop(g, <<x, y>>, <<x + 1, y>>)>>
    BY <1>6, <2>3 DEF Backward
  <2>2. followLoop(g, <<x, y>>, <<x + 1, y>>) = IF a THEN <<x, y - 1>> ELSE IF d THEN <<x - 1, y>> ELSE <<x, y + 1>>
    BY ONLY <1>1, <1>4, <1>5, <1>7, Backward(x + 1, y) \in Crossings DEF followLoop
  <2> QED BY ONLY <2>1, <2>2, <2>3 DEF Upward, Backward, Downward
<1>10. Downward(x, y + 1) \in Crossings =>
        onward[Downward(x, y + 1)] = IF b THEN Forward(x + 1, y) ELSE IF a THEN Downward(x, y) ELSE Backward(x, y)
  <2> SUFFICES ASSUME Downward(x, y + 1) \in Crossings
               PROVE  onward[Downward(x, y + 1)] = IF b THEN Forward(x + 1, y) ELSE IF a THEN Downward(x, y)
                                                   ELSE Backward(x, y)
    OBVIOUS
  <2>3. (y + 1) - 1 = y /\ (x + 1) - 1 = x
    BY <1>1
  <2>1. onward[Downward(x, y + 1)] = <<<<x, y>>, followLoop(g, <<x, y>>, <<x, y + 1>>)>>
    BY <1>6, <2>3 DEF Downward
  <2>2. followLoop(g, <<x, y>>, <<x, y + 1>>) = IF b THEN <<x + 1, y>> ELSE IF a THEN <<x, y - 1>> ELSE <<x - 1, y>>
    BY ONLY <1>1, <1>4, <1>5, <1>7, Downward(x, y + 1) \in Crossings DEF followLoop
  <2> QED BY ONLY <2>1, <2>2, <2>3 DEF Forward, Backward, Downward
<1>11. Forward(x, y) \in Crossings =>
        onward[Forward(x, y)] = IF c THEN Upward(x, y + 1) ELSE IF b THEN Forward(x + 1, y) ELSE Downward(x, y)
  <2> SUFFICES ASSUME Forward(x, y) \in Crossings
               PROVE  onward[Forward(x, y)] = IF c THEN Upward(x, y + 1) ELSE IF b THEN Forward(x + 1, y)
                                              ELSE Downward(x, y)
    OBVIOUS
  <2>3. (y + 1) - 1 = y /\ (x + 1) - 1 = x
    BY <1>1
  <2>1. onward[Forward(x, y)] = <<<<x, y>>, followLoop(g, <<x, y>>, <<x - 1, y>>)>>
    BY <1>6 DEF Forward
  <2>2. followLoop(g, <<x, y>>, <<x - 1, y>>) = IF c THEN <<x, y + 1>> ELSE IF b THEN <<x + 1, y>> ELSE <<x, y - 1>>
    BY ONLY <1>1, <1>4, <1>5, <1>7, Forward(x, y) \in Crossings DEF followLoop
  <2> QED BY ONLY <2>1, <2>2, <2>3 DEF Upward, Forward, Downward
<1> QED BY <1>4, <1>8, <1>9, <1>10, <1>11

-----------------------------------------------------------------------------
(* Lines that are closed: what is crossed is gone on from and led to.      *)
IsClosed(R) == R \subseteq Crossings /\ \A e \in Crossings : e \in R <=> onward[e] \in R

Across(R, x, y) == IF Downward(x, y) \in R THEN 1 ELSE IF Upward(x, y) \in R THEN -1 ELSE 0

Along(R, x, y) == IF Forward(x, y) \in R THEN 1 ELSE IF Backward(x, y) \in R THEN -1 ELSE 0

(* A closed line that comes into a cell leaves it.                         *)
LEMMA CellIsBalanced ==
  ASSUME ContourIsOfTheStep, NEW R, IsClosed(R),
         NEW x \in 0..(surface.width - 2), NEW y \in 0..(surface.height - 2)
  PROVE  Across(R, x, y) + Along(R, x + 1, y) = Along(R, x, y) + Across(R, x, y + 1)
<1>1. /\ surface.width \in Nat /\ surface.height \in Nat /\ x \in Nat /\ y \in Nat
      /\ x \in 0..(surface.width - 2) /\ y \in 0..(surface.height - 1)
      /\ y + 1 \in 0..(surface.height - 1)
      /\ x \in 0..(surface.width - 1) /\ y \in 0..(surface.height - 2)
      /\ x + 1 \in 0..(surface.width - 1)
  BY DEF ContourIsOfTheStep
<1>2. PICK a, b, c, d \in BOOLEAN : /\ a <=> IsReached(x, y)
                                    /\ b <=> IsReached(x + 1, y)
                                    /\ c <=> IsReached(x + 1, y + 1)
                                    /\ d <=> IsReached(x, y + 1)
  <2>1. PICK a \in BOOLEAN : a <=> IsReached(x, y)
    BY DEF IsReached, InTime
  <2>2. PICK b \in BOOLEAN : b <=> IsReached(x + 1, y)
    BY DEF IsReached, InTime
  <2>3. PICK c \in BOOLEAN : c <=> IsReached(x + 1, y + 1)
    BY DEF IsReached, InTime
  <2>4. PICK d \in BOOLEAN : d <=> IsReached(x, y + 1)
    BY DEF IsReached, InTime
  <2> QED BY <2>1, <2>2, <2>3, <2>4
<1>3. PICK dl, ul, fr, br, dh, uh, fl, bl :
        /\ dl = Downward(x, y) /\ ul = Upward(x, y)
        /\ fr = Forward(x + 1, y) /\ br = Backward(x + 1, y)
        /\ dh = Downward(x, y + 1) /\ uh = Upward(x, y + 1)
        /\ fl = Forward(x, y) /\ bl = Backward(x, y)
  OBVIOUS
<1>4. /\ dl \in Crossings <=> a /\ ~b
      /\ ul \in Crossings <=> b /\ ~a
      /\ dh \in Crossings <=> d /\ ~c
      /\ uh \in Crossings <=> c /\ ~d
  BY ONLY <1>1, <1>2, <1>3, ContourIsOfTheStep, CrossingsAcross
<1>5. /\ fl \in Crossings <=> a /\ ~d
      /\ bl \in Crossings <=> d /\ ~a
      /\ fr \in Crossings <=> b /\ ~c
      /\ br \in Crossings <=> c /\ ~b
  BY ONLY <1>1, <1>2, <1>3, ContourIsOfTheStep, CrossingsAlong
<1>6. /\ ul \in Crossings => onward[ul] = IF d THEN bl ELSE IF c THEN uh ELSE fr
      /\ br \in Crossings => onward[br] = IF a THEN dl ELSE IF d THEN bl ELSE uh
      /\ dh \in Crossings => onward[dh] = IF b THEN fr ELSE IF a THEN dl ELSE bl
      /\ fl \in Crossings => onward[fl] = IF c THEN uh ELSE IF b THEN fr ELSE dl
  BY ONLY <1>1, <1>2, <1>3, ContourIsOfTheStep, OnwardThrough
<1>7. R \subseteq Crossings /\ \A e \in Crossings : e \in R <=> onward[e] \in R
  BY DEF IsClosed
<1>8. (IF dl \in R THEN 1 ELSE IF ul \in R THEN -1 ELSE 0) + (IF fr \in R THEN 1 ELSE IF br \in R THEN -1 ELSE 0)
        = (IF fl \in R THEN 1 ELSE IF bl \in R THEN -1 ELSE 0) + (IF dh \in R THEN 1 ELSE IF uh \in R THEN -1 ELSE 0)
  BY ONLY <1>4, <1>5, <1>6, <1>7
<1> QED BY <1>3, <1>8 DEF Across, Along

-----------------------------------------------------------------------------
(* From one end of a row to the other.                                     *)
LEMMA FromTheRight ==
  ASSUME NEW n \in Nat, NEW Good, n \in Good, \A x \in 0..n : x < n /\ x + 1 \in Good => x \in Good
  PROVE  \A x \in 0..n : x \in Good
<1> DEFINE Bad == {i \in Nat : i <= n /\ n - i \notin Good}
<1>1. SUFFICES ASSUME Bad # {} PROVE FALSE
  <2>1. ASSUME NEW x \in 0..n, x \notin Good PROVE n - x \in Bad
    <3>1. n - x \in Nat /\ n - x <= n /\ n - (n - x) = x
      OBVIOUS
    <3> QED BY <2>1, <3>1
  <2> QED BY <1>1, <2>1
<1>2. Bad \in SUBSET Nat
  OBVIOUS
<1>3. PICK i \in Bad : \A j \in Bad : i <= j
  <2> HIDE DEF Bad
  <2> QED BY <1>1, <1>2, LeastExists
<1>4. i \in Nat /\ i <= n /\ n - i \notin Good /\ i # 0
  BY <1>3
<1>5. i - 1 \notin Bad /\ i - 1 \in Nat /\ i - 1 <= n
  BY <1>3, <1>4
<1>6. n - (i - 1) \in Good
  BY <1>5
<1>7. (n - i) + 1 = n - (i - 1) /\ n - i \in 0..n /\ n - i < n
  BY <1>4
<1> QED BY <1>4, <1>6, <1>7

(* How often some crossings go around a pixel: those that lie to the right *)
(* of it in its row, down, less those up.                                  *)
Downs(R, x, y) == {i \in x..(surface.width - 2) : Downward(i, y) \in R}

Ups(R, x, y) == {i \in x..(surface.width - 2) : Upward(i, y) \in R}

Winding(R, x, y) == Cardinality(Downs(R, x, y)) - Cardinality(Ups(R, x, y))

InGrid(x, y) == x \in 0..(surface.width - 1) /\ y \in 0..(surface.height - 1)

LEMMA CrossedAreFinite ==
  ASSUME ContourIsOfTheStep, NEW R, NEW x \in Nat, NEW y
  PROVE  /\ IsFiniteSet(Downs(R, x, y)) /\ Cardinality(Downs(R, x, y)) \in Nat
         /\ IsFiniteSet(Ups(R, x, y)) /\ Cardinality(Ups(R, x, y)) \in Nat
         /\ Winding(R, x, y) \in Int
<1>1. PICK b \in Int : b = surface.width - 2
  BY DEF ContourIsOfTheStep
<1>2. IsFiniteSet(x..b)
  BY FS_Interval
<1>3. Downs(R, x, y) \in SUBSET (x..b) /\ Ups(R, x, y) \in SUBSET (x..b)
  BY <1>1 DEF Downs, Ups
<1>4. /\ IsFiniteSet(Downs(R, x, y)) /\ Cardinality(Downs(R, x, y)) \in Nat
      /\ IsFiniteSet(Ups(R, x, y)) /\ Cardinality(Ups(R, x, y)) \in Nat
  BY <1>2, <1>3, FS_Subset, FS_CardinalityType
<1> QED BY <1>4 DEF Winding

(* A crossing is not made both ways. *)
LEMMA OneWayAcross ==
  ASSUME ContourIsOfTheStep, NEW x \in 0..(surface.width - 2), NEW y \in 0..(surface.height - 1)
  PROVE  ~(Downward(x, y) \in Crossings /\ Upward(x, y) \in Crossings)
BY CrossingsAcross

(* From a pixel to the next in its row.                                    *)
LEMMA StepAcross ==
  ASSUME ContourIsOfTheStep, NEW R, R \subseteq Crossings,
         NEW x \in 0..(surface.width - 2), NEW y \in 0..(surface.height - 1)
  PROVE  Winding(R, x, y) = Winding(R, x + 1, y) + Across(R, x, y)
<1>1. x \in Nat /\ x + 1 \in Nat /\ surface.width \in Nat
  BY DEF ContourIsOfTheStep
<1>2. /\ IsFiniteSet(Downs(R, x + 1, y)) /\ Cardinality(Downs(R, x + 1, y)) \in Nat
      /\ IsFiniteSet(Ups(R, x + 1, y)) /\ Cardinality(Ups(R, x + 1, y)) \in Nat
  BY <1>1, CrossedAreFinite
<1>3. x \notin Downs(R, x + 1, y) /\ x \notin Ups(R, x + 1, y)
  BY <1>1 DEF Downs, Ups
<1>4. x..(surface.width - 2) = ((x + 1)..(surface.width - 2)) \cup {x}
  BY <1>1
<1>5. /\ Downs(R, x, y) = IF Downward(x, y) \in R THEN Downs(R, x + 1, y) \cup {x} ELSE Downs(R, x + 1, y)
      /\ Ups(R, x, y) = IF Upward(x, y) \in R THEN Ups(R, x + 1, y) \cup {x} ELSE Ups(R, x + 1, y)
  BY <1>4 DEF Downs, Ups
<1>6. /\ Cardinality(Downs(R, x + 1, y) \cup {x}) = Cardinality(Downs(R, x + 1, y)) + 1
      /\ Cardinality(Ups(R, x + 1, y) \cup {x}) = Cardinality(Ups(R, x + 1, y)) + 1
  BY <1>2, <1>3, FS_AddElement
<1>7. ~(Downward(x, y) \in R /\ Upward(x, y) \in R)
  BY OneWayAcross
<1> QED BY <1>2, <1>5, <1>6, <1>7 DEF Winding, Across

(* Nothing is crossed at the border. *)
LEMMA OffTheGrid ==
  ASSUME ContourIsOfTheStep, NEW R, R \subseteq Crossings
  PROVE  /\ \A y : Winding(R, surface.width - 1, y) = 0
         /\ \A x \in 0..(surface.width - 2), y \in {0, surface.height - 1} :
              surface.height # 0 => Across(R, x, y) = 0
         /\ \A x \in {0, surface.width - 1}, y \in 0..(surface.height - 2) :
              surface.width # 0 => Along(R, x, y) = 0
<1>1. surface.width \in Nat /\ surface.height \in Nat
  BY DEF ContourIsOfTheStep
<1>2. ASSUME NEW y PROVE Winding(R, surface.width - 1, y) = 0
  <2>1. Downs(R, surface.width - 1, y) = {} /\ Ups(R, surface.width - 1, y) = {}
    BY <1>1 DEF Downs, Ups
  <2>2. Cardinality({}) = 0
    BY FS_EmptySet
  <2> QED BY <2>1, <2>2 DEF Winding
<1>3. ASSUME NEW x \in 0..(surface.width - 2), NEW y \in {0, surface.height - 1}, surface.height # 0
      PROVE  Across(R, x, y) = 0
  <2>1. y \in 0..(surface.height - 1)
    BY <1>1, <1>3
  <2>2. ~IsReached(x, y) /\ ~IsReached(x + 1, y)
    BY BorderIsNot
  <2> QED BY <2>1, <2>2, CrossingsAcross DEF Across
<1>4. ASSUME NEW x \in {0, surface.width - 1}, NEW y \in 0..(surface.height - 2), surface.width # 0
      PROVE  Along(R, x, y) = 0
  <2>1. x \in 0..(surface.width - 1)
    BY <1>1, <1>4
  <2>2. ~IsReached(x, y) /\ ~IsReached(x, y + 1)
    BY BorderIsNot
  <2> QED BY <2>1, <2>2, CrossingsAlong DEF Along
<1> QED BY <1>2, <1>3, <1>4

LEMMA WindingAtTheEnd ==
  ASSUME ContourIsOfTheStep, NEW R, R \subseteq Crossings, NEW x, NEW y, InGrid(x, y),
         y \in {0, surface.height - 1}
  PROVE  Winding(R, x, y) = 0
<1>1. surface.width \in Nat /\ surface.height \in Nat /\ surface.width # 0 /\ surface.height # 0
  BY DEF ContourIsOfTheStep, InGrid
<1>2. PICK n \in Nat : n = surface.width - 1
  BY <1>1
<1>3. PICK Good : Good = {i \in 0..n : Winding(R, i, y) = 0}
  OBVIOUS
<1>4. n \in Good
  BY <1>2, <1>3, OffTheGrid
<1>5. ASSUME NEW i \in 0..n, i < n, i + 1 \in Good PROVE i \in Good
  <2>1. i \in 0..(surface.width - 2) /\ y \in 0..(surface.height - 1)
    BY <1>1, <1>2, <1>5
  <2>2. Across(R, i, y) = 0
    BY <1>1, <2>1, OffTheGrid
  <2>3. Winding(R, i, y) = Winding(R, i + 1, y) + Across(R, i, y)
    BY <2>1, StepAcross
  <2> QED BY <1>3, <1>5, <2>2, <2>3
<1>6. \A i \in 0..n : i \in Good
  BY <1>4, <1>5, FromTheRight
<1> QED BY <1>2, <1>3, <1>6 DEF InGrid

(* What a closed line goes around changes in the same way up and down.     *)
LEMMA StepAlong ==
  ASSUME ContourIsOfTheStep, NEW R, IsClosed(R),
         NEW x \in 0..(surface.width - 1), NEW y \in 0..(surface.height - 2)
  PROVE  Winding(R, x, y) = Winding(R, x, y + 1) + Along(R, x, y)
<1>1. surface.width \in Nat /\ surface.height \in Nat /\ surface.width # 0 /\ R \subseteq Crossings
  BY DEF ContourIsOfTheStep, IsClosed
<1>2. PICK n \in Nat : n = surface.width - 1
  BY <1>1
<1>3. PICK Good : Good = {i \in 0..n : Winding(R, i, y) = Winding(R, i, y + 1) + Along(R, i, y)}
  OBVIOUS
<1>4. n \in Good
  <2>1. Winding(R, n, y) = 0 /\ Winding(R, n, y + 1) = 0 /\ Along(R, n, y) = 0
    BY <1>1, <1>2, OffTheGrid
  <2> QED BY <1>3, <2>1
<1>5. ASSUME NEW i \in 0..n, i < n, i + 1 \in Good PROVE i \in Good
  <2>1. /\ i \in 0..(surface.width - 2) /\ y \in 0..(surface.height - 1)
        /\ y + 1 \in 0..(surface.height - 1) /\ i \in Nat /\ i + 1 \in Nat
    BY <1>1, <1>2, <1>5
  <2>2. /\ Winding(R, i, y) = Winding(R, i + 1, y) + Across(R, i, y)
        /\ Winding(R, i, y + 1) = Winding(R, i + 1, y + 1) + Across(R, i, y + 1)
    BY <1>1, <2>1, StepAcross
  <2>3. Across(R, i, y) + Along(R, i + 1, y) = Along(R, i, y) + Across(R, i, y + 1)
    BY <2>1, CellIsBalanced
  <2>4. Winding(R, i + 1, y) = Winding(R, i + 1, y + 1) + Along(R, i + 1, y)
    BY <1>3, <1>5
  <2>5. Winding(R, i + 1, y) \in Int /\ Winding(R, i + 1, y + 1) \in Int
    BY <2>1, CrossedAreFinite
  <2>6. /\ Across(R, i, y) \in Int /\ Across(R, i, y + 1) \in Int
        /\ Along(R, i, y) \in Int /\ Along(R, i + 1, y) \in Int
    BY DEF Across, Along
  <2>7. Winding(R, i, y) = Winding(R, i, y + 1) + Along(R, i, y)
    BY ONLY <2>2, <2>3, <2>4, <2>5, <2>6
  <2> QED BY <1>3, <2>7
<1>6. \A i \in 0..n : i \in Good
  BY <1>4, <1>5, FromTheRight
<1> QED BY <1>2, <1>3, <1>6

(* The pixels beside a crossing: the inner one is reached, the outer not.  *)
InnerSide(e) ==
  IF e[2][2] < e[1][2] THEN e[1]
  ELSE IF e[2][2] > e[1][2] THEN <<e[2][1] + 1, e[2][2]>>
  ELSE IF e[2][1] > e[1][1] THEN e[2]
  ELSE <<e[1][1], e[1][2] + 1>>

OuterSide(e) ==
  IF e[2][2] < e[1][2] THEN <<e[1][1] + 1, e[1][2]>>
  ELSE IF e[2][2] > e[1][2] THEN e[2]
  ELSE IF e[2][1] > e[1][1] THEN <<e[2][1], e[2][2] + 1>>
  ELSE e[1]

(* The pixels beside the four kinds of crossing. *)
LEMMA SidesAre ==
  ASSUME NEW x \in Int, NEW y \in Int
  PROVE  /\ InnerSide(Downward(x, y)) = <<x, y>> /\ OuterSide(Downward(x, y)) = <<x + 1, y>>
         /\ InnerSide(Upward(x, y)) = <<x + 1, y>> /\ OuterSide(Upward(x, y)) = <<x, y>>
         /\ InnerSide(Forward(x, y)) = <<x, y>> /\ OuterSide(Forward(x, y)) = <<x, y + 1>>
         /\ InnerSide(Backward(x, y)) = <<x, y + 1>> /\ OuterSide(Backward(x, y)) = <<x, y>>
<1>1. InnerSide(Downward(x, y)) = <<x, y>> /\ OuterSide(Downward(x, y)) = <<x + 1, y>>
  BY DEF InnerSide, OuterSide, Downward
<1>2. InnerSide(Upward(x, y)) = <<x + 1, y>> /\ OuterSide(Upward(x, y)) = <<x, y>>
  BY DEF InnerSide, OuterSide, Upward
<1>3. InnerSide(Forward(x, y)) = <<x, y>> /\ OuterSide(Forward(x, y)) = <<x, y + 1>>
  BY DEF InnerSide, OuterSide, Forward
<1>4. InnerSide(Backward(x, y)) = <<x, y + 1>> /\ OuterSide(Backward(x, y)) = <<x, y>>
  BY DEF InnerSide, OuterSide, Backward
<1> QED BY <1>1, <1>2, <1>3, <1>4

WindingAt(R, p) == Winding(R, p[1], p[2])

IsPixel(p) == p = <<p[1], p[2]>> /\ InGrid(p[1], p[2])

LEMMA SidesDiffer ==
  ASSUME ContourIsOfTheStep, NEW e \in Crossings
  PROVE  /\ IsPixel(InnerSide(e)) /\ IsReached(InnerSide(e)[1], InnerSide(e)[2])
         /\ IsPixel(OuterSide(e)) /\ ~IsReached(OuterSide(e)[1], OuterSide(e)[2])
         /\ \A R : IsClosed(R) =>
              WindingAt(R, InnerSide(e)) = WindingAt(R, OuterSide(e)) + (IF e \in R THEN 1 ELSE 0)
<1>1. surface.width \in Nat /\ surface.height \in Nat
  BY DEF ContourIsOfTheStep
<1>2. PICK x, y \in Nat : IsAcross(e, x, y) \/ IsAlong(e, x, y)
  BY KindsOfCrossings
<1>3. CASE IsAcross(e, x, y)
  <2>1. /\ x \in 0..(surface.width - 2) /\ y \in 0..(surface.height - 1)
        /\ x \in 0..(surface.width - 1) /\ x + 1 \in 0..(surface.width - 1)
        /\ e = Downward(x, y) \/ e = Upward(x, y)
    BY <1>1, <1>3 DEF IsAcross
  <2>2. /\ Downward(x, y) \in Crossings <=> IsReached(x, y) /\ ~IsReached(x + 1, y)
        /\ Upward(x, y) \in Crossings <=> IsReached(x + 1, y) /\ ~IsReached(x, y)
    BY <2>1, CrossingsAcross
  <2>3. ASSUME NEW R, IsClosed(R)
        PROVE  /\ Winding(R, x, y) = Winding(R, x + 1, y) + Across(R, x, y)
               /\ Winding(R, x, y) \in Int /\ Winding(R, x + 1, y) \in Int
    BY <2>1, <2>3, StepAcross, CrossedAreFinite DEF IsClosed
  <2>4. CASE e = Downward(x, y)
    <3>1. InnerSide(e) = <<x, y>> /\ OuterSide(e) = <<x + 1, y>>
      BY <2>4, SidesAre
    <3>2. Upward(x, y) \notin Crossings /\ IsReached(x, y) /\ ~IsReached(x + 1, y)
      BY <2>2, <2>4
    <3>3. ASSUME NEW R, IsClosed(R)
          PROVE  WindingAt(R, InnerSide(e)) = WindingAt(R, OuterSide(e)) + (IF e \in R THEN 1 ELSE 0)
      BY <2>3, <2>4, <3>1, <3>2, <3>3 DEF WindingAt, Across, IsClosed
    <3> QED BY <2>1, <3>1, <3>2, <3>3 DEF IsPixel, InGrid
  <2>5. CASE e = Upward(x, y)
    <3>1. InnerSide(e) = <<x + 1, y>> /\ OuterSide(e) = <<x, y>>
      BY <2>5, SidesAre
    <3>2. Downward(x, y) \notin Crossings /\ IsReached(x + 1, y) /\ ~IsReached(x, y)
      BY <2>2, <2>5
    <3>3. ASSUME NEW R, IsClosed(R)
          PROVE  WindingAt(R, InnerSide(e)) = WindingAt(R, OuterSide(e)) + (IF e \in R THEN 1 ELSE 0)
      BY <2>3, <2>5, <3>1, <3>2, <3>3 DEF WindingAt, Across, IsClosed
    <3> QED BY <2>1, <3>1, <3>2, <3>3 DEF IsPixel, InGrid
  <2> QED BY <2>1, <2>4, <2>5
<1>4. CASE IsAlong(e, x, y)
  <2>1. /\ x \in 0..(surface.width - 1) /\ y \in 0..(surface.height - 2)
        /\ y \in 0..(surface.height - 1) /\ y + 1 \in 0..(surface.height - 1)
        /\ e = Forward(x, y) \/ e = Backward(x, y)
    BY <1>1, <1>4 DEF IsAlong
  <2>2. /\ Forward(x, y) \in Crossings <=> IsReached(x, y) /\ ~IsReached(x, y + 1)
        /\ Backward(x, y) \in Crossings <=> IsReached(x, y + 1) /\ ~IsReached(x, y)
    BY <2>1, CrossingsAlong
  <2>3. ASSUME NEW R, IsClosed(R)
        PROVE  /\ Winding(R, x, y) = Winding(R, x, y + 1) + Along(R, x, y)
               /\ Winding(R, x, y) \in Int /\ Winding(R, x, y + 1) \in Int
    BY <2>1, <2>3, StepAlong, CrossedAreFinite
  <2>4. CASE e = Forward(x, y)
    <3>1. InnerSide(e) = <<x, y>> /\ OuterSide(e) = <<x, y + 1>>
      BY <2>4, SidesAre
    <3>2. Backward(x, y) \notin Crossings /\ IsReached(x, y) /\ ~IsReached(x, y + 1)
      BY <2>2, <2>4
    <3>3. ASSUME NEW R, IsClosed(R)
          PROVE  WindingAt(R, InnerSide(e)) = WindingAt(R, OuterSide(e)) + (IF e \in R THEN 1 ELSE 0)
      BY <2>3, <2>4, <3>1, <3>2, <3>3 DEF WindingAt, Along, IsClosed
    <3> QED BY <2>1, <3>1, <3>2, <3>3 DEF IsPixel, InGrid
  <2>5. CASE e = Backward(x, y)
    <3>1. InnerSide(e) = <<x, y + 1>> /\ OuterSide(e) = <<x, y>>
      BY <2>5, SidesAre
    <3>2. Forward(x, y) \notin Crossings /\ IsReached(x, y + 1) /\ ~IsReached(x, y)
      BY <2>2, <2>5
    <3>3. ASSUME NEW R, IsClosed(R)
          PROVE  WindingAt(R, InnerSide(e)) = WindingAt(R, OuterSide(e)) + (IF e \in R THEN 1 ELSE 0)
      BY <2>3, <2>5, <3>1, <3>2, <3>3 DEF WindingAt, Along, IsClosed
    <3> QED BY <2>1, <3>1, <3>2, <3>3 DEF IsPixel, InGrid
  <2> QED BY <2>1, <2>4, <2>5
<1> QED BY <1>2, <1>3, <1>4

(* The four corners of a cell, and what a closed line goes around there.   *)
LEMMA SidesThrough ==
  ASSUME ContourIsOfTheStep, NEW R, IsClosed(R),
         NEW x \in 0..(surface.width - 2), NEW y \in 0..(surface.height - 2)
  PROVE  \A e \in {Upward(x, y), Backward(x + 1, y), Downward(x, y + 1), Forward(x, y)} :
           e \in Crossings => WindingAt(R, InnerSide(onward[e])) = WindingAt(R, InnerSide(e))
<1>1. /\ surface.width \in Nat /\ surface.height \in Nat /\ x \in Nat /\ y \in Nat
      /\ x \in 0..(surface.width - 2) /\ y \in 0..(surface.height - 1)
      /\ y + 1 \in 0..(surface.height - 1)
      /\ x \in 0..(surface.width - 1) /\ y \in 0..(surface.height - 2)
      /\ x + 1 \in 0..(surface.width - 1)
  BY DEF ContourIsOfTheStep
<1>2. PICK a, b, c, d \in BOOLEAN : /\ a <=> IsReached(x, y)
                                    /\ b <=> IsReached(x + 1, y)
                                    /\ c <=> IsReached(x + 1, y + 1)
                                    /\ d <=> IsReached(x, y + 1)
  <2>1. PICK a \in BOOLEAN : a <=> IsReached(x, y)
    BY DEF IsReached, InTime
  <2>2. PICK b \in BOOLEAN : b <=> IsReached(x + 1, y)
    BY DEF IsReached, InTime
  <2>3. PICK c \in BOOLEAN : c <=> IsReached(x + 1, y + 1)
    BY DEF IsReached, InTime
  <2>4. PICK d \in BOOLEAN : d <=> IsReached(x, y + 1)
    BY DEF IsReached, InTime
  <2> QED BY <2>1, <2>2, <2>3, <2>4
<1>3. PICK dl, ul, fr, br, dh, uh, fl, bl :
        /\ dl = Downward(x, y) /\ ul = Upward(x, y)
        /\ fr = Forward(x + 1, y) /\ br = Backward(x + 1, y)
        /\ dh = Downward(x, y + 1) /\ uh = Upward(x, y + 1)
        /\ fl = Forward(x, y) /\ bl = Backward(x, y)
  OBVIOUS
<1>4. /\ dl \in Crossings <=> a /\ ~b
      /\ ul \in Crossings <=> b /\ ~a
      /\ dh \in Crossings <=> d /\ ~c
      /\ uh \in Crossings <=> c /\ ~d
  BY ONLY <1>1, <1>2, <1>3, ContourIsOfTheStep, CrossingsAcross
<1>5. /\ fl \in Crossings <=> a /\ ~d
      /\ bl \in Crossings <=> d /\ ~a
      /\ fr \in Crossings <=> b /\ ~c
      /\ br \in Crossings <=> c /\ ~b
  BY ONLY <1>1, <1>2, <1>3, ContourIsOfTheStep, CrossingsAlong
<1>6. /\ ul \in Crossings => onward[ul] = IF d THEN bl ELSE IF c THEN uh ELSE fr
      /\ br \in Crossings => onward[br] = IF a THEN dl ELSE IF d THEN bl ELSE uh
      /\ dh \in Crossings => onward[dh] = IF b THEN fr ELSE IF a THEN dl ELSE bl
      /\ fl \in Crossings => onward[fl] = IF c THEN uh ELSE IF b THEN fr ELSE dl
  BY ONLY <1>1, <1>2, <1>3, ContourIsOfTheStep, OnwardThrough
<1>7. R \subseteq Crossings /\ \A e \in Crossings : e \in R <=> onward[e] \in R
  BY DEF IsClosed
<1>8. PICK wa, wb, wc, wd \in Int :
        /\ wa = Winding(R, x, y) /\ wb = Winding(R, x + 1, y)
        /\ wc = Winding(R, x + 1, y + 1) /\ wd = Winding(R, x, y + 1)
  BY <1>1, CrossedAreFinite
<1>9. /\ wa = wb + (IF dl \in R THEN 1 ELSE IF ul \in R THEN -1 ELSE 0)
      /\ wd = wc + (IF dh \in R THEN 1 ELSE IF uh \in R THEN -1 ELSE 0)
      /\ wa = wd + (IF fl \in R THEN 1 ELSE IF bl \in R THEN -1 ELSE 0)
      /\ wb = wc + (IF fr \in R THEN 1 ELSE IF br \in R THEN -1 ELSE 0)
  <2>1. wa = wb + Across(R, x, y) /\ wd = wc + Across(R, x, y + 1)
    BY <1>1, <1>7, <1>8, StepAcross
  <2>2. wa = wd + Along(R, x, y) /\ wb = wc + Along(R, x + 1, y)
    BY <1>1, <1>8, StepAlong
  <2> QED BY <2>1, <2>2, <1>3 DEF Across, Along
<1>10. PICK i : i = [e \in {dl, ul, fr, br, dh, uh, fl, bl} |-> WindingAt(R, InnerSide(e))]
  OBVIOUS
<1>11. /\ i[dl] = wa /\ i[ul] = wb /\ i[dh] = wd /\ i[uh] = wc
       /\ i[fl] = wa /\ i[bl] = wd /\ i[fr] = wb /\ i[br] = wc
  <2>1. /\ i[dl] = WindingAt(R, InnerSide(dl)) /\ i[ul] = WindingAt(R, InnerSide(ul))
        /\ i[dh] = WindingAt(R, InnerSide(dh)) /\ i[uh] = WindingAt(R, InnerSide(uh))
        /\ i[fl] = WindingAt(R, InnerSide(fl)) /\ i[bl] = WindingAt(R, InnerSide(bl))
        /\ i[fr] = WindingAt(R, InnerSide(fr)) /\ i[br] = WindingAt(R, InnerSide(br))
    BY ONLY <1>10
  <2>2. /\ InnerSide(dl) = <<x, y>> /\ InnerSide(ul) = <<x + 1, y>>
        /\ InnerSide(fl) = <<x, y>> /\ InnerSide(bl) = <<x, y + 1>>
    BY ONLY <1>1, <1>3, SidesAre
  <2>3. /\ InnerSide(dh) = <<x, y + 1>> /\ InnerSide(uh) = <<x + 1, y + 1>>
    BY ONLY <1>1, <1>3, SidesAre
  <2>4. /\ InnerSide(fr) = <<x + 1, y>> /\ InnerSide(br) = <<x + 1, y + 1>>
    BY ONLY <1>1, <1>3, SidesAre
  <2> QED BY ONLY <1>8, <2>1, <2>2, <2>3, <2>4 DEF WindingAt
<1>12. ul \in Crossings => i[onward[ul]] = i[ul]
  BY ONLY <1>4, <1>5, <1>6, <1>7, <1>9, <1>11
<1>13. br \in Crossings => i[onward[br]] = i[br]
  BY ONLY <1>4, <1>5, <1>6, <1>7, <1>9, <1>11
<1>14. dh \in Crossings => i[onward[dh]] = i[dh]
  BY ONLY <1>4, <1>5, <1>6, <1>7, <1>9, <1>11
<1>15. fl \in Crossings => i[onward[fl]] = i[fl]
  BY ONLY <1>4, <1>5, <1>6, <1>7, <1>9, <1>11
<1>16. \A e \in {ul, br, dh, fl} : e \in Crossings => onward[e] \in {dl, ul, fr, br, dh, uh, fl, bl}
  BY ONLY <1>6
<1>17. \A e \in {dl, ul, fr, br, dh, uh, fl, bl} : i[e] = WindingAt(R, InnerSide(e))
  BY ONLY <1>10
<1>18. \A e \in {ul, br, dh, fl} : e \in Crossings => WindingAt(R, InnerSide(onward[e])) = WindingAt(R, InnerSide(e))
  <2>1. \A e \in {ul, br, dh, fl} : e \in Crossings => i[onward[e]] = i[e]
    BY ONLY <1>12, <1>13, <1>14, <1>15
  <2>2. ASSUME NEW e \in {ul, br, dh, fl}, e \in Crossings
        PROVE  WindingAt(R, InnerSide(onward[e])) = WindingAt(R, InnerSide(e))
    <3>1. PICK f : f = onward[e]
      OBVIOUS
    <3>2. f \in {dl, ul, fr, br, dh, uh, fl, bl} /\ e \in {dl, ul, fr, br, dh, uh, fl, bl}
      BY ONLY <1>16, <2>2, <3>1
    <3>3. i[f] = i[e]
      BY ONLY <2>1, <2>2, <3>1
    <3> QED BY ONLY <1>17, <3>1, <3>2, <3>3
  <2> QED BY <2>2
<1> QED BY <1>3, <1>18

(* Along a line the pixels beside it are gone around alike.                *)
LEMMA SidesGoOn ==
  ASSUME ContourIsOfTheStep, NEW R, IsClosed(R), NEW e \in Crossings
  PROVE  /\ onward[e] \in Crossings
         /\ WindingAt(R, InnerSide(onward[e])) = WindingAt(R, InnerSide(e))
<1>1. surface.width \in Nat /\ surface.height \in Nat
  BY DEF ContourIsOfTheStep
<1>2. PICK x, y \in Nat : IsAcross(e, x, y) \/ IsAlong(e, x, y)
  BY KindsOfCrossings
<1>3. CASE e = Downward(x, y) /\ IsAcross(e, x, y)
  <2>1. x \in 0..(surface.width - 2) /\ y - 1 \in 0..(surface.height - 2) /\ (y - 1) + 1 = y
    BY <1>1, <1>3 DEF IsAcross
  <2> QED BY <1>3, <2>1, SidesThrough, OnwardIsCrossing
<1>4. CASE e = Upward(x, y) /\ IsAcross(e, x, y)
  <2>1. x \in 0..(surface.width - 2) /\ y \in 0..(surface.height - 2)
    BY <1>1, <1>4 DEF IsAcross
  <2> QED BY <1>4, <2>1, SidesThrough, OnwardIsCrossing
<1>5. CASE e = Forward(x, y) /\ IsAlong(e, x, y)
  <2>1. x \in 0..(surface.width - 2) /\ y \in 0..(surface.height - 2)
    BY <1>1, <1>5 DEF IsAlong
  <2> QED BY <1>5, <2>1, SidesThrough, OnwardIsCrossing
<1>6. CASE e = Backward(x, y) /\ IsAlong(e, x, y)
  <2>1. x - 1 \in 0..(surface.width - 2) /\ y \in 0..(surface.height - 2) /\ (x - 1) + 1 = x
    BY <1>1, <1>6 DEF IsAlong
  <2> QED BY <1>6, <2>1, SidesThrough, OnwardIsCrossing
<1> QED BY <1>2, <1>3, <1>4, <1>5, <1>6 DEF IsAcross, IsAlong

-----------------------------------------------------------------------------
(* A line that comes back to where it began.                               *)
IsCycle(c, n) ==
  /\ n \in Nat \ {0} /\ c \in [1..n -> Crossings]
  /\ \A i \in 1..n : onward[c[i]] = c[IF i = n THEN 1 ELSE i + 1]
  /\ \A i, j \in 1..n : c[i] = c[j] => i = j

IsLoop(R) == \E c, n : IsCycle(c, n) /\ R = {c[i] : i \in 1..n}

(* The crossings of a loop follow one another and no others. *)
LEMMA CycleIsClosed ==
  ASSUME ContourIsOfTheStep, NEW c, NEW n, IsCycle(c, n)
  PROVE  IsClosed({c[i] : i \in 1..n})
<1> DEFINE R == {c[i] : i \in 1..n}
<1>1. n \in Nat \ {0} /\ R \subseteq Crossings /\ \A i \in 1..n : onward[c[i]] = c[IF i = n THEN 1 ELSE i + 1]
  BY DEF IsCycle
<1>2. ASSUME NEW e \in R PROVE onward[e] \in R
  <2>1. PICK i \in 1..n : e = c[i]
    BY <1>2
  <2>2. (IF i = n THEN 1 ELSE i + 1) \in 1..n
    BY <1>1
  <2> QED BY <1>1, <2>1, <2>2
<1>3. ASSUME NEW e \in Crossings, onward[e] \in R PROVE e \in R
  <2>1. PICK i \in 1..n : onward[e] = c[i]
    BY <1>3
  <2>2. PICK j : j = IF i = 1 THEN n ELSE i - 1
    OBVIOUS
  <2>3. j \in 1..n /\ (IF j = n THEN 1 ELSE j + 1) = i
    BY <1>1, <2>2
  <2>4. onward[c[j]] = onward[e] /\ c[j] \in Crossings
    BY <1>1, <2>1, <2>3
  <2>5. c[j] = e
    BY <1>3, <2>4, OnwardIsOneToOne
  <2> QED BY <2>3, <2>5
<1> QED BY <1>1, <1>2, <1>3 DEF IsClosed

LEMMA SidesOfACycle ==
  ASSUME ContourIsOfTheStep, NEW c, NEW n, IsCycle(c, n), NEW Q, IsClosed(Q)
  PROVE  \A i \in 1..n : WindingAt(Q, InnerSide(c[i])) = WindingAt(Q, InnerSide(c[1]))
<1>1. /\ n \in Nat \ {0} /\ \A i \in 1..n : c[i] \in Crossings
      /\ \A i \in 1..n : onward[c[i]] = c[IF i = n THEN 1 ELSE i + 1]
  BY DEF IsCycle
<1>2. PICK Good : Good = {i \in 0..n : i = 0 \/ WindingAt(Q, InnerSide(c[i])) = WindingAt(Q, InnerSide(c[1]))}
  OBVIOUS
<1>3. n \in Good
  <2>1. n \in 1..n /\ onward[c[n]] = c[1]
    BY <1>1
  <2>2. WindingAt(Q, InnerSide(c[n])) = WindingAt(Q, InnerSide(c[1]))
    BY <1>1, <2>1, SidesGoOn
  <2> QED BY <1>2, <2>1, <2>2
<1>4. ASSUME NEW i \in 0..n, i < n, i + 1 \in Good PROVE i \in Good
  <2>1. CASE i = 0
    BY <1>2, <2>1
  <2>2. CASE i # 0
    <3>1. i \in 1..n /\ onward[c[i]] = c[i + 1] /\ i + 1 # 0
      BY <1>1, <1>4, <2>2
    <3>2. WindingAt(Q, InnerSide(c[i + 1])) = WindingAt(Q, InnerSide(c[i]))
      BY <1>1, <3>1, SidesGoOn
    <3> QED BY <1>2, <1>4, <3>1, <3>2
  <2> QED BY <2>1, <2>2
<1>5. \A i \in 0..n : i \in Good
  <2>1. n \in Nat
    BY <1>1
  <2> QED BY <1>3, <1>4, <2>1, FromTheRight
<1> QED BY <1>2, <1>5

LEMMA LoopIs ==
  ASSUME ContourIsOfTheStep, NEW R, IsLoop(R)
  PROVE  /\ R \subseteq Crossings /\ R # {} /\ IsClosed(R)
         /\ \A Q : IsClosed(Q) => \A e, f \in R : WindingAt(Q, InnerSide(e)) = WindingAt(Q, InnerSide(f))
<1>1. PICK c, n : IsCycle(c, n) /\ R = {c[i] : i \in 1..n}
  BY DEF IsLoop
<1>2. R \subseteq Crossings /\ 1 \in 1..n
  BY <1>1 DEF IsCycle
<1>3. IsClosed(R)
  BY <1>1, CycleIsClosed
<1>4. ASSUME NEW Q, IsClosed(Q), NEW e \in R, NEW f \in R PROVE WindingAt(Q, InnerSide(e)) = WindingAt(Q, InnerSide(f))
  BY <1>1, <1>4, SidesOfACycle
<1> QED BY <1>1, <1>2, <1>3, <1>4

(* Between two pixels of a row nothing changes or there is a crossing.     *)
LEMMA StepInRow ==
  ASSUME ContourIsOfTheStep, NEW R, R \subseteq Crossings,
         NEW x \in 0..(surface.width - 2), NEW y \in 0..(surface.height - 1)
  PROVE  \/ Winding(R, x, y) = Winding(R, x + 1, y)
         \/ \E e \in R : \/ InnerSide(e) = <<x, y>> /\ OuterSide(e) = <<x + 1, y>>
                         \/ OuterSide(e) = <<x, y>> /\ InnerSide(e) = <<x + 1, y>>
<1>1. surface.width \in Nat /\ surface.height \in Nat /\ x \in Int /\ y \in Int /\ x + 1 \in Nat
  BY DEF ContourIsOfTheStep
<1>2. Winding(R, x, y) = Winding(R, x + 1, y) + Across(R, x, y) /\ Winding(R, x + 1, y) \in Int
  BY <1>1, StepAcross, CrossedAreFinite
<1>3. CASE Downward(x, y) \in R
  BY <1>1, <1>3, SidesAre
<1>4. CASE Upward(x, y) \in R
  BY <1>1, <1>4, SidesAre
<1>5. CASE Downward(x, y) \notin R /\ Upward(x, y) \notin R
  BY <1>2, <1>5 DEF Across
<1> QED BY <1>3, <1>4, <1>5

(* What holds at the right border and, where it holds of a pixel, of the   *)
(* one to its left, holds in the whole grid.                               *)
LEMMA EveryPixel ==
  ASSUME ContourIsOfTheStep, NEW Good,
         \A y \in 0..(surface.height - 1) : <<surface.width - 1, y>> \in Good,
         \A x \in 0..(surface.width - 2), y \in 0..(surface.height - 1) :
           <<x + 1, y>> \in Good => <<x, y>> \in Good
  PROVE  \A x, y : InGrid(x, y) => <<x, y>> \in Good
<1> SUFFICES ASSUME NEW x, NEW y, InGrid(x, y) PROVE <<x, y>> \in Good
  OBVIOUS
<1>1. surface.width \in Nat /\ surface.width # 0 /\ y \in 0..(surface.height - 1)
  BY DEF ContourIsOfTheStep, InGrid
<1>2. PICK n \in Nat : n = surface.width - 1
  BY <1>1
<1>3. PICK Row : Row = {i \in 0..n : <<i, y>> \in Good}
  OBVIOUS
<1>4. n \in Row
  BY <1>1, <1>2, <1>3
<1>5. ASSUME NEW i \in 0..n, i < n, i + 1 \in Row PROVE i \in Row
  <2>1. i \in 0..(surface.width - 2)
    BY <1>1, <1>2, <1>5
  <2> QED BY <1>1, <1>3, <1>5, <2>1
<1>6. \A i \in 0..n : i \in Row
  BY <1>4, <1>5, FromTheRight
<1> QED BY <1>2, <1>3, <1>6 DEF InGrid

(* A loop goes around a pixel once or not at all, and always the same way. *)
WindsLeft(R) ==
  /\ \A x, y : InGrid(x, y) => Winding(R, x, y) \in {0, 1}
  /\ \A e \in R : WindingAt(R, InnerSide(e)) = 1 /\ WindingAt(R, OuterSide(e)) = 0

WindsRight(R) ==
  /\ \A x, y : InGrid(x, y) => Winding(R, x, y) \in {-1, 0}
  /\ \A e \in R : WindingAt(R, InnerSide(e)) = 0 /\ WindingAt(R, OuterSide(e)) = -1

LEMMA LoopsWindOnce ==
  ASSUME ContourIsOfTheStep, NEW R, IsLoop(R)
  PROVE  WindsLeft(R) \/ WindsRight(R)
<1>1. PICK e \in R : R \subseteq Crossings /\ IsClosed(R)
  BY LoopIs
<1>2. PICK a : a = WindingAt(R, InnerSide(e))
  OBVIOUS
<1>3. a \in Int
  <2>1. InGrid(InnerSide(e)[1], InnerSide(e)[2])
    BY <1>1, SidesDiffer DEF IsPixel
  <2>2. InnerSide(e)[1] \in Nat
    BY <2>1 DEF InGrid
  <2> QED BY <1>2, <2>2, CrossedAreFinite DEF WindingAt
<1>4. ASSUME NEW f \in R PROVE WindingAt(R, InnerSide(f)) = a /\ WindingAt(R, OuterSide(f)) = a - 1
  <2>1. WindingAt(R, InnerSide(f)) = a
    BY <1>1, <1>2, LoopIs
  <2>2. WindingAt(R, InnerSide(f)) = WindingAt(R, OuterSide(f)) + 1
    BY <1>1, SidesDiffer
  <2>3. WindingAt(R, OuterSide(f)) \in Int
    <3>1. InGrid(OuterSide(f)[1], OuterSide(f)[2])
      BY <1>1, SidesDiffer DEF IsPixel
    <3>2. OuterSide(f)[1] \in Nat
      BY <3>1 DEF InGrid
    <3> QED BY <3>2, CrossedAreFinite DEF WindingAt
  <2> QED BY <1>3, <2>1, <2>2, <2>3
<1>5. \A x, y : InGrid(x, y) => Winding(R, x, y) \in {0, a, a - 1}
  <2>1. PICK Good : Good = {p \in Int \X Int : WindingAt(R, p) \in {0, a, a - 1}}
    OBVIOUS
  <2>2. ASSUME NEW y \in 0..(surface.height - 1) PROVE <<surface.width - 1, y>> \in Good
    <3>1. R \subseteq Crossings /\ surface.width - 1 \in Int /\ y \in Int
      BY <1>1 DEF ContourIsOfTheStep
    <3>2. Winding(R, surface.width - 1, y) = 0
      BY <3>1, OffTheGrid
    <3> QED BY <2>1, <3>1, <3>2 DEF WindingAt
  <2>3. ASSUME NEW x \in 0..(surface.width - 2), NEW y \in 0..(surface.height - 1), <<x + 1, y>> \in Good
        PROVE  <<x, y>> \in Good
    <3>1. CASE Winding(R, x, y) = Winding(R, x + 1, y)
      BY <2>1, <2>3, <3>1 DEF WindingAt
    <3>2. CASE \E f \in R : InnerSide(f) = <<x, y>> \/ OuterSide(f) = <<x, y>>
      BY <1>4, <2>1, <3>2
    <3> QED BY <1>1, <3>1, <3>2, StepInRow
  <2>4. \A x, y : InGrid(x, y) => <<x, y>> \in Good
    BY <2>2, <2>3, EveryPixel
  <2> QED BY <2>1, <2>4 DEF WindingAt
<1>6. a \in {0, 1}
  <2> SUFFICES ASSUME a \notin {0, 1} PROVE FALSE
    OBVIOUS
  <2>1. PICK Good : Good = {p \in Int \X Int : WindingAt(R, p) = 0}
    OBVIOUS
  <2>2. ASSUME NEW y \in 0..(surface.height - 1) PROVE <<surface.width - 1, y>> \in Good
    BY <1>1, <2>1, OffTheGrid DEF WindingAt, ContourIsOfTheStep
  <2>3. ASSUME NEW x \in 0..(surface.width - 2), NEW y \in 0..(surface.height - 1), <<x + 1, y>> \in Good
        PROVE  <<x, y>> \in Good
    <3>1. CASE Winding(R, x, y) = Winding(R, x + 1, y)
      BY <2>1, <2>3, <3>1 DEF WindingAt
    <3>2. CASE \E f \in R : InnerSide(f) = <<x + 1, y>> \/ OuterSide(f) = <<x + 1, y>>
      <4>1. WindingAt(R, <<x + 1, y>>) \in {a, a - 1}
        BY <1>4, <3>2
      <4> QED BY <1>3, <2>1, <2>3, <4>1
    <3> QED BY <1>1, <3>1, <3>2, StepInRow
  <2>4. \A x, y : InGrid(x, y) => <<x, y>> \in Good
    BY <2>2, <2>3, EveryPixel
  <2>5. InnerSide(e) \in Good
    BY <1>1, <2>4, SidesDiffer DEF IsPixel
  <2> QED BY <1>2, <2>1, <2>5
<1>7. CASE a = 1
  BY <1>4, <1>5, <1>7 DEF WindsLeft
<1>8. CASE a = 0
  BY <1>4, <1>5, <1>8 DEF WindsRight
<1> QED BY <1>6, <1>7, <1>8

(* All crossings together go around what is reached.                       *)
LEMMA AllWindAroundReached ==
  ASSUME ContourIsOfTheStep
  PROVE  \A x, y : InGrid(x, y) => Winding(Crossings, x, y) = IF IsReached(x, y) THEN 1 ELSE 0
<1>1. PICK Good : Good = {p \in Int \X Int : WindingAt(Crossings, p) = IF IsReached(p[1], p[2]) THEN 1 ELSE 0}
  OBVIOUS
<1>2. ASSUME NEW y \in 0..(surface.height - 1) PROVE <<surface.width - 1, y>> \in Good
  <2>1. ~IsReached(surface.width - 1, y)
    BY BorderIsNot
  <2>2. Winding(Crossings, surface.width - 1, y) = 0
    BY OffTheGrid
  <2> QED BY <1>1, <2>1, <2>2 DEF WindingAt, ContourIsOfTheStep
<1>3. ASSUME NEW x \in 0..(surface.width - 2), NEW y \in 0..(surface.height - 1), <<x + 1, y>> \in Good
      PROVE  <<x, y>> \in Good
  <2>1. Winding(Crossings, x, y) = Winding(Crossings, x + 1, y) + Across(Crossings, x, y)
    BY StepAcross
  <2>2. Winding(Crossings, x + 1, y) = IF IsReached(x + 1, y) THEN 1 ELSE 0
    BY <1>1, <1>3 DEF WindingAt
  <2>3. /\ Downward(x, y) \in Crossings <=> IsReached(x, y) /\ ~IsReached(x + 1, y)
        /\ Upward(x, y) \in Crossings <=> IsReached(x + 1, y) /\ ~IsReached(x, y)
    BY CrossingsAcross
  <2>4. Winding(Crossings, x, y) = IF IsReached(x, y) THEN 1 ELSE 0
    BY <2>1, <2>2, <2>3 DEF Across
  <2> QED BY <1>1, <2>4 DEF WindingAt
<1>4. \A x, y : InGrid(x, y) => <<x, y>> \in Good
  BY <1>2, <1>3, EveryPixel
<1> QED BY <1>1, <1>4 DEF WindingAt

(* What two sets of crossings go around they go around together.           *)
LEMMA WindingOfUnion ==
  ASSUME ContourIsOfTheStep, NEW R, NEW Q, R \cap Q = {}, NEW x \in Nat, NEW y
  PROVE  Winding(R \cup Q, x, y) = Winding(R, x, y) + Winding(Q, x, y)
<1>1. /\ IsFiniteSet(Downs(R, x, y)) /\ Cardinality(Downs(R, x, y)) \in Nat
      /\ IsFiniteSet(Ups(R, x, y)) /\ Cardinality(Ups(R, x, y)) \in Nat
      /\ IsFiniteSet(Downs(Q, x, y)) /\ Cardinality(Downs(Q, x, y)) \in Nat
      /\ IsFiniteSet(Ups(Q, x, y)) /\ Cardinality(Ups(Q, x, y)) \in Nat
  BY CrossedAreFinite
<1>2. /\ Downs(R \cup Q, x, y) = Downs(R, x, y) \cup Downs(Q, x, y)
      /\ Ups(R \cup Q, x, y) = Ups(R, x, y) \cup Ups(Q, x, y)
      /\ Downs(R, x, y) \cap Downs(Q, x, y) = {} /\ Ups(R, x, y) \cap Ups(Q, x, y) = {}
  BY DEF Downs, Ups
<1>3. \A S, T : IsFiniteSet(S) /\ IsFiniteSet(T) /\ S \cap T = {} =>
        Cardinality(S \cup T) = Cardinality(S) + Cardinality(T)
  <2>1. ASSUME NEW S, NEW T, IsFiniteSet(S), IsFiniteSet(T), S \cap T = {}
        PROVE  Cardinality(S \cup T) = Cardinality(S) + Cardinality(T)
    <3>1. Cardinality(S \cup T) = Cardinality(S) + Cardinality(T) - Cardinality(S \cap T)
      BY <2>1, FS_Union
    <3>2. Cardinality(S \cap T) = 0 /\ Cardinality(S) \in Nat /\ Cardinality(T) \in Nat
      BY <2>1, FS_EmptySet, FS_CardinalityType
    <3> QED BY <3>1, <3>2
  <2> QED BY <2>1
<1>4. /\ Cardinality(Downs(R \cup Q, x, y)) = Cardinality(Downs(R, x, y)) + Cardinality(Downs(Q, x, y))
      /\ Cardinality(Ups(R \cup Q, x, y)) = Cardinality(Ups(R, x, y)) + Cardinality(Ups(Q, x, y))
  BY ONLY <1>1, <1>2, <1>3
<1> QED BY ONLY <1>1, <1>4 DEF Winding

LEMMA WindingOfNone ==
  ASSUME ContourIsOfTheStep, NEW x, NEW y
  PROVE  Winding({}, x, y) = 0
<1>1. Downs({}, x, y) = {} /\ Ups({}, x, y) = {} /\ Cardinality({}) = 0
  BY FS_EmptySet DEF Downs, Ups
<1> QED BY <1>1 DEF Winding

(* What loops go around together: as often as there are more to the left   *)
(* than to the right.  parts are the crossings of each.                    *)
AroundLeft(F, parts, x, y) == {r \in F : Winding(parts[r], x, y) = 1}

AroundRight(F, parts, x, y) == {r \in F : Winding(parts[r], x, y) = -1}

AllParts(F, parts) == UNION {parts[r] : r \in F}

LEMMA LoopsWindTogether ==
  ASSUME ContourIsOfTheStep, NEW F, IsFiniteSet(F), NEW parts, NEW x \in Nat, NEW y,
         \A r, s \in F : r # s => parts[r] \cap parts[s] = {},
         \A r \in F : Winding(parts[r], x, y) \in {-1, 0, 1}
  PROVE  Winding(AllParts(F, parts), x, y)
           = Cardinality(AroundLeft(F, parts, x, y)) - Cardinality(AroundRight(F, parts, x, y))
<1> DEFINE Claim(s) == Winding(AllParts(s, parts), x, y)
                         = Cardinality(AroundLeft(s, parts, x, y)) - Cardinality(AroundRight(s, parts, x, y))
           Good == {s \in SUBSET F : Claim(s)}
<1>1. ASSUME NEW s \in SUBSET F, \A t \in SUBSET s : t # s => t \in Good PROVE s \in Good
  <2>1. CASE s = {}
    <3>1. AllParts(s, parts) = {} /\ AroundLeft(s, parts, x, y) = {} /\ AroundRight(s, parts, x, y) = {}
      BY <2>1 DEF AllParts, AroundLeft, AroundRight
    <3>2. Cardinality({}) = 0
      BY FS_EmptySet
    <3>3. Claim(s)
      BY <3>1, <3>2, WindingOfNone
    <3> QED BY <3>3
  <2>2. CASE s # {}
    <3>1. PICK r \in s : TRUE
      BY <2>2
    <3>2. PICK t : t = s \ {r}
      OBVIOUS
    <3>3. t \in Good
      BY <1>1, <3>1, <3>2
    <3>4. PICK w, l, g : /\ w = Winding(AllParts(t, parts), x, y)
                         /\ l = AroundLeft(t, parts, x, y) /\ g = AroundRight(t, parts, x, y)
      OBVIOUS
    <3>5. w = Cardinality(l) - Cardinality(g)
      BY <3>3, <3>4
    <3>6. /\ IsFiniteSet(l) /\ Cardinality(l) \in Nat /\ IsFiniteSet(g) /\ Cardinality(g) \in Nat
          /\ r \notin l /\ r \notin g
      <4>1. l \subseteq F /\ g \subseteq F /\ r \notin l /\ r \notin g
        BY <3>2, <3>4 DEF AroundLeft, AroundRight
      <4> QED BY <4>1, FS_Subset, FS_CardinalityType
    <3>7. AllParts(s, parts) = parts[r] \cup AllParts(t, parts) /\ parts[r] \cap AllParts(t, parts) = {}
      BY <3>1, <3>2 DEF AllParts
    <3>8. Winding(AllParts(s, parts), x, y) = Winding(parts[r], x, y) + w
      BY <3>4, <3>7, WindingOfUnion
    <3>9. PICK v : v = Winding(parts[r], x, y) /\ v \in {-1, 0, 1}
      BY <3>1
    <3>10. /\ AroundLeft(s, parts, x, y) = IF v = 1 THEN l \cup {r} ELSE l
           /\ AroundRight(s, parts, x, y) = IF v = -1 THEN g \cup {r} ELSE g
      BY <3>1, <3>2, <3>4, <3>9 DEF AroundLeft, AroundRight
    <3>11. Cardinality(l \cup {r}) = Cardinality(l) + 1 /\ Cardinality(g \cup {r}) = Cardinality(g) + 1
      BY <3>6, FS_AddElement
    <3>12. Claim(s)
      BY ONLY <3>5, <3>6, <3>8, <3>9, <3>10, <3>11
    <3> QED BY <3>12
  <2> QED BY <2>1, <2>2
<1> HIDE DEF Good, Claim
<1>2. \A s \in SUBSET F : s \in Good
  BY <1>1, BySmaller
<1> QED BY <1>2 DEF Good, Claim

-----------------------------------------------------------------------------
(* Crossings that no line is picked up at: they lead from saddle to saddle.*)
OnlySaddles(U) ==
  /\ U \subseteq Crossings
  /\ \A e \in U : onward[e] \in U /\ contour[e[1]] \in {5, 10}

LEMMA SaddleIs ==
  ASSUME ContourIsOfTheStep, NEW x \in 0..(surface.width - 2), NEW y \in 0..(surface.height - 2),
         contour[<<x, y>>] \in {5, 10}
  PROVE  \/ IsReached(x, y) /\ IsReached(x + 1, y + 1) /\ ~IsReached(x + 1, y) /\ ~IsReached(x, y + 1)
         \/ ~IsReached(x, y) /\ ~IsReached(x + 1, y + 1) /\ IsReached(x + 1, y) /\ IsReached(x, y + 1)
<1>1. x \in Int /\ y \in Int
  OBVIOUS
<1>2. <<x, y>> \in Cells(surface)
  BY <1>1, CellIs
<1>3. CornersAre(x, y)
  BY <1>1, <1>2, CellIs
<1>4. PICK g : g = contour[<<x, y>>]
  OBVIOUS
<1>5. PICK a, b, c, d \in BOOLEAN : /\ a <=> IsReached(x, y)
                                    /\ b <=> IsReached(x + 1, y)
                                    /\ c <=> IsReached(x + 1, y + 1)
                                    /\ d <=> IsReached(x, y + 1)
  <2>1. PICK a \in BOOLEAN : a <=> IsReached(x, y)
    BY DEF IsReached, InTime
  <2>2. PICK b \in BOOLEAN : b <=> IsReached(x + 1, y)
    BY DEF IsReached, InTime
  <2>3. PICK c \in BOOLEAN : c <=> IsReached(x + 1, y + 1)
    BY DEF IsReached, InTime
  <2>4. PICK d \in BOOLEAN : d <=> IsReached(x, y + 1)
    BY DEF IsReached, InTime
  <2> QED BY <2>1, <2>2, <2>3, <2>4
<1>6. /\ g \in 8..15 <=> a
      /\ g \in (4..7) \cup (12..15) <=> b
      /\ g \in {2, 3, 6, 7, 10, 11, 14, 15} <=> c
      /\ g \in {1, 3, 5, 7, 9, 11, 13, 15} <=> d
  BY ONLY <1>3, <1>4, <1>5 DEF CornersAre
<1>7. g \in {5, 10}
  BY ONLY <1>4, contour[<<x, y>>] \in {5, 10}
<1>8. (a /\ c /\ ~b /\ ~d) \/ (~a /\ ~c /\ b /\ d)
  BY ONLY <1>6, <1>7, a \in BOOLEAN, b \in BOOLEAN, c \in BOOLEAN, d \in BOOLEAN
<1> QED BY ONLY <1>5, <1>8, Zenon

(* Such a line turns around a single pixel that is out of reach.           *)
LEMMA SaddlesTurn ==
  ASSUME ContourIsOfTheStep, NEW U, OnlySaddles(U),
         NEW x \in 0..(surface.width - 2), NEW y \in 0..(surface.height - 1), Upward(x, y) \in U
  PROVE  /\ x >= 1 /\ y >= 1 /\ y + 1 <= surface.height - 1
         /\ Downward(x - 1, y) \in U /\ ~IsReached(x, y)
         /\ ~IsReached(x - 1, y - 1) /\ ~IsReached(x + 1, y - 1)
         /\ ~IsReached(x - 1, y + 1) /\ ~IsReached(x + 1, y + 1)
<1>1. /\ surface.width \in Nat /\ surface.height \in Nat
      /\ U \subseteq Crossings /\ \A e \in U : onward[e] \in U /\ contour[e[1]] \in {5, 10}
  BY DEF ContourIsOfTheStep, OnlySaddles
<1>2. ~IsReached(x, y) /\ IsReached(x + 1, y)
  BY <1>1, CrossingsAcross
<1>3. y >= 1 /\ y <= surface.height - 2 /\ x + 1 <= surface.width - 2
  BY <1>1, <1>2, BorderIsNot
<1>4. x \in 0..(surface.width - 2) /\ y \in 0..(surface.height - 2)
  BY <1>1, <1>3
<1>5. onward[Upward(x, y)] = IF IsReached(x, y + 1) THEN Backward(x, y)
                             ELSE IF IsReached(x + 1, y + 1) THEN Upward(x, y + 1)
                             ELSE Forward(x + 1, y)
  BY <1>1, <1>4, OnwardThrough
<1>6. contour[<<x, y>>] \in {5, 10}
  <2>1. Upward(x, y) \in Crossings /\ Upward(x, y)[2] = <<x, y>>
    BY <1>1 DEF Upward
  <2>2. onward[Upward(x, y)][1] = <<x, y>> /\ onward[Upward(x, y)] \in U
    BY <1>1, <2>1, OnwardIsCrossing
  <2> QED BY <1>1, <2>2
<1>7. ~IsReached(x + 1, y + 1) /\ IsReached(x, y + 1)
  BY <1>2, <1>4, <1>6, SaddleIs
<1>8. Backward(x, y) \in U
  BY <1>1, <1>5, <1>7
<1>9. x >= 1
  BY <1>4, <1>7, BorderIsNot
<1>10. PICK i : i \in 0..(surface.width - 2) /\ i + 1 = x /\ i = x - 1
  <2>1. x - 1 \in 0..(surface.width - 2) /\ (x - 1) + 1 = x
    BY <1>1, <1>4, <1>9
  <2> QED BY <2>1
<1>11. onward[Backward(i + 1, y)] = IF IsReached(i, y) THEN Downward(i, y)
                                    ELSE IF IsReached(i, y + 1) THEN Backward(i, y)
                                    ELSE Upward(i, y + 1)
  BY <1>1, <1>4, <1>8, <1>10, OnwardThrough
<1>12. contour[<<i, y>>] \in {5, 10}
  <2>1. Backward(x, y) \in Crossings /\ Backward(x, y)[2] = <<i, y>>
    BY <1>1, <1>8, <1>10 DEF Backward
  <2>2. onward[Backward(x, y)][1] = <<i, y>> /\ onward[Backward(x, y)] \in U
    BY <1>1, <1>8, <2>1, OnwardIsCrossing
  <2> QED BY <1>1, <2>2
<1>13. IsReached(i, y) /\ ~IsReached(i, y + 1)
  BY <1>2, <1>4, <1>7, <1>10, <1>12, SaddleIs
<1>14. Downward(i, y) \in U
  BY <1>1, <1>8, <1>10, <1>11, <1>13
<1>15. PICK j : j \in 0..(surface.height - 2) /\ j + 1 = y /\ j = y - 1
  <2>1. y - 1 \in 0..(surface.height - 2) /\ (y - 1) + 1 = y
    BY <1>1, <1>3, <1>4
  <2> QED BY <2>1
<1>16. contour[<<i, j>>] \in {5, 10}
  <2>1. Downward(i, y) \in Crossings /\ Downward(i, y)[2] = <<i, j>>
    BY <1>1, <1>14, <1>15 DEF Downward
  <2>2. onward[Downward(i, y)][1] = <<i, j>> /\ onward[Downward(i, y)] \in U
    BY <1>1, <1>14, <2>1, OnwardIsCrossing
  <2> QED BY <1>1, <2>2
<1>17. IsReached(x, j) /\ ~IsReached(i, j)
  BY <1>2, <1>10, <1>13, <1>15, <1>16, SaddleIs
<1>18. contour[<<x, j>>] \in {5, 10}
  <2>1. Upward(x, y)[1] = <<x, j>>
    BY <1>15 DEF Upward
  <2> QED BY <1>1, <2>1
<1>19. ~IsReached(x + 1, j)
  BY <1>2, <1>4, <1>15, <1>17, <1>18, SaddleIs
<1> QED BY <1>2, <1>3, <1>7, <1>9, <1>10, <1>13, <1>14, <1>15, <1>17, <1>19, <1>1

(* The other way around. *)
LEMMA SaddlesTurnBack ==
  ASSUME ContourIsOfTheStep, NEW U, OnlySaddles(U),
         NEW x \in 0..(surface.width - 2), NEW y \in 0..(surface.height - 1), Downward(x, y) \in U
  PROVE  x + 1 \in 0..(surface.width - 2) /\ Upward(x + 1, y) \in U
<1>1. /\ surface.width \in Nat /\ surface.height \in Nat
      /\ U \subseteq Crossings /\ \A e \in U : onward[e] \in U /\ contour[e[1]] \in {5, 10}
  BY DEF ContourIsOfTheStep, OnlySaddles
<1>2. IsReached(x, y) /\ ~IsReached(x + 1, y)
  BY <1>1, CrossingsAcross
<1>3. y >= 1 /\ y <= surface.height - 2
  BY <1>1, <1>2, BorderIsNot
<1>4. PICK j : j \in 0..(surface.height - 2) /\ j + 1 = y /\ j = y - 1
  BY <1>1, <1>3
<1>5. onward[Downward(x, j + 1)] = IF IsReached(x + 1, j) THEN Forward(x + 1, j)
                                   ELSE IF IsReached(x, j) THEN Downward(x, j)
                                   ELSE Backward(x, j)
  BY <1>1, <1>4, OnwardThrough
<1>6. contour[<<x, j>>] \in {5, 10}
  <2>1. Downward(x, y) \in Crossings /\ Downward(x, y)[2] = <<x, j>>
    BY <1>1, <1>4 DEF Downward
  <2>2. onward[Downward(x, y)][1] = <<x, j>> /\ onward[Downward(x, y)] \in U
    BY <1>1, <2>1, OnwardIsCrossing
  <2> QED BY <1>1, <2>2
<1>7. IsReached(x + 1, j) /\ ~IsReached(x, j)
  BY <1>2, <1>4, <1>6, SaddleIs
<1>8. Forward(x + 1, j) \in U
  BY <1>1, <1>4, <1>5, <1>7
<1>9. x + 1 # surface.width - 1
  BY <1>7, BorderIsNot
<1>10. PICK i : i \in 0..(surface.width - 2) /\ i = x + 1
  BY <1>1, <1>9
<1>11. onward[Forward(i, j)] = IF IsReached(i + 1, j + 1) THEN Upward(i, j + 1)
                               ELSE IF IsReached(i + 1, j) THEN Forward(i + 1, j)
                               ELSE Downward(i, j)
  BY <1>1, <1>4, <1>8, <1>10, OnwardThrough
<1>12. contour[<<i, j>>] \in {5, 10}
  <2>1. Forward(i, j) \in Crossings /\ Forward(i, j)[2] = <<i, j>>
    BY <1>1, <1>8, <1>10 DEF Forward
  <2>2. onward[Forward(i, j)][1] = <<i, j>> /\ onward[Forward(i, j)] \in U
    BY <1>1, <1>8, <1>10, <2>1, OnwardIsCrossing
  <2> QED BY <1>1, <2>2
<1>13. IsReached(i + 1, j + 1)
  BY <1>2, <1>4, <1>7, <1>10, <1>12, SaddleIs
<1>14. Upward(i, y) \in U
  BY <1>1, <1>4, <1>8, <1>10, <1>11, <1>13
<1> QED BY <1>10, <1>14

LEMMA SaddlesWind ==
  ASSUME ContourIsOfTheStep, NEW U, OnlySaddles(U)
  PROVE  \A x, y : InGrid(x, y) =>
           Winding(U, x, y) = IF x <= surface.width - 2 /\ Upward(x, y) \in U THEN -1 ELSE 0
<1>0. U \subseteq Crossings /\ surface.width \in Nat
  BY DEF OnlySaddles, ContourIsOfTheStep
<1>1. PICK Good : Good = {p \in Int \X Int : WindingAt(U, p)
                            = IF p[1] <= surface.width - 2 /\ Upward(p[1], p[2]) \in U THEN -1 ELSE 0}
  OBVIOUS
<1>2. ASSUME NEW y \in 0..(surface.height - 1) PROVE <<surface.width - 1, y>> \in Good
  <2>1. Winding(U, surface.width - 1, y) = 0
    BY <1>0, OffTheGrid
  <2>2. ~(surface.width - 1 <= surface.width - 2) /\ surface.width - 1 \in Int
    BY <1>0
  <2> QED BY <1>1, <2>1, <2>2 DEF WindingAt
<1>3. ASSUME NEW x \in 0..(surface.width - 2), NEW y \in 0..(surface.height - 1), <<x + 1, y>> \in Good
      PROVE  <<x, y>> \in Good
  <2>1. Winding(U, x, y) = Winding(U, x + 1, y) + Across(U, x, y)
    BY <1>0, StepAcross
  <2>2. Winding(U, x + 1, y) = IF x + 1 <= surface.width - 2 /\ Upward(x + 1, y) \in U THEN -1 ELSE 0
    BY <1>1, <1>3 DEF WindingAt
  <2>3. Downward(x, y) \in U => x + 1 <= surface.width - 2 /\ Upward(x + 1, y) \in U
    BY SaddlesTurnBack, <1>0
  <2>4. x + 1 <= surface.width - 2 /\ Upward(x + 1, y) \in U => Downward(x, y) \in U
    <3>1. x + 1 <= surface.width - 2 => x + 1 \in 0..(surface.width - 2) /\ (x + 1) - 1 = x
      BY <1>0
    <3> QED BY <3>1, SaddlesTurn
  <2>5. ~(Downward(x, y) \in U /\ Upward(x, y) \in U)
    BY <1>0, OneWayAcross
  <2>6. Winding(U, x, y) = IF Upward(x, y) \in U THEN -1 ELSE 0
    BY <2>1, <2>2, <2>3, <2>4, <2>5 DEF Across
  <2>7. x <= surface.width - 2 /\ x \in Int /\ y \in Int
    BY <1>0
  <2> QED BY <1>1, <2>6, <2>7 DEF WindingAt
<1>4. \A x, y : InGrid(x, y) => <<x, y>> \in Good
  BY <1>2, <1>3, EveryPixel
<1> QED BY <1>1, <1>4 DEF WindingAt

-----------------------------------------------------------------------------
(* The side a loop shows another one is the same all along it. *)
LEMMA OneSide ==
  ASSUME ContourIsOfTheStep, NEW R, IsLoop(R), NEW Q, IsClosed(Q), R \cap Q = {}, NEW d \in R
  PROVE  \A e \in R : /\ WindingAt(Q, InnerSide(e)) = WindingAt(Q, InnerSide(d))
                      /\ WindingAt(Q, OuterSide(e)) = WindingAt(Q, InnerSide(d))
<1>1. /\ R \subseteq Crossings
      /\ \A e, f \in R : WindingAt(Q, InnerSide(e)) = WindingAt(Q, InnerSide(f))
  BY LoopIs
<1>2. ASSUME NEW e \in R PROVE WindingAt(Q, OuterSide(e)) = WindingAt(Q, InnerSide(d))
  <2>1. e \in Crossings /\ e \notin Q
    BY <1>1
  <2>2. IsPixel(OuterSide(e)) /\ WindingAt(Q, InnerSide(e)) = WindingAt(Q, OuterSide(e)) + (IF e \in Q THEN 1 ELSE 0)
    BY <2>1, SidesDiffer
  <2>3. surface.width \in Nat
    BY DEF ContourIsOfTheStep
  <2>4. WindingAt(Q, OuterSide(e)) \in Int
    BY <2>2, <2>3, CrossedAreFinite DEF WindingAt, IsPixel, InGrid
  <2>5. WindingAt(Q, InnerSide(e)) = WindingAt(Q, OuterSide(e))
    BY <2>1, <2>2, <2>4
  <2> QED BY <1>1, <2>5
<1> QED BY <1>1, <1>2

(* Between neighbours a loop is not stepped over where it goes around none *)
(* of its own sides.                                                       *)
SidesShow(R, Q, v) == \A e \in R : WindingAt(Q, InnerSide(e)) = v /\ WindingAt(Q, OuterSide(e)) = v

StaysUnless(R, Q, v) ==
  \A x \in 0..(surface.width - 2), y \in 0..(surface.height - 1) :
    Winding(Q, x, y) # v \/ Winding(Q, x + 1, y) # v => Winding(R, x, y) = Winding(R, x + 1, y)

LEMMA NotSteppedOver ==
  ASSUME ContourIsOfTheStep, NEW R, R \subseteq Crossings, NEW Q, NEW v, SidesShow(R, Q, v)
  PROVE  StaysUnless(R, Q, v)
<1> USE DEF SidesShow, StaysUnless
<1> SUFFICES ASSUME NEW x \in 0..(surface.width - 2), NEW y \in 0..(surface.height - 1),
                    Winding(Q, x, y) # v \/ Winding(Q, x + 1, y) # v
             PROVE  Winding(R, x, y) = Winding(R, x + 1, y)
  OBVIOUS
<1>1. SUFFICES ASSUME NEW e \in R,
                      \/ InnerSide(e) = <<x, y>> /\ OuterSide(e) = <<x + 1, y>>
                      \/ OuterSide(e) = <<x, y>> /\ InnerSide(e) = <<x + 1, y>>
               PROVE  FALSE
  BY StepInRow
<1>2. WindingAt(Q, <<x, y>>) = v /\ WindingAt(Q, <<x + 1, y>>) = v
  BY <1>1
<1> QED BY <1>2 DEF WindingAt

(* A shell around a hole's line is around all that is in the hole.         *)
LEMMA ShellAroundHole ==
  ASSUME ContourIsOfTheStep,
         NEW s, IsLoop(s), WindsLeft(s), NEW h, IsLoop(h), WindsRight(h), s \cap h = {},
         NEW d \in h, WindingAt(s, InnerSide(d)) = 1,
         NEW x, NEW y, InGrid(x, y), Winding(h, x, y) = -1
  PROVE  Winding(s, x, y) = 1
<1>1. /\ s \subseteq Crossings /\ s # {} /\ IsClosed(s) /\ h \subseteq Crossings /\ IsClosed(h)
      /\ surface.width \in Nat /\ surface.height \in Nat
  BY LoopIs DEF ContourIsOfTheStep
<1>2. \A e \in h : WindingAt(s, InnerSide(e)) = 1 /\ WindingAt(s, OuterSide(e)) = 1
  BY <1>1, OneSide
<1>3. PICK b \in s : TRUE
  BY <1>1
<1>4. PICK v : v = WindingAt(h, InnerSide(b))
  OBVIOUS
<1>5. \A e \in s : WindingAt(h, InnerSide(e)) = v /\ WindingAt(h, OuterSide(e)) = v
  BY <1>1, <1>3, <1>4, OneSide
<1>6. \A i, j : InGrid(i, j) => Winding(s, i, j) \in {0, 1} /\ Winding(h, i, j) \in {-1, 0}
  BY DEF WindsLeft, WindsRight
<1>7. v \in {-1, 0}
  <2>1. IsPixel(InnerSide(b))
    BY <1>1, <1>3, SidesDiffer
  <2> QED BY <1>4, <1>6, <2>1 DEF IsPixel, WindingAt
<1>8. \A j \in 0..(surface.height - 1) : Winding(s, surface.width - 1, j) = 0 /\ Winding(h, surface.width - 1, j) = 0
  BY <1>1, OffTheGrid
<1>11. \A i \in 0..(surface.width - 2), j \in 0..(surface.height - 1) :
         Winding(h, i, j) # v \/ Winding(h, i + 1, j) # v => Winding(s, i, j) = Winding(s, i + 1, j)
  <2>1. s \subseteq Crossings /\ SidesShow(s, h, v)
    BY <1>1, <1>5 DEF SidesShow
  <2>2. StaysUnless(s, h, v)
    BY ONLY ContourIsOfTheStep, <2>1, NotSteppedOver
  <2> QED BY <2>2 DEF StaysUnless
<1>12. \A i \in 0..(surface.width - 2), j \in 0..(surface.height - 1) :
         Winding(s, i, j) # 1 \/ Winding(s, i + 1, j) # 1 => Winding(h, i, j) = Winding(h, i + 1, j)
  <2>1. PICK u : u = 1
    OBVIOUS
  <2>2. \A e \in h : WindingAt(s, InnerSide(e)) = u /\ WindingAt(s, OuterSide(e)) = u
    BY <1>2, <2>1
  <2>3. \A i \in 0..(surface.width - 2), j \in 0..(surface.height - 1) :
          Winding(s, i, j) # u \/ Winding(s, i + 1, j) # u => Winding(h, i, j) = Winding(h, i + 1, j)
    <3>1. h \subseteq Crossings
      BY <1>1
    <3>2. SidesShow(h, s, u)
      BY <2>2 DEF SidesShow
    <3>3. StaysUnless(h, s, u)
      BY ONLY ContourIsOfTheStep, <3>1, <3>2, NotSteppedOver
    <3> QED BY <3>3 DEF StaysUnless
  <2> QED BY ONLY <2>1, <2>3
<1>9. CASE v = 0
  <2>1. PICK Good : Good = {p \in Int \X Int : ~(WindingAt(h, p) = -1 /\ WindingAt(s, p) = 0)}
    OBVIOUS
  <2>2. ASSUME NEW j \in 0..(surface.height - 1) PROVE <<surface.width - 1, j>> \in Good
    BY <1>1, <1>8, <2>1, <2>2 DEF WindingAt
  <2>3. ASSUME NEW i \in 0..(surface.width - 2), NEW j \in 0..(surface.height - 1), <<i + 1, j>> \in Good
        PROVE  <<i, j>> \in Good
    <3>1. SUFFICES ASSUME Winding(h, i, j) = -1, Winding(s, i, j) = 0 PROVE FALSE
      BY <2>1 DEF WindingAt
    <3>2. Winding(h, i, j) = Winding(h, i + 1, j)
      <4>1. Winding(s, i, j) # 1
        BY <3>1
      <4> QED BY <4>1, <1>12
    <3>3. Winding(s, i, j) = Winding(s, i + 1, j)
      <4>1. Winding(h, i, j) # v
        BY <1>9, <3>1
      <4> QED BY <4>1, <1>11
    <3> QED BY <2>1, <2>3, <3>1, <3>2, <3>3 DEF WindingAt
  <2>4. <<x, y>> \in Good
    BY <2>2, <2>3, EveryPixel
  <2> QED BY <1>6, <2>1, <2>4 DEF WindingAt
<1>10. CASE v = -1
  <2>1. PICK Good : Good = {p \in Int \X Int : WindingAt(h, p) = 0 /\ WindingAt(s, p) = 0}
    OBVIOUS
  <2>2. ASSUME NEW j \in 0..(surface.height - 1) PROVE <<surface.width - 1, j>> \in Good
    BY <1>1, <1>8, <2>1, <2>2 DEF WindingAt
  <2>3. ASSUME NEW i \in 0..(surface.width - 2), NEW j \in 0..(surface.height - 1), <<i + 1, j>> \in Good
        PROVE  <<i, j>> \in Good
    <3>1. Winding(h, i + 1, j) = 0 /\ Winding(s, i + 1, j) = 0
      BY <2>1, <2>3 DEF WindingAt
    <3>2. Winding(h, i, j) = Winding(h, i + 1, j)
      <4>1. Winding(s, i + 1, j) # 1
        BY <3>1
      <4> QED BY <4>1, <1>12
    <3>3. Winding(s, i, j) = Winding(s, i + 1, j)
      <4>1. Winding(h, i + 1, j) # v
        BY <1>10, <3>1
      <4> QED BY <4>1, <1>11
    <3> QED BY <2>1, <3>1, <3>2, <3>3 DEF WindingAt
  <2>4. <<x, y>> \in Good
    BY <2>2, <2>3, EveryPixel
  <2> QED BY <2>1, <2>4 DEF WindingAt
<1> QED BY <1>7, <1>9, <1>10

-----------------------------------------------------------------------------
(* Lines sorted into shells and holes, all but those no line is picked up  *)
(* at.                                                                     *)
Sorted(S, H, parts) ==
  /\ IsFiniteSet(S) /\ IsFiniteSet(H)
  /\ \A r \in S \cup H : IsLoop(parts[r])
  /\ \A r, s \in S \cup H : r # s => parts[r] \cap parts[s] = {}
  /\ \A s \in S : WindsLeft(parts[s])
  /\ \A h \in H : WindsRight(parts[h])
  /\ OnlySaddles(Crossings \ AllParts(S \cup H, parts))

IsAround(parts, r, x, y) == Winding(parts[r], x, y) # 0

AllAround(F, parts, x, y) == {r \in F : IsAround(parts, r, x, y)}

(* Between four that are reached, where no line is picked up. *)
Missed(F, parts, x, y) == x <= surface.width - 2 /\ Upward(x, y) \in Crossings \ AllParts(F, parts)

(* A pixel has as many shells around it as holes, and one more when it is  *)
(* reached; only one that is alone among others has one more as well.      *)
LEMMA ShellsAndHoles ==
  ASSUME ContourIsOfTheStep, NEW S, NEW H, NEW parts, Sorted(S, H, parts), NEW x, NEW y, InGrid(x, y),
         ~Missed(S \cup H, parts, x, y)
  PROVE  /\ IsFiniteSet(AllAround(S, parts, x, y)) /\ Cardinality(AllAround(S, parts, x, y)) \in Nat
         /\ IsFiniteSet(AllAround(H, parts, x, y)) /\ Cardinality(AllAround(H, parts, x, y)) \in Nat
         /\ IsReached(x, y) => Cardinality(AllAround(S, parts, x, y)) = Cardinality(AllAround(H, parts, x, y)) + 1
         /\ ~IsReached(x, y) => Cardinality(AllAround(S, parts, x, y)) = Cardinality(AllAround(H, parts, x, y))
<1>1. PICK F, U, D, a, b :
        /\ F = S \cup H /\ D = AllParts(F, parts) /\ U = Crossings \ D
        /\ a = AllAround(S, parts, x, y) /\ b = AllAround(H, parts, x, y)
  OBVIOUS
<1>2. /\ IsFiniteSet(F) /\ \A r, s \in F : r # s => parts[r] \cap parts[s] = {}
      /\ OnlySaddles(U) /\ \A r \in F : parts[r] \subseteq Crossings
  BY <1>1, FS_Union, LoopIs DEF Sorted
<1>3. /\ \A s \in S : Winding(parts[s], x, y) \in {0, 1}
      /\ \A h \in H : Winding(parts[h], x, y) \in {-1, 0}
  BY DEF Sorted, WindsLeft, WindsRight
<1>4. AroundLeft(F, parts, x, y) = a /\ AroundRight(F, parts, x, y) = b
  BY <1>1, <1>3 DEF AroundLeft, AroundRight, AllAround, IsAround
<1>5. x \in Nat
  BY DEF InGrid, ContourIsOfTheStep
<1>6. Winding(D, x, y) = Cardinality(a) - Cardinality(b)
  <2>1. \A r \in F : Winding(parts[r], x, y) \in {-1, 0, 1}
    BY <1>1, <1>3
  <2>2. Winding(AllParts(F, parts), x, y)
          = Cardinality(AroundLeft(F, parts, x, y)) - Cardinality(AroundRight(F, parts, x, y))
    BY ONLY ContourIsOfTheStep, <1>2, <1>5, <2>1, LoopsWindTogether
  <2> QED BY <1>1, <1>4, <2>2
<1>7. Winding(U, x, y) = 0
  BY <1>1, <1>2, SaddlesWind DEF Missed
<1>8. D \cup U = Crossings /\ D \cap U = {}
  BY <1>1, <1>2 DEF AllParts
<1>9. Winding(Crossings, x, y) = Winding(D, x, y) + Winding(U, x, y)
  BY <1>5, <1>8, WindingOfUnion
<1>10. IsFiniteSet(a) /\ IsFiniteSet(b) /\ Cardinality(a) \in Nat /\ Cardinality(b) \in Nat
  BY <1>1, FS_Subset, FS_CardinalityType DEF Sorted, AllAround
<1>11. Winding(Crossings, x, y) = IF IsReached(x, y) THEN 1 ELSE 0
  BY AllWindAroundReached
<1>12. /\ IsReached(x, y) => Cardinality(a) = Cardinality(b) + 1
       /\ ~IsReached(x, y) => Cardinality(a) = Cardinality(b)
  BY <1>6, <1>7, <1>9, <1>10, <1>11
<1> QED BY <1>1, <1>10, <1>12

(* The shells around a hole, told by any of its crossings. *)
ShellsOf(S, parts, d) == {s \in S : WindingAt(parts[s], InnerSide(d)) # 0}

(* A pixel that is reached is in a shell and in no hole of it.             *)
LEMMA ReachedIsCovered ==
  ASSUME ContourIsOfTheStep, NEW S, NEW H, NEW parts, Sorted(S, H, parts), NEW x, NEW y, InGrid(x, y),
         IsReached(x, y), NEW first, \A h \in H : first[h] \in parts[h]
  PROVE  \E s \in S : /\ IsAround(parts, s, x, y)
                      /\ \A h \in H : ShellsOf(S, parts, first[h]) = {s} => ~IsAround(parts, h, x, y)
<1>1. PICK a, b : a = AllAround(S, parts, x, y) /\ b = AllAround(H, parts, x, y)
  OBVIOUS
<1>2. ~Missed(S \cup H, parts, x, y)
  <2>1. ASSUME x <= surface.width - 2, Upward(x, y) \in Crossings PROVE FALSE
    <3>1. x \in 0..(surface.width - 2) /\ y \in 0..(surface.height - 1)
      BY <2>1 DEF InGrid, ContourIsOfTheStep
    <3> QED BY <2>1, <3>1, CrossingsAcross
  <2> QED BY <2>1 DEF Missed
<1>3. /\ IsFiniteSet(a) /\ IsFiniteSet(b) /\ Cardinality(a) \in Nat /\ Cardinality(b) \in Nat
      /\ Cardinality(a) = Cardinality(b) + 1
  BY <1>1, <1>2, ShellsAndHoles
<1>4. SUFFICES ASSUME \A s \in a : \E h \in b : ShellsOf(S, parts, first[h]) = {s} PROVE FALSE
  BY <1>1 DEF AllAround
<1>5. PICK own : own = [s \in a |-> CHOOSE h \in b : ShellsOf(S, parts, first[h]) = {s}]
  OBVIOUS
<1>6. \A s \in a : own[s] \in b /\ ShellsOf(S, parts, first[own[s]]) = {s}
  BY <1>4, <1>5
<1>7. \A s, t \in a : own[s] = own[t] => s = t
  BY <1>6
<1>8. Cardinality({own[s] : s \in a}) = Cardinality(a)
  BY <1>3, <1>7, AsMany
<1>9. {own[s] : s \in a} \subseteq b
  BY <1>6
<1>10. Cardinality({own[s] : s \in a}) <= Cardinality(b)
  BY <1>3, <1>9, FS_Subset
<1> QED BY <1>3, <1>8, <1>10

BeginsIn(first, H, parts) == \A h \in H : first[h] \in parts[h]

OnlyAround(S, parts, x, y, g) == AllAround(S, parts, x, y) = {g}

HoleAround(S, H, parts, first, g, x, y) ==
  \E h \in H : ShellsOf(S, parts, first[h]) = {g} /\ IsAround(parts, h, x, y)

(* One that is not is in no shell, in several, or in a hole of its shell.  *)
LEMMA OutOfReachIsNot ==
  ASSUME ContourIsOfTheStep, NEW S, NEW H, NEW parts, Sorted(S, H, parts), NEW x, NEW y, InGrid(x, y),
         ~IsReached(x, y), NEW first, BeginsIn(first, H, parts),
         ~Missed(S \cup H, parts, x, y),
         NEW g, OnlyAround(S, parts, x, y, g)
  PROVE  HoleAround(S, H, parts, first, g, x, y)
<1>0. AllAround(S, parts, x, y) = {g} /\ \A h \in H : first[h] \in parts[h]
  BY DEF OnlyAround, BeginsIn
<1>1. PICK a, b : a = AllAround(S, parts, x, y) /\ b = AllAround(H, parts, x, y)
  OBVIOUS
<1>2. /\ IsFiniteSet(a) /\ IsFiniteSet(b) /\ Cardinality(a) \in Nat /\ Cardinality(b) \in Nat
      /\ Cardinality(a) = Cardinality(b)
  BY ONLY ContourIsOfTheStep, Sorted(S, H, parts), InGrid(x, y), ~IsReached(x, y), ~Missed(S \cup H, parts, x, y),
          <1>1, ShellsAndHoles
<1>3. a = {g} /\ Cardinality(a) = 1
  BY <1>0, <1>1, FS_Singleton
<1>4. b # {}
  BY <1>2, <1>3, FS_EmptySet
<1>5. PICK h \in b : TRUE
  BY <1>4
<1>6. PICK d : d = first[h] /\ d \in parts[h]
  BY <1>0, <1>1, <1>5 DEF AllAround
<1>7. h \in H /\ IsLoop(parts[h]) /\ WindsRight(parts[h]) /\ parts[h] \subseteq Crossings /\ IsClosed(parts[h])
  BY <1>1, <1>5, LoopIs DEF Sorted, AllAround
<1>8. Winding(parts[h], x, y) = -1
  BY <1>1, <1>5, <1>7 DEF AllAround, IsAround, WindsRight
<1>9. \A s \in S : IsLoop(parts[s]) /\ WindsLeft(parts[s]) /\ parts[s] \cap parts[h] = {}
  <2>1. ASSUME NEW s \in S PROVE IsLoop(parts[s]) /\ WindsLeft(parts[s]) /\ parts[s] \cap parts[h] = {}
    <3>1. IsLoop(parts[s]) /\ WindsLeft(parts[s]) /\ (s # h => parts[s] \cap parts[h] = {})
      BY <1>7 DEF Sorted
    <3>2. s # h
      <4>1. Winding(parts[s], x, y) \in {0, 1}
        BY <3>1 DEF WindsLeft
      <4> QED BY <1>8, <4>1
    <3> QED BY <3>1, <3>2
  <2> QED BY <2>1
<1>10. d \in Crossings /\ IsPixel(InnerSide(d)) /\ IsReached(InnerSide(d)[1], InnerSide(d)[2])
  BY <1>6, <1>7, SidesDiffer
<1>11. PICK i, j : InnerSide(d) = <<i, j>> /\ InGrid(i, j) /\ IsReached(i, j)
  BY <1>10 DEF IsPixel
<1>12. \A s : WindingAt(parts[s], InnerSide(d)) = Winding(parts[s], i, j)
  BY <1>11 DEF WindingAt
<1>13. ASSUME NEW s \in S, WindingAt(parts[s], InnerSide(d)) # 0 PROVE s = g
  <2>1. WindingAt(parts[s], InnerSide(d)) = 1
    BY <1>9, <1>11, <1>12, <1>13 DEF WindsLeft
  <2>2. Winding(parts[s], x, y) = 1
    BY <1>6, <1>7, <1>8, <1>9, <2>1, ShellAroundHole
  <2>3. s \in a
    BY <1>1, <2>2 DEF AllAround, IsAround
  <2> QED BY <1>3, <2>3
<1>14. \E s \in S : WindingAt(parts[s], InnerSide(d)) # 0
  <2>1. PICK s \in S : IsAround(parts, s, i, j)
    BY <1>0, <1>11, ReachedIsCovered
  <2> QED BY <1>12, <2>1 DEF IsAround
<1>15. ShellsOf(S, parts, d) = {g}
  BY <1>13, <1>14 DEF ShellsOf
<1> QED BY <1>1, <1>5, <1>6, <1>7, <1>15 DEF AllAround, HoleAround

-----------------------------------------------------------------------------
(* The same seen down a column.                                            *)
Forwards(R, x, y) == {j \in y..(surface.height - 2) : Forward(x, j) \in R}

Backwards(R, x, y) == {j \in y..(surface.height - 2) : Backward(x, j) \in R}

LEMMA PassedAreFinite ==
  ASSUME ContourIsOfTheStep, NEW R, NEW x, NEW y \in Nat
  PROVE  /\ IsFiniteSet(Forwards(R, x, y)) /\ Cardinality(Forwards(R, x, y)) \in Nat
         /\ IsFiniteSet(Backwards(R, x, y)) /\ Cardinality(Backwards(R, x, y)) \in Nat
<1>1. PICK b \in Int : b = surface.height - 2
  BY DEF ContourIsOfTheStep
<1>2. IsFiniteSet(y..b)
  BY FS_Interval
<1>3. Forwards(R, x, y) \in SUBSET (y..b) /\ Backwards(R, x, y) \in SUBSET (y..b)
  BY <1>1 DEF Forwards, Backwards
<1> QED BY <1>2, <1>3, FS_Subset, FS_CardinalityType

LEMMA StepInColumn ==
  ASSUME ContourIsOfTheStep, NEW R, R \subseteq Crossings,
         NEW x \in 0..(surface.width - 1), NEW y \in 0..(surface.height - 2)
  PROVE  Cardinality(Forwards(R, x, y)) - Cardinality(Backwards(R, x, y))
           = Cardinality(Forwards(R, x, y + 1)) - Cardinality(Backwards(R, x, y + 1)) + Along(R, x, y)
<1>1. y \in Nat /\ y + 1 \in Nat /\ surface.height \in Nat
  BY DEF ContourIsOfTheStep
<1>2. /\ IsFiniteSet(Forwards(R, x, y + 1)) /\ Cardinality(Forwards(R, x, y + 1)) \in Nat
      /\ IsFiniteSet(Backwards(R, x, y + 1)) /\ Cardinality(Backwards(R, x, y + 1)) \in Nat
  BY <1>1, PassedAreFinite
<1>3. y \notin Forwards(R, x, y + 1) /\ y \notin Backwards(R, x, y + 1)
  BY <1>1 DEF Forwards, Backwards
<1>4. y..(surface.height - 2) = ((y + 1)..(surface.height - 2)) \cup {y}
  BY <1>1
<1>5. /\ Forwards(R, x, y) = IF Forward(x, y) \in R THEN Forwards(R, x, y + 1) \cup {y} ELSE Forwards(R, x, y + 1)
      /\ Backwards(R, x, y) = IF Backward(x, y) \in R THEN Backwards(R, x, y + 1) \cup {y} ELSE Backwards(R, x, y + 1)
  BY <1>4 DEF Forwards, Backwards
<1>6. /\ Cardinality(Forwards(R, x, y + 1) \cup {y}) = Cardinality(Forwards(R, x, y + 1)) + 1
      /\ Cardinality(Backwards(R, x, y + 1) \cup {y}) = Cardinality(Backwards(R, x, y + 1)) + 1
  BY <1>2, <1>3, FS_AddElement
<1>7. ~(Forward(x, y) \in R /\ Backward(x, y) \in R)
  BY CrossingsAlong
<1> QED BY <1>2, <1>5, <1>6, <1>7 DEF Along

LEMMA WindingAlong ==
  ASSUME ContourIsOfTheStep, NEW R, IsClosed(R), NEW x, NEW y, InGrid(x, y)
  PROVE  Cardinality(Forwards(R, x, y)) - Cardinality(Backwards(R, x, y)) = Winding(R, x, y)
<1>1. /\ surface.width \in Nat /\ surface.height \in Nat /\ R \subseteq Crossings
      /\ x \in 0..(surface.width - 1) /\ y \in 0..(surface.height - 1)
  BY DEF ContourIsOfTheStep, IsClosed, InGrid
<1>2. PICK n \in Nat : n = surface.height - 1
  BY <1>1
<1>3. PICK Good : Good = {j \in 0..n : Cardinality(Forwards(R, x, j)) - Cardinality(Backwards(R, x, j))
                                         = Winding(R, x, j)}
  OBVIOUS
<1>4. n \in Good
  <2>1. Forwards(R, x, n) = {} /\ Backwards(R, x, n) = {}
    BY <1>1, <1>2 DEF Forwards, Backwards
  <2>2. Cardinality({}) = 0
    BY FS_EmptySet
  <2>3. Winding(R, x, n) = 0
    BY <1>1, <1>2, WindingAtTheEnd DEF InGrid
  <2> QED BY <1>3, <2>1, <2>2, <2>3
<1>5. ASSUME NEW j \in 0..n, j < n, j + 1 \in Good PROVE j \in Good
  <2>1. j \in 0..(surface.height - 2)
    BY <1>1, <1>2, <1>5
  <2>2. Winding(R, x, j) = Winding(R, x, j + 1) + Along(R, x, j)
    BY <1>1, <2>1, StepAlong
  <2>3. Cardinality(Forwards(R, x, j)) - Cardinality(Backwards(R, x, j))
          = Cardinality(Forwards(R, x, j + 1)) - Cardinality(Backwards(R, x, j + 1)) + Along(R, x, j)
    BY <1>1, <2>1, StepInColumn
  <2>4. Cardinality(Forwards(R, x, j + 1)) - Cardinality(Backwards(R, x, j + 1)) = Winding(R, x, j + 1)
    BY <1>3, <1>5
  <2> QED BY <1>3, <2>2, <2>3, <2>4
<1>6. \A j \in 0..n : j \in Good
  BY <1>4, <1>5, FromTheRight
<1> QED BY <1>1, <1>2, <1>3, <1>6

-----------------------------------------------------------------------------
(* What is counted in groups, in each of which there are as many of one    *)
(* kind as of the other, or one more.                                      *)
Surplus(s, P, N) == {g \in s : Cardinality(P[g]) = Cardinality(N[g]) + 1}

LEMMA InGroups ==
  ASSUME NEW S, IsFiniteSet(S), NEW P, NEW N,
         \A g \in S : IsFiniteSet(P[g]) /\ IsFiniteSet(N[g]),
         \A g, h \in S : g # h => P[g] \cap P[h] = {} /\ N[g] \cap N[h] = {},
         \A g \in S : Cardinality(P[g]) \in {Cardinality(N[g]), Cardinality(N[g]) + 1}
  PROVE  /\ IsFiniteSet(AllParts(S, P)) /\ IsFiniteSet(AllParts(S, N)) /\ IsFiniteSet(Surplus(S, P, N))
         /\ Cardinality(AllParts(S, P)) = Cardinality(AllParts(S, N)) + Cardinality(Surplus(S, P, N))
<1> DEFINE Claim(s) ==
             /\ IsFiniteSet(AllParts(s, P)) /\ IsFiniteSet(AllParts(s, N)) /\ IsFiniteSet(Surplus(s, P, N))
             /\ Cardinality(AllParts(s, P)) = Cardinality(AllParts(s, N)) + Cardinality(Surplus(s, P, N))
           Good == {s \in SUBSET S : Claim(s)}
<1>0. \A A, B : IsFiniteSet(A) /\ IsFiniteSet(B) /\ A \cap B = {} =>
        IsFiniteSet(A \cup B) /\ Cardinality(A \cup B) = Cardinality(A) + Cardinality(B)
  <2>1. ASSUME NEW A, NEW B, IsFiniteSet(A), IsFiniteSet(B), A \cap B = {}
        PROVE  IsFiniteSet(A \cup B) /\ Cardinality(A \cup B) = Cardinality(A) + Cardinality(B)
    <3>1. IsFiniteSet(A \cup B) /\ Cardinality(A \cup B) = Cardinality(A) + Cardinality(B) - Cardinality(A \cap B)
      BY <2>1, FS_Union
    <3>2. Cardinality(A \cap B) = 0 /\ Cardinality(A) \in Nat /\ Cardinality(B) \in Nat
      BY <2>1, FS_EmptySet, FS_CardinalityType
    <3> QED BY <3>1, <3>2
  <2> QED BY <2>1
<1>1. ASSUME NEW s \in SUBSET S, \A t \in SUBSET s : t # s => t \in Good PROVE s \in Good
  <2>1. CASE s = {}
    <3>1. AllParts(s, P) = {} /\ AllParts(s, N) = {} /\ Surplus(s, P, N) = {}
      BY <2>1 DEF AllParts, Surplus
    <3>2. IsFiniteSet({}) /\ Cardinality({}) = 0
      BY FS_EmptySet
    <3>3. Claim(s)
      BY <3>1, <3>2
    <3> QED BY <3>3
  <2>2. CASE s # {}
    <3>1. PICK g \in s : TRUE
      BY <2>2
    <3>2. PICK t : t = s \ {g}
      OBVIOUS
    <3>3. t \in Good
      BY <1>1, <3>1, <3>2
    <3>4. PICK p, n, u : p = AllParts(t, P) /\ n = AllParts(t, N) /\ u = Surplus(t, P, N)
      OBVIOUS
    <3>5. /\ IsFiniteSet(p) /\ IsFiniteSet(n) /\ IsFiniteSet(u)
          /\ Cardinality(p) = Cardinality(n) + Cardinality(u)
      BY <3>3, <3>4
    <3>6. PICK a, b : a = P[g] /\ b = N[g]
      OBVIOUS
    <3>7. /\ IsFiniteSet(a) /\ IsFiniteSet(b) /\ Cardinality(a) \in {Cardinality(b), Cardinality(b) + 1}
      BY <3>1, <3>6
    <3>8. /\ AllParts(s, P) = a \cup p /\ a \cap p = {}
          /\ AllParts(s, N) = b \cup n /\ b \cap n = {}
      <4>1. \A h \in t : h \in S /\ h # g
        BY <3>2
      <4>2. g \in S
        BY <3>1
      <4>3. \A h \in t : a \cap P[h] = {} /\ b \cap N[h] = {}
        BY <3>6, <4>1, <4>2
      <4>4. AllParts(s, P) = a \cup p /\ AllParts(s, N) = b \cup n
        BY <3>1, <3>2, <3>4, <3>6 DEF AllParts
      <4>5. a \cap p = {} /\ b \cap n = {}
        BY <3>4, <4>3 DEF AllParts
      <4> QED BY <4>4, <4>5
    <3>9. /\ IsFiniteSet(a \cup p) /\ Cardinality(a \cup p) = Cardinality(a) + Cardinality(p)
          /\ IsFiniteSet(b \cup n) /\ Cardinality(b \cup n) = Cardinality(b) + Cardinality(n)
      BY <1>0, <3>5, <3>7, <3>8
    <3>10. g \notin u /\ Surplus(s, P, N) = IF Cardinality(a) = Cardinality(b) + 1 THEN u \cup {g} ELSE u
      BY <3>1, <3>2, <3>4, <3>6 DEF Surplus
    <3>11. IsFiniteSet(u \cup {g}) /\ Cardinality(u \cup {g}) = Cardinality(u) + 1
      BY <3>5, <3>10, FS_AddElement
    <3>12. /\ Cardinality(a) \in Nat /\ Cardinality(b) \in Nat /\ Cardinality(p) \in Nat
           /\ Cardinality(n) \in Nat /\ Cardinality(u) \in Nat
      BY <3>5, <3>7, FS_CardinalityType
    <3>13. Claim(s)
      BY ONLY <3>5, <3>7, <3>8, <3>9, <3>10, <3>11, <3>12
    <3> QED BY <3>13
  <2> QED BY <2>1, <2>2
<1> HIDE DEF Good, Claim
<1>2. \A s \in SUBSET S : s \in Good
  BY <1>1, BySmaller
<1> QED BY <1>2 DEF Good, Claim

-----------------------------------------------------------------------------
(* How a line turns: what followLoop adds to its direction.                *)
Levels == (0..(surface.width - 1)) \X (1..(surface.height - 2))

Rising(R) == [g \in Levels |-> {<<g, j>> : j \in Forwards(R, g[1], g[2])}]

Falling(R) == [g \in Levels |-> {<<g, j>> : j \in Backwards(R, g[1], g[2])}]

Turn(R) == 2 * (Cardinality(AllParts(Levels, Rising(R))) - Cardinality(AllParts(Levels, Falling(R))))

LEMMA LevelsAre ==
  ASSUME ContourIsOfTheStep
  PROVE  /\ IsFiniteSet(Levels)
         /\ \A g \in Levels : g = <<g[1], g[2]>> /\ InGrid(g[1], g[2]) /\ g[2] \in Nat
<1>1. PICK a, b, l \in Int : a = surface.width - 1 /\ b = surface.height - 2 /\ l = 1
  BY DEF ContourIsOfTheStep
<1>2. PICK z \in Int : z = 0
  OBVIOUS
<1>3. IsFiniteSet(z..a) /\ IsFiniteSet(l..b)
  BY FS_Interval
<1>4. IsFiniteSet((z..a) \X (l..b))
  BY <1>3, FS_Product
<1>5. IsFiniteSet(Levels)
  BY <1>1, <1>2, <1>4 DEF Levels
<1>6. \A g \in Levels : g = <<g[1], g[2]>> /\ InGrid(g[1], g[2]) /\ g[2] \in Nat
  BY DEF Levels, InGrid, ContourIsOfTheStep
<1> QED BY <1>5, <1>6

LEMMA GroupsAre ==
  ASSUME ContourIsOfTheStep, NEW R
  PROVE  /\ \A g \in Levels : /\ IsFiniteSet(Rising(R)[g]) /\ IsFiniteSet(Falling(R)[g])
                              /\ Cardinality(Rising(R)[g]) = Cardinality(Forwards(R, g[1], g[2]))
                              /\ Cardinality(Falling(R)[g]) = Cardinality(Backwards(R, g[1], g[2]))
         /\ \A g, h \in Levels : g # h => /\ Rising(R)[g] \cap Rising(R)[h] = {}
                                          /\ Falling(R)[g] \cap Falling(R)[h] = {}
<1>1. ASSUME NEW g \in Levels
      PROVE  /\ IsFiniteSet(Rising(R)[g]) /\ IsFiniteSet(Falling(R)[g])
             /\ Cardinality(Rising(R)[g]) = Cardinality(Forwards(R, g[1], g[2]))
             /\ Cardinality(Falling(R)[g]) = Cardinality(Backwards(R, g[1], g[2]))
  <2>1. PICK A, B : A = Forwards(R, g[1], g[2]) /\ B = Backwards(R, g[1], g[2])
    OBVIOUS
  <2>2. IsFiniteSet(A) /\ IsFiniteSet(B)
    BY <2>1, LevelsAre, PassedAreFinite
  <2>3. PICK f : f = [j \in A \cup B |-> <<g, j>>]
    OBVIOUS
  <2>4. /\ \A i, j \in A : f[i] = f[j] => i = j
        /\ \A i, j \in B : f[i] = f[j] => i = j
    BY <2>3
  <2>5. /\ IsFiniteSet({f[j] : j \in A}) /\ Cardinality({f[j] : j \in A}) = Cardinality(A)
        /\ IsFiniteSet({f[j] : j \in B}) /\ Cardinality({f[j] : j \in B}) = Cardinality(B)
    BY <2>2, <2>4, AsMany
  <2>6. Rising(R)[g] = {f[j] : j \in A} /\ Falling(R)[g] = {f[j] : j \in B}
    BY <2>1, <2>3 DEF Rising, Falling
  <2> QED BY <2>1, <2>5, <2>6
<1>2. ASSUME NEW g \in Levels, NEW h \in Levels, g # h
      PROVE  Rising(R)[g] \cap Rising(R)[h] = {} /\ Falling(R)[g] \cap Falling(R)[h] = {}
  BY <1>2 DEF Rising, Falling
<1> QED BY <1>1, <1>2

(* It turns left around what it has on its left.                           *)
LEMMA LeftIsPositive ==
  ASSUME ContourIsOfTheStep, NEW R, IsLoop(R), WindsLeft(R)
  PROVE  Turn(R) > 0
<1>1. IsClosed(R) /\ R # {} /\ R \subseteq Crossings
  BY LoopIs
<1>2. PICK P, N : P = Rising(R) /\ N = Falling(R)
  OBVIOUS
<1>3. /\ \A g \in Levels : /\ IsFiniteSet(P[g]) /\ IsFiniteSet(N[g])
                           /\ Cardinality(P[g]) = Cardinality(Forwards(R, g[1], g[2]))
                           /\ Cardinality(N[g]) = Cardinality(Backwards(R, g[1], g[2]))
      /\ \A g, h \in Levels : g # h => P[g] \cap P[h] = {} /\ N[g] \cap N[h] = {}
  BY <1>2, GroupsAre
<1>4. \A g \in Levels : /\ Cardinality(P[g]) - Cardinality(N[g]) = Winding(R, g[1], g[2])
                        /\ Cardinality(P[g]) \in Nat /\ Cardinality(N[g]) \in Nat
                        /\ Winding(R, g[1], g[2]) \in {0, 1}
  BY <1>1, <1>3, LevelsAre, WindingAlong, FS_CardinalityType DEF WindsLeft
<1>5. \A g \in Levels : Cardinality(P[g]) \in {Cardinality(N[g]), Cardinality(N[g]) + 1}
  BY <1>4
<1>6. /\ IsFiniteSet(AllParts(Levels, P)) /\ IsFiniteSet(AllParts(Levels, N)) /\ IsFiniteSet(Surplus(Levels, P, N))
      /\ Cardinality(AllParts(Levels, P)) = Cardinality(AllParts(Levels, N)) + Cardinality(Surplus(Levels, P, N))
  BY <1>3, <1>5, LevelsAre, InGroups
<1>7. PICK e \in R : TRUE
  BY <1>1
<1>8. PICK x, y : InnerSide(e) = <<x, y>> /\ InGrid(x, y) /\ IsReached(x, y) /\ Winding(R, x, y) = 1
  <2>1. IsPixel(InnerSide(e)) /\ IsReached(InnerSide(e)[1], InnerSide(e)[2])
    BY <1>1, SidesDiffer
  <2>2. WindingAt(R, InnerSide(e)) = 1
    BY DEF WindsLeft
  <2> QED BY <2>1, <2>2 DEF IsPixel, WindingAt
<1>9. y \notin {0, surface.height - 1}
  BY <1>8, BorderIsNot
<1>10. <<x, y>> \in Levels
  BY <1>8, <1>9 DEF Levels, InGrid, ContourIsOfTheStep
<1>11. <<x, y>> \in Surplus(Levels, P, N)
  BY <1>4, <1>8, <1>10 DEF Surplus
<1>12. Cardinality(Surplus(Levels, P, N)) \in Nat /\ Cardinality(Surplus(Levels, P, N)) # 0
  BY <1>6, <1>11, FS_CardinalityType, FS_EmptySet
<1>13. Cardinality(AllParts(Levels, P)) \in Nat /\ Cardinality(AllParts(Levels, N)) \in Nat
  BY <1>6, FS_CardinalityType
<1>14. Turn(R) = 2 * (Cardinality(AllParts(Levels, P)) - Cardinality(AllParts(Levels, N)))
  BY <1>2 DEF Turn
<1> QED BY ONLY <1>6, <1>12, <1>13, <1>14

LEMMA RightIsNot ==
  ASSUME ContourIsOfTheStep, NEW R, IsLoop(R), WindsRight(R)
  PROVE  Turn(R) <= 0
<1>1. IsClosed(R) /\ R # {} /\ R \subseteq Crossings
  BY LoopIs
<1>2. PICK P, N : P = Rising(R) /\ N = Falling(R)
  OBVIOUS
<1>3. /\ \A g \in Levels : /\ IsFiniteSet(N[g]) /\ IsFiniteSet(P[g])
                           /\ Cardinality(P[g]) = Cardinality(Forwards(R, g[1], g[2]))
                           /\ Cardinality(N[g]) = Cardinality(Backwards(R, g[1], g[2]))
      /\ \A g, h \in Levels : g # h => N[g] \cap N[h] = {} /\ P[g] \cap P[h] = {}
  BY <1>2, GroupsAre
<1>4. \A g \in Levels : /\ Cardinality(P[g]) - Cardinality(N[g]) = Winding(R, g[1], g[2])
                        /\ Cardinality(P[g]) \in Nat /\ Cardinality(N[g]) \in Nat
                        /\ Winding(R, g[1], g[2]) \in {-1, 0}
  BY <1>1, <1>3, LevelsAre, WindingAlong, FS_CardinalityType DEF WindsRight
<1>5. \A g \in Levels : Cardinality(N[g]) \in {Cardinality(P[g]), Cardinality(P[g]) + 1}
  BY <1>4
<1>6. /\ IsFiniteSet(AllParts(Levels, P)) /\ IsFiniteSet(AllParts(Levels, N)) /\ IsFiniteSet(Surplus(Levels, N, P))
      /\ Cardinality(AllParts(Levels, N)) = Cardinality(AllParts(Levels, P)) + Cardinality(Surplus(Levels, N, P))
  BY <1>3, <1>5, LevelsAre, InGroups
<1>12. Cardinality(Surplus(Levels, N, P)) \in Nat
  BY <1>6, FS_CardinalityType
<1>13. Cardinality(AllParts(Levels, P)) \in Nat /\ Cardinality(AllParts(Levels, N)) \in Nat
  BY <1>6, FS_CardinalityType
<1>14. Turn(R) = 2 * (Cardinality(AllParts(Levels, P)) - Cardinality(AllParts(Levels, N)))
  BY <1>2 DEF Turn
<1> QED BY ONLY <1>6, <1>12, <1>13, <1>14

-----------------------------------------------------------------------------
(* A step of a line turns it by as much. *)
TurnOf(e) == (e[2][1] - e[1][1]) * (e[2][2] + e[1][2])

LEMMA LevelsAreFinite ==
  ASSUME ContourIsOfTheStep, NEW R
  PROVE  /\ IsFiniteSet(AllParts(Levels, Rising(R))) /\ Cardinality(AllParts(Levels, Rising(R))) \in Nat
         /\ IsFiniteSet(AllParts(Levels, Falling(R))) /\ Cardinality(AllParts(Levels, Falling(R))) \in Nat
<1>1. PICK b, z \in Int : b = surface.height - 2 /\ z = 0
  BY DEF ContourIsOfTheStep
<1>2. IsFiniteSet(z..b) /\ IsFiniteSet(Levels)
  BY FS_Interval, LevelsAre
<1>3. IsFiniteSet(Levels \X (z..b))
  BY <1>2, FS_Product
<1>4. /\ AllParts(Levels, Rising(R)) \in SUBSET (Levels \X (z..b))
      /\ AllParts(Levels, Falling(R)) \in SUBSET (Levels \X (z..b))
  <2>1. ASSUME NEW g \in Levels PROVE g[2] \in Nat
    BY <2>1, LevelsAre
  <2>2. ASSUME NEW g \in Levels, NEW j \in (g[2])..(surface.height - 2) PROVE <<g, j>> \in Levels \X (z..b)
    BY <1>1, <2>1, <2>2
  <2> QED BY <2>2 DEF AllParts, Rising, Falling, Forwards, Backwards
<1> QED BY <1>3, <1>4, FS_Subset, FS_CardinalityType

LEMMA TurnOfNone == ASSUME ContourIsOfTheStep PROVE Turn({}) = 0
<1>1. AllParts(Levels, Rising({})) = {} /\ AllParts(Levels, Falling({})) = {}
  BY DEF AllParts, Rising, Falling, Forwards, Backwards
<1>2. Cardinality({}) = 0
  BY FS_EmptySet
<1> QED BY <1>1, <1>2 DEF Turn

(* The levels a crossing at some height is at or above. *)
Under(x, y) == {<<<<x, m>>, y>> : m \in 1..y}

LEMMA UnderAreAsMany ==
  ASSUME NEW x, NEW y \in Nat
  PROVE  IsFiniteSet(Under(x, y)) /\ Cardinality(Under(x, y)) = y
<1>1. PICK l \in Int : l = 1
  OBVIOUS
<1>2. IsFiniteSet(l..y) /\ Cardinality(l..y) = IF l > y THEN 0 ELSE y - l + 1
  BY FS_Interval
<1>3. IsFiniteSet(1..y) /\ Cardinality(1..y) = y
  BY <1>1, <1>2
<1>4. PICK f : f = [m \in 1..y |-> <<<<x, m>>, y>>]
  OBVIOUS
<1>5. \A m, n \in 1..y : f[m] = f[n] => m = n
  BY <1>4
<1>6. IsFiniteSet({f[m] : m \in 1..y}) /\ Cardinality({f[m] : m \in 1..y}) = Cardinality(1..y)
  BY <1>3, <1>5, AsMany
<1>7. Under(x, y) = {f[m] : m \in 1..y}
  BY <1>4 DEF Under
<1> QED BY <1>3, <1>6, <1>7

LEMMA TurnOfStep ==
  ASSUME ContourIsOfTheStep, NEW R, R \subseteq Crossings, NEW e \in Crossings, e \notin R
  PROVE  Turn(R) \in Int /\ Turn(R \cup {e}) = Turn(R) + TurnOf(e)
<1>0. surface.width \in Nat /\ surface.height \in Nat
  BY DEF ContourIsOfTheStep
<1>1. PICK x, y \in Nat : IsAcross(e, x, y) \/ IsAlong(e, x, y)
  BY KindsOfCrossings
<1>2. PICK Q, p, n, s, t :
        /\ Q = R \cup {e}
        /\ p = AllParts(Levels, Rising(R)) /\ n = AllParts(Levels, Falling(R))
        /\ s = AllParts(Levels, Rising(Q)) /\ t = AllParts(Levels, Falling(Q))
  OBVIOUS
<1>3. /\ IsFiniteSet(p) /\ Cardinality(p) \in Nat /\ IsFiniteSet(n) /\ Cardinality(n) \in Nat
  BY <1>2, LevelsAreFinite
<1>4. Turn(R) = 2 * (Cardinality(p) - Cardinality(n)) /\ Turn(Q) = 2 * (Cardinality(s) - Cardinality(t))
  BY <1>2 DEF Turn
<1>5. /\ \A A, h : h \in AllParts(Levels, Rising(A)) <=>
           \E g \in Levels : \E j \in (g[2])..(surface.height - 2) : h = <<g, j>> /\ Forward(g[1], j) \in A
      /\ \A A, h : h \in AllParts(Levels, Falling(A)) <=>
           \E g \in Levels : \E j \in (g[2])..(surface.height - 2) : h = <<g, j>> /\ Backward(g[1], j) \in A
  BY DEF AllParts, Rising, Falling, Forwards, Backwards
<1>13. /\ \A h : h \in p <=> \E g \in Levels : \E j \in (g[2])..(surface.height - 2) : h = <<g, j>> /\ Forward(g[1], j) \in R
       /\ \A h : h \in s <=> \E g \in Levels : \E j \in (g[2])..(surface.height - 2) : h = <<g, j>> /\ Forward(g[1], j) \in Q
  BY <1>2, <1>5
<1>14. /\ \A h : h \in n <=> \E g \in Levels : \E j \in (g[2])..(surface.height - 2) : h = <<g, j>> /\ Backward(g[1], j) \in R
       /\ \A h : h \in t <=> \E g \in Levels : \E j \in (g[2])..(surface.height - 2) : h = <<g, j>> /\ Backward(g[1], j) \in Q
  BY <1>2, <1>5
<1>15. (\A g \in Levels : \A j \in (g[2])..(surface.height - 2) : Forward(g[1], j) # e) => s = p
  <2>1. ASSUME \A g \in Levels : \A j \in (g[2])..(surface.height - 2) : Forward(g[1], j) # e PROVE s = p
    <3>1. \A g \in Levels : \A j \in (g[2])..(surface.height - 2) : Forward(g[1], j) \in Q <=> Forward(g[1], j) \in R
      BY <1>2, <2>1
    <3>2. \A h : h \in s <=> h \in p
      BY ONLY <1>13, <3>1
    <3> QED BY <3>2
  <2> QED BY <2>1
<1>16. (\A g \in Levels : \A j \in (g[2])..(surface.height - 2) : Backward(g[1], j) # e) => t = n
  <2>1. ASSUME \A g \in Levels : \A j \in (g[2])..(surface.height - 2) : Backward(g[1], j) # e PROVE t = n
    <3>1. \A g \in Levels : \A j \in (g[2])..(surface.height - 2) : Backward(g[1], j) \in Q <=> Backward(g[1], j) \in R
      BY <1>2, <2>1
    <3>2. \A h : h \in t <=> h \in n
      BY ONLY <1>14, <3>1
    <3> QED BY <3>2
  <2> QED BY <2>1
<1>6. CASE IsAcross(e, x, y)
  <2>1. /\ e \in {<<<<x, y>>, <<x, y - 1>>>>, <<<<x, y - 1>>, <<x, y>>>>}
        /\ \A a, b : Forward(a, b) # e /\ Backward(a, b) # e
    BY <1>1, <1>6 DEF IsAcross, Downward, Upward, Forward, Backward
  <2>2. s = p /\ t = n
    BY <2>1, <1>15, <1>16
  <2>3. TurnOf(e) = 0
    BY <1>1, <2>1 DEF TurnOf
  <2> QED BY <1>2, <1>3, <1>4, <2>2, <2>3
<1>7. ASSUME IsAlong(e, x, y), NEW g \in Levels, NEW j \in (g[2])..(surface.height - 2)
      PROVE  /\ e = Forward(x, y) => (Forward(g[1], j) = e <=> g[1] = x /\ j = y) /\ Backward(g[1], j) # e
             /\ e = Backward(x, y) => (Backward(g[1], j) = e <=> g[1] = x /\ j = y) /\ Forward(g[1], j) # e
  <2>1. g[1] \in Nat
    BY <1>0 DEF Levels
  <2> QED BY <1>1, <2>1 DEF Forward, Backward
<1>8. ASSUME IsAlong(e, x, y)
      PROVE  /\ \A g \in Levels : \A j \in (g[2])..(surface.height - 2) :
                  g[1] = x /\ j = y => <<g, j>> \in Under(x, y)
             /\ \A h \in Under(x, y) : \E g \in Levels : \E j \in (g[2])..(surface.height - 2) :
                  h = <<g, j>> /\ g[1] = x /\ j = y
  <2>1. \A g \in Levels : g = <<g[1], g[2]>> /\ g[1] \in 0..(surface.width - 1) /\ g[2] \in 1..(surface.height - 2)
    BY DEF Levels
  <2>2. ASSUME NEW g \in Levels, NEW j \in (g[2])..(surface.height - 2), g[1] = x, j = y
        PROVE  <<g, j>> \in Under(x, y)
    <3>1. g = <<x, g[2]>> /\ g[2] \in 1..y
      BY <1>1, <2>1, <2>2
    <3> QED BY <2>2, <3>1 DEF Under
  <2>3. ASSUME NEW h \in Under(x, y)
        PROVE  \E g \in Levels : \E j \in (g[2])..(surface.height - 2) : h = <<g, j>> /\ g[1] = x /\ j = y
    <3>1. PICK m \in 1..y : h = <<<<x, m>>, y>>
      BY DEF Under
    <3>2. x \in 0..(surface.width - 1) /\ y \in 0..(surface.height - 2)
      BY <1>0, <1>8 DEF IsAlong
    <3>3. <<x, m>> \in Levels
      BY <1>0, <1>1, <3>2 DEF Levels
    <3>4. y \in (<<x, m>>[2])..(surface.height - 2)
      BY <1>0, <1>1, <3>2
    <3> QED BY <3>1, <3>3, <3>4
  <2> QED BY <2>2, <2>3
<1>9. IsFiniteSet(Under(x, y)) /\ Cardinality(Under(x, y)) = y
  BY <1>1, UnderAreAsMany
<1>10. \A A : IsFiniteSet(A) /\ A \cap Under(x, y) = {} => Cardinality(A \cup Under(x, y)) = Cardinality(A) + y
  <2>1. ASSUME NEW A, IsFiniteSet(A), A \cap Under(x, y) = {}
        PROVE  Cardinality(A \cup Under(x, y)) = Cardinality(A) + y
    <3>1. Cardinality(A \cup Under(x, y)) = Cardinality(A) + y - Cardinality(A \cap Under(x, y))
      BY <1>9, <2>1, FS_Union
    <3>2. Cardinality(A \cap Under(x, y)) = 0 /\ Cardinality(A) \in Nat
      BY <2>1, FS_EmptySet, FS_CardinalityType
    <3> QED BY <1>1, <3>1, <3>2
  <2> QED BY <2>1
<1>11. CASE IsAlong(e, x, y) /\ e = Forward(x, y)
  <2>1. \A g \in Levels : \A j \in (g[2])..(surface.height - 2) :
          (Forward(g[1], j) = e <=> g[1] = x /\ j = y) /\ Backward(g[1], j) # e
    BY <1>7, <1>11
  <2>2. t = n
    BY <2>1, <1>16
  <2>3. s = p \cup Under(x, y) /\ p \cap Under(x, y) = {}
    BY <1>2, <1>5, <1>8, <1>11, <2>1
  <2>4. TurnOf(e) = 2 * y
    <3>1. e[2][1] = x /\ e[1][1] = x - 1 /\ e[2][2] = y /\ e[1][2] = y
      BY <1>11 DEF Forward
    <3> QED BY <1>1, <3>1 DEF TurnOf
  <2>5. Cardinality(s) = Cardinality(p) + y
    BY <1>3, <1>10, <2>3
  <2> QED BY <1>1, <1>2, <1>3, <1>4, <2>2, <2>4, <2>5
<1>12. CASE IsAlong(e, x, y) /\ e = Backward(x, y)
  <2>1. \A g \in Levels : \A j \in (g[2])..(surface.height - 2) :
          (Backward(g[1], j) = e <=> g[1] = x /\ j = y) /\ Forward(g[1], j) # e
    BY <1>7, <1>12
  <2>2. s = p
    BY <2>1, <1>15
  <2>3. t = n \cup Under(x, y) /\ n \cap Under(x, y) = {}
    BY <1>2, <1>5, <1>8, <1>12, <2>1
  <2>4. TurnOf(e) = -(2 * y)
    <3>1. e[2][1] = x - 1 /\ e[1][1] = x /\ e[2][2] = y /\ e[1][2] = y
      BY <1>12 DEF Backward
    <3> QED BY <1>1, <3>1 DEF TurnOf
  <2>5. Cardinality(t) = Cardinality(n) + y
    BY <1>3, <1>10, <2>3
  <2> QED BY <1>1, <1>2, <1>3, <1>4, <2>2, <2>4, <2>5
<1> QED BY <1>1, <1>6, <1>11, <1>12 DEF IsAlong

-----------------------------------------------------------------------------
(* The point a line passes at a crossing. *)
Mid(e) == noInterpolate(e[2], e[1])

LEMMA MiddlesAre ==
  ASSUME NEW x \in Int, NEW y \in Int
  PROVE  /\ Mid(Downward(x, y)) = <<2 * x + 1, 2 * y>> /\ Mid(Upward(x, y)) = <<2 * x + 1, 2 * y>>
         /\ Mid(Forward(x, y)) = <<2 * x, 2 * y + 1>> /\ Mid(Backward(x, y)) = <<2 * x, 2 * y + 1>>
<1>1. /\ Downward(x, y) = <<<<x, y>>, <<x, y - 1>>>> /\ Upward(x, y) = <<<<x, y - 1>>, <<x, y>>>>
      /\ Forward(x, y) = <<<<x - 1, y>>, <<x, y>>>> /\ Backward(x, y) = <<<<x, y>>, <<x - 1, y>>>>
  BY DEF Downward, Upward, Forward, Backward
<1>2. /\ noInterpolate(<<x, y - 1>>, <<x, y>>) = <<2 * x + 1, 2 * y>>
      /\ noInterpolate(<<x, y>>, <<x, y - 1>>) = <<2 * x + 1, 2 * y>>
      /\ noInterpolate(<<x, y>>, <<x - 1, y>>) = <<2 * x, 2 * y + 1>>
      /\ noInterpolate(<<x - 1, y>>, <<x, y>>) = <<2 * x, 2 * y + 1>>
  BY DEF noInterpolate
<1> QED BY <1>1, <1>2 DEF Mid

(* No two crossings pass the same point. *)
LEMMA MiddlesDiffer ==
  ASSUME ContourIsOfTheStep, NEW e \in Crossings, NEW f \in Crossings, Mid(e) = Mid(f)
  PROVE  e = f
<1>1. PICK x, y \in Nat : IsAcross(e, x, y) \/ IsAlong(e, x, y)
  BY KindsOfCrossings
<1>2. PICK a, b \in Nat : IsAcross(f, a, b) \/ IsAlong(f, a, b)
  BY KindsOfCrossings
<1>3. /\ IsAcross(e, x, y) => Mid(e) = <<2 * x + 1, 2 * y>>
      /\ IsAlong(e, x, y) => Mid(e) = <<2 * x, 2 * y + 1>>
      /\ IsAcross(f, a, b) => Mid(f) = <<2 * a + 1, 2 * b>>
      /\ IsAlong(f, a, b) => Mid(f) = <<2 * a, 2 * b + 1>>
  <2>1. x \in Int /\ y \in Int /\ a \in Int /\ b \in Int
    OBVIOUS
  <2>2. /\ IsAcross(e, x, y) => e \in {Downward(x, y), Upward(x, y)}
        /\ IsAlong(e, x, y) => e \in {Forward(x, y), Backward(x, y)}
        /\ IsAcross(f, a, b) => f \in {Downward(a, b), Upward(a, b)}
        /\ IsAlong(f, a, b) => f \in {Forward(a, b), Backward(a, b)}
    BY DEF IsAcross, IsAlong
  <2> QED BY <2>1, <2>2, MiddlesAre
<1>4. x = a /\ y = b /\ ((IsAcross(e, x, y) /\ IsAcross(f, a, b)) \/ (IsAlong(e, x, y) /\ IsAlong(f, a, b)))
  <2>1. CASE IsAcross(e, x, y) /\ IsAcross(f, a, b)
    BY <1>3, <2>1
  <2>2. CASE IsAlong(e, x, y) /\ IsAlong(f, a, b)
    BY <1>3, <2>2
  <2>3. CASE IsAcross(e, x, y) /\ IsAlong(f, a, b)
    BY <1>3, <2>3
  <2>4. CASE IsAlong(e, x, y) /\ IsAcross(f, a, b)
    BY <1>3, <2>4
  <2> QED BY <1>1, <1>2, <2>1, <2>2, <2>3, <2>4
<1>5. CASE IsAcross(e, x, y) /\ IsAcross(f, a, b)
  <2>1. /\ x \in 0..(surface.width - 2) /\ y \in 0..(surface.height - 1)
        /\ e \in {Downward(x, y), Upward(x, y)} /\ f \in {Downward(x, y), Upward(x, y)}
    BY <1>4, <1>5 DEF IsAcross, ContourIsOfTheStep
  <2> QED BY <2>1, OneWayAcross
<1>6. CASE IsAlong(e, x, y) /\ IsAlong(f, a, b)
  <2>1. /\ x \in 0..(surface.width - 1) /\ y \in 0..(surface.height - 2)
        /\ e \in {Forward(x, y), Backward(x, y)} /\ f \in {Forward(x, y), Backward(x, y)}
    BY <1>1, <1>2, <1>4, <1>6 DEF IsAlong, ContourIsOfTheStep
  <2>2. ~(Forward(x, y) \in Crossings /\ Backward(x, y) \in Crossings)
    BY <2>1, CrossingsAlong
  <2> QED BY <2>1, <2>2
<1> QED BY <1>4, <1>5, <1>6

-----------------------------------------------------------------------------
(* Where a line through a cell crosses a row of pixels, or one of points   *)
(* between two.                                                            *)
CellPoints(x, y) == {<<2 * x + 1, 2 * y>>, <<2 * x + 1, 2 * y + 2>>, <<2 * x, 2 * y + 1>>, <<2 * x + 2, 2 * y + 1>>}

CrossesInRow(x, y, a, b, p, q) ==
  \A i \in {2 * a, 2 * a + 1} :
    Crosses(i, 2 * b, p, q) <=> <<2 * x + 1, 2 * y + 2>> \in {p, q} /\ b = y + 1 /\ a <= x

LEMMA RowIsCrossed ==
  ASSUME NEW x \in Int, NEW y \in Int, NEW a \in Int, NEW b \in Int,
         NEW p \in CellPoints(x, y), NEW q \in CellPoints(x, y), p # q
  PROVE  CrossesInRow(x, y, a, b, p, q)
<1> SUFFICES ASSUME NEW i \in {2 * a, 2 * a + 1}
             PROVE  Crosses(i, 2 * b, p, q) <=> <<2 * x + 1, 2 * y + 2>> \in {p, q} /\ b = y + 1 /\ a <= x
  BY DEF CrossesInRow
<1> DEFINE t == <<2 * x + 1, 2 * y>>
           u == <<2 * x + 1, 2 * y + 2>>
           l == <<2 * x, 2 * y + 1>>
           r == <<2 * x + 2, 2 * y + 1>>
<1>1. Crosses(i, 2 * b, t, u) <=> b = y + 1 /\ a <= x
  BY DEF Crosses
<1>2. Crosses(i, 2 * b, u, t) <=> b = y + 1 /\ a <= x
  BY DEF Crosses
<1>3. Crosses(i, 2 * b, l, u) <=> b = y + 1 /\ a <= x
  BY DEF Crosses
<1>4. Crosses(i, 2 * b, u, l) <=> b = y + 1 /\ a <= x
  BY DEF Crosses
<1>5. Crosses(i, 2 * b, r, u) <=> b = y + 1 /\ a <= x
  BY DEF Crosses
<1>6. Crosses(i, 2 * b, u, r) <=> b = y + 1 /\ a <= x
  BY DEF Crosses
<1>7. /\ ~Crosses(i, 2 * b, t, l) /\ ~Crosses(i, 2 * b, l, t)
      /\ ~Crosses(i, 2 * b, t, r) /\ ~Crosses(i, 2 * b, r, t)
      /\ ~Crosses(i, 2 * b, l, r) /\ ~Crosses(i, 2 * b, r, l)
  BY DEF Crosses
<1>8. u \notin {t, l, r} /\ p \in {t, u, l, r} /\ q \in {t, u, l, r}
  BY DEF CellPoints
<1> HIDE DEF t, u, l, r
<1>9. Crosses(i, 2 * b, p, q) <=> u \in {p, q} /\ b = y + 1 /\ a <= x
  BY ONLY <1>1, <1>2, <1>3, <1>4, <1>5, <1>6, <1>7, <1>8, p # q
<1> QED BY <1>9 DEF u

LEMMA BetweenIsCrossed ==
  ASSUME NEW x \in Int, NEW y \in Int, NEW a \in Int, NEW b \in Int,
         NEW p \in CellPoints(x, y), NEW q \in CellPoints(x, y), p # q, <<2 * a, 2 * b + 1>> \notin {p, q}
  PROVE  Crosses(2 * a, 2 * b + 1, p, q) <=> <<2 * x + 1, 2 * y>> \in {p, q} /\ b = y /\ a <= x
<1> DEFINE t == <<2 * x + 1, 2 * y>>
           u == <<2 * x + 1, 2 * y + 2>>
           l == <<2 * x, 2 * y + 1>>
           r == <<2 * x + 2, 2 * y + 1>>
           m == <<2 * a, 2 * b + 1>>
<1>1. Crosses(2 * a, 2 * b + 1, t, u) <=> b = y /\ a <= x
  BY DEF Crosses
<1>2. Crosses(2 * a, 2 * b + 1, u, t) <=> b = y /\ a <= x
  BY DEF Crosses
<1>3. Crosses(2 * a, 2 * b + 1, l, t) <=> b = y /\ a <= x
  BY DEF Crosses
<1>4. Crosses(2 * a, 2 * b + 1, t, l) <=> b = y /\ a <= x
  BY DEF Crosses
<1>5. m # r => (Crosses(2 * a, 2 * b + 1, r, t) <=> b = y /\ a <= x)
  BY DEF Crosses
<1>6. m # r => (Crosses(2 * a, 2 * b + 1, t, r) <=> b = y /\ a <= x)
  BY DEF Crosses
<1>7. /\ ~Crosses(2 * a, 2 * b + 1, u, l) /\ ~Crosses(2 * a, 2 * b + 1, l, u)
      /\ ~Crosses(2 * a, 2 * b + 1, u, r) /\ ~Crosses(2 * a, 2 * b + 1, r, u)
      /\ ~Crosses(2 * a, 2 * b + 1, l, r) /\ ~Crosses(2 * a, 2 * b + 1, r, l)
  BY DEF Crosses
<1>8. t \notin {u, l, r} /\ p \in {t, u, l, r} /\ q \in {t, u, l, r} /\ m # p /\ m # q
  BY DEF CellPoints
<1> HIDE DEF t, u, l, r, m
<1>9. Crosses(2 * a, 2 * b + 1, p, q) <=> t \in {p, q} /\ b = y /\ a <= x
  BY ONLY <1>1, <1>2, <1>3, <1>4, <1>5, <1>6, <1>7, <1>8, p # q
<1> QED BY <1>9 DEF t

(* The ways through a cell.                                                *)
LEMMA WayThrough ==
  ASSUME ContourIsOfTheStep, NEW e \in Crossings
  PROVE  \E x \in 0..(surface.width - 2), y \in 0..(surface.height - 2) :
           /\ e \in {Upward(x, y), Backward(x + 1, y), Downward(x, y + 1), Forward(x, y)}
           /\ onward[e] \in {Downward(x, y), Forward(x + 1, y), Upward(x, y + 1), Backward(x, y)}
<1>1. surface.width \in Nat /\ surface.height \in Nat
  BY DEF ContourIsOfTheStep
<1>2. PICK x, y \in Nat : IsAcross(e, x, y) \/ IsAlong(e, x, y)
  BY KindsOfCrossings
<1>3. CASE e = Downward(x, y) /\ IsAcross(e, x, y)
  <2>1. PICK j : j \in 0..(surface.height - 2) /\ j + 1 = y
    <3>1. y - 1 \in 0..(surface.height - 2) /\ (y - 1) + 1 = y
      BY <1>1, <1>3 DEF IsAcross
    <3> QED BY <3>1
  <2>2. x \in 0..(surface.width - 2)
    BY <1>3 DEF IsAcross
  <2>3. onward[e] \in {Downward(x, j), Forward(x + 1, j), Upward(x, j + 1), Backward(x, j)}
    BY <1>3, <2>1, <2>2, OnwardThrough
  <2> QED BY <1>3, <2>1, <2>2, <2>3
<1>4. CASE e = Upward(x, y) /\ IsAcross(e, x, y)
  <2>1. x \in 0..(surface.width - 2) /\ y \in 0..(surface.height - 2)
    BY <1>1, <1>4 DEF IsAcross
  <2>2. onward[e] \in {Downward(x, y), Forward(x + 1, y), Upward(x, y + 1), Backward(x, y)}
    BY <1>4, <2>1, OnwardThrough
  <2> QED BY <1>4, <2>1, <2>2
<1>5. CASE e = Forward(x, y) /\ IsAlong(e, x, y)
  <2>1. x \in 0..(surface.width - 2) /\ y \in 0..(surface.height - 2)
    BY <1>1, <1>5 DEF IsAlong
  <2>2. onward[e] \in {Downward(x, y), Forward(x + 1, y), Upward(x, y + 1), Backward(x, y)}
    BY <1>5, <2>1, OnwardThrough
  <2> QED BY <1>5, <2>1, <2>2
<1>6. CASE e = Backward(x, y) /\ IsAlong(e, x, y)
  <2>1. PICK i : i \in 0..(surface.width - 2) /\ i + 1 = x
    <3>1. x - 1 \in 0..(surface.width - 2) /\ (x - 1) + 1 = x
      BY <1>1, <1>6 DEF IsAlong
    <3> QED BY <3>1
  <2>2. y \in 0..(surface.height - 2)
    BY <1>6 DEF IsAlong
  <2>3. onward[e] \in {Downward(i, y), Forward(i + 1, y), Upward(i, y + 1), Backward(i, y)}
    BY <1>6, <2>1, <2>2, OnwardThrough
  <2> QED BY <1>6, <2>1, <2>2, <2>3
<1> QED BY <1>2, <1>3, <1>4, <1>5, <1>6 DEF IsAcross, IsAlong

(* The crossings counted at a point: those of a row, to the right of it.   *)
GoesDown(e, a, b) == \E u \in a..(surface.width - 2) : e = Downward(u, b)

GoesUp(e, a, b) == \E u \in a..(surface.width - 2) : e = Upward(u, b)

(* An edge of a line lies to the right of a point where it crosses the row *)
(* of the point, before the middle of the cell or after.                   *)
LEMMA EdgesCross ==
  ASSUME ContourIsOfTheStep, NEW e \in Crossings, NEW a \in Nat, NEW b \in Nat
  PROVE  /\ \A i \in {2 * a, 2 * a + 1} :
              Crosses(i, 2 * b, Mid(e), Mid(onward[e])) <=> GoesDown(e, a, b) \/ GoesUp(onward[e], a, b)
         /\ ~(GoesDown(e, a, b) /\ GoesUp(onward[e], a, b))
         /\ <<2 * a, 2 * b + 1>> \notin {Mid(e), Mid(onward[e])} =>
              (Crosses(2 * a, 2 * b + 1, Mid(e), Mid(onward[e])) <=> GoesDown(onward[e], a, b) \/ GoesUp(e, a, b))
         /\ ~(GoesDown(onward[e], a, b) /\ GoesUp(e, a, b))
<1>1. PICK x \in 0..(surface.width - 2), y \in 0..(surface.height - 2) :
         /\ e \in {Upward(x, y), Backward(x + 1, y), Downward(x, y + 1), Forward(x, y)}
         /\ onward[e] \in {Downward(x, y), Forward(x + 1, y), Upward(x, y + 1), Backward(x, y)}
  BY WayThrough
<1>2. PICK f : f = onward[e] /\ f \in Crossings /\ f # e
  BY OnwardIsCrossing
<1>3. x \in Int /\ y \in Int /\ x + 1 \in Int /\ y + 1 \in Int /\ surface.width \in Nat /\ surface.height \in Nat
  BY DEF ContourIsOfTheStep
<1>4. PICK p, q : p = Mid(e) /\ q = Mid(f)
  OBVIOUS
<1>5. p # q
  BY <1>2, <1>4, MiddlesDiffer
<1>6. /\ e = Upward(x, y) => p = <<2 * x + 1, 2 * y>>
      /\ e = Backward(x + 1, y) => p = <<2 * x + 2, 2 * y + 1>>
      /\ e = Downward(x, y + 1) => p = <<2 * x + 1, 2 * y + 2>>
      /\ e = Forward(x, y) => p = <<2 * x, 2 * y + 1>>
      /\ f = Downward(x, y) => q = <<2 * x + 1, 2 * y>>
      /\ f = Forward(x + 1, y) => q = <<2 * x + 2, 2 * y + 1>>
      /\ f = Upward(x, y + 1) => q = <<2 * x + 1, 2 * y + 2>>
      /\ f = Backward(x, y) => q = <<2 * x, 2 * y + 1>>
  <2>1. 2 * (x + 1) = 2 * x + 2 /\ 2 * (y + 1) = 2 * y + 2
    BY <1>3
  <2>2. /\ Mid(Upward(x, y)) = <<2 * x + 1, 2 * y>> /\ Mid(Downward(x, y)) = <<2 * x + 1, 2 * y>>
        /\ Mid(Forward(x, y)) = <<2 * x, 2 * y + 1>> /\ Mid(Backward(x, y)) = <<2 * x, 2 * y + 1>>
    BY <1>3, MiddlesAre
  <2>3. Mid(Backward(x + 1, y)) = <<2 * (x + 1), 2 * y + 1>> /\ Mid(Forward(x + 1, y)) = <<2 * (x + 1), 2 * y + 1>>
    BY <1>3, MiddlesAre
  <2>4. Mid(Downward(x, y + 1)) = <<2 * x + 1, 2 * (y + 1)>> /\ Mid(Upward(x, y + 1)) = <<2 * x + 1, 2 * (y + 1)>>
    BY <1>3, MiddlesAre
  <2> QED BY <1>4, <2>1, <2>2, <2>3, <2>4
<1>7. p \in CellPoints(x, y) /\ q \in CellPoints(x, y)
  BY <1>1, <1>2, <1>6 DEF CellPoints
<1>8. /\ <<2 * x + 1, 2 * y + 2>> = p <=> e = Downward(x, y + 1)
      /\ <<2 * x + 1, 2 * y + 2>> = q <=> f = Upward(x, y + 1)
      /\ <<2 * x + 1, 2 * y>> = p <=> e = Upward(x, y)
      /\ <<2 * x + 1, 2 * y>> = q <=> f = Downward(x, y)
  BY <1>1, <1>2, <1>3, <1>6
<1>9. /\ GoesDown(e, a, b) <=> e = Downward(x, y + 1) /\ b = y + 1 /\ a <= x
      /\ GoesUp(f, a, b) <=> f = Upward(x, y + 1) /\ b = y + 1 /\ a <= x
      /\ GoesUp(e, a, b) <=> e = Upward(x, y) /\ b = y /\ a <= x
      /\ GoesDown(f, a, b) <=> f = Downward(x, y) /\ b = y /\ a <= x
  <2>1. ASSUME NEW u \in a..(surface.width - 2), e = Downward(u, b)
        PROVE  e = Downward(x, y + 1) /\ b = y + 1 /\ u = x
    BY <1>1, <1>3, <2>1 DEF Downward, Upward, Forward, Backward
  <2>2. ASSUME NEW u \in a..(surface.width - 2), f = Upward(u, b)
        PROVE  f = Upward(x, y + 1) /\ b = y + 1 /\ u = x
    BY <1>1, <1>2, <1>3, <2>2 DEF Downward, Upward, Forward, Backward
  <2>3. ASSUME NEW u \in a..(surface.width - 2), e = Upward(u, b) PROVE e = Upward(x, y) /\ b = y /\ u = x
    BY <1>1, <1>3, <2>3 DEF Downward, Upward, Forward, Backward
  <2>4. ASSUME NEW u \in a..(surface.width - 2), f = Downward(u, b) PROVE f = Downward(x, y) /\ b = y /\ u = x
    BY <1>1, <1>2, <1>3, <2>4 DEF Downward, Upward, Forward, Backward
  <2>5. a <= x => x \in a..(surface.width - 2)
    BY <1>3
  <2>6. \A u \in a..(surface.width - 2) : a <= u
    OBVIOUS
  <2>7. GoesDown(e, a, b) <=> e = Downward(x, y + 1) /\ b = y + 1 /\ a <= x
    BY <2>1, <2>5, <2>6 DEF GoesDown
  <2>8. GoesUp(f, a, b) <=> f = Upward(x, y + 1) /\ b = y + 1 /\ a <= x
    BY <2>2, <2>5, <2>6 DEF GoesUp
  <2>9. GoesUp(e, a, b) <=> e = Upward(x, y) /\ b = y /\ a <= x
    BY <2>3, <2>5, <2>6 DEF GoesUp
  <2>10. GoesDown(f, a, b) <=> f = Downward(x, y) /\ b = y /\ a <= x
    BY <2>4, <2>5, <2>6 DEF GoesDown
  <2> QED BY <2>7, <2>8, <2>9, <2>10
<1>10. /\ ~(e = Downward(x, y + 1) /\ f = Upward(x, y + 1))
       /\ ~(e = Upward(x, y) /\ f = Downward(x, y))
  <2>1. y \in 0..(surface.height - 1) /\ y + 1 \in 0..(surface.height - 1)
    BY <1>3
  <2> QED BY <1>2, <2>1, OneWayAcross
<1>11. ASSUME NEW i \in {2 * a, 2 * a + 1}
       PROVE  Crosses(i, 2 * b, p, q) <=> GoesDown(e, a, b) \/ GoesUp(f, a, b)
  <2>1. a \in Int /\ b \in Int
    OBVIOUS
  <2>4. CrossesInRow(x, y, a, b, p, q)
    BY <1>3, <1>5, <1>7, <2>1, RowIsCrossed
  <2>2. Crosses(i, 2 * b, p, q) <=> <<2 * x + 1, 2 * y + 2>> \in {p, q} /\ b = y + 1 /\ a <= x
    BY <2>4 DEF CrossesInRow
  <2>3. <<2 * x + 1, 2 * y + 2>> \in {p, q} <=> e = Downward(x, y + 1) \/ f = Upward(x, y + 1)
    BY <1>8
  <2> QED BY <2>2, <2>3, <1>9
<1>12. ASSUME <<2 * a, 2 * b + 1>> \notin {p, q}
       PROVE  Crosses(2 * a, 2 * b + 1, p, q) <=> GoesDown(f, a, b) \/ GoesUp(e, a, b)
  <2>1. a \in Int /\ b \in Int
    OBVIOUS
  <2>2. Crosses(2 * a, 2 * b + 1, p, q) <=> <<2 * x + 1, 2 * y>> \in {p, q} /\ b = y /\ a <= x
    BY <1>3, <1>5, <1>7, <1>12, <2>1, BetweenIsCrossed
  <2>3. <<2 * x + 1, 2 * y>> \in {p, q} <=> f = Downward(x, y) \/ e = Upward(x, y)
    BY <1>8
  <2> QED BY <2>2, <2>3, <1>9
<1> QED BY <1>2, <1>4, <1>9, <1>10, <1>11, <1>12

-----------------------------------------------------------------------------
(* The points of a closed line. *)
RingFollows(r, c, n) == Len(r) = n + 1 /\ r[n + 1] = Mid(c[1]) /\ \A i \in 1..n : r[i] = Mid(c[i])

AllOf(d, n) == {d[i] : i \in 1..n}

OneToOne(d, n) == \A i, j \in 1..n : d[i] = d[j] => i = j

AllDown(d, n, a, b) == {i \in 1..n : GoesDown(d[i], a, b)}

AllUp(d, n, a, b) == {i \in 1..n : GoesUp(d[i], a, b)}

(* Each crossing of a row is made once.                                    *)
LEMMA CountedOnce ==
  ASSUME ContourIsOfTheStep, NEW n \in Nat, NEW d, OneToOne(d, n), NEW R, R = AllOf(d, n), NEW a, NEW b
  PROVE  /\ IsFiniteSet(AllDown(d, n, a, b)) /\ Cardinality(AllDown(d, n, a, b)) = Cardinality(Downs(R, a, b))
         /\ IsFiniteSet(AllUp(d, n, a, b)) /\ Cardinality(AllUp(d, n, a, b)) = Cardinality(Ups(R, a, b))
<1>1. PICK A, B : A = {i \in 1..n : GoesDown(d[i], a, b)} /\ B = {i \in 1..n : GoesUp(d[i], a, b)}
  OBVIOUS
<1>2. IsFiniteSet(A) /\ IsFiniteSet(B)
  <2>1. PICK l \in Int : l = 1
    OBVIOUS
  <2>2. IsFiniteSet(l..n)
    BY FS_Interval
  <2> QED BY <1>1, <2>1, <2>2, FS_Subset
<1>3. PICK f : f = [i \in 1..n |-> d[i][1][1]]
  OBVIOUS
<1>4. \A i \in A : d[i] = Downward(f[i], b) /\ f[i] \in a..(surface.width - 2)
  BY <1>1, <1>3 DEF GoesDown, Downward
<1>5. \A i \in B : d[i] = Upward(f[i], b) /\ f[i] \in a..(surface.width - 2)
  BY <1>1, <1>3 DEF GoesUp, Upward
<1>6. A \subseteq 1..n /\ B \subseteq 1..n
  BY <1>1
<1>7. (\A i, j \in A : f[i] = f[j] => i = j) /\ (\A i, j \in B : f[i] = f[j] => i = j)
  <2>1. ASSUME NEW i \in A, NEW j \in A, f[i] = f[j] PROVE i = j
    BY <1>4, <1>6, <2>1 DEF OneToOne
  <2>2. ASSUME NEW i \in B, NEW j \in B, f[i] = f[j] PROVE i = j
    BY <1>5, <1>6, <2>2 DEF OneToOne
  <2> QED BY <2>1, <2>2
<1>8. {f[i] : i \in A} = Downs(R, a, b)
  <2>1. ASSUME NEW u \in Downs(R, a, b) PROVE \E i \in A : f[i] = u
    <3>1. u \in a..(surface.width - 2) /\ Downward(u, b) \in R
      BY DEF Downs
    <3>2. PICK i \in 1..n : d[i] = Downward(u, b)
      BY <3>1 DEF AllOf
    <3> QED BY <1>1, <1>3, <3>1, <3>2 DEF GoesDown, Downward
  <2>2. \A i \in A : f[i] \in Downs(R, a, b)
    BY <1>4, <1>6 DEF Downs, AllOf
  <2> QED BY <2>1, <2>2
<1>9. {f[i] : i \in B} = Ups(R, a, b)
  <2>1. ASSUME NEW u \in Ups(R, a, b) PROVE \E i \in B : f[i] = u
    <3>1. u \in a..(surface.width - 2) /\ Upward(u, b) \in R
      BY DEF Ups
    <3>2. PICK i \in 1..n : d[i] = Upward(u, b)
      BY <3>1 DEF AllOf
    <3> QED BY <1>1, <1>3, <3>1, <3>2 DEF GoesUp, Upward
  <2>2. \A i \in B : f[i] \in Ups(R, a, b)
    BY <1>5, <1>6 DEF Ups, AllOf
  <2> QED BY <2>1, <2>2
<1>10. Cardinality({f[i] : i \in A}) = Cardinality(A) /\ Cardinality({f[i] : i \in B}) = Cardinality(B)
  BY <1>2, <1>7, AsMany
<1> QED BY <1>1, <1>2, <1>8, <1>9, <1>10 DEF AllDown, AllUp

LEMMA EvenOrOdd ==
  ASSUME NEW s, NEW A, NEW B, s = A \cup B, A \cap B = {}, IsFiniteSet(A), IsFiniteSet(B),
         NEW w, w \in {-1, 0, 1}, Cardinality(A) - Cardinality(B) \in {w, -w}
  PROVE  Cardinality(s) % 2 = 1 <=> w # 0
<1>1. Cardinality(s) = Cardinality(A) + Cardinality(B) - Cardinality(A \cap B)
  BY FS_Union
<1>2. Cardinality(A \cap B) = 0 /\ Cardinality(A) \in Nat /\ Cardinality(B) \in Nat
  BY FS_EmptySet, FS_CardinalityType
<1>3. PICK a, b \in Nat : a = Cardinality(A) /\ b = Cardinality(B)
  BY <1>2
<1>4. Cardinality(s) = a + b /\ a - b \in {w, -w}
  BY <1>1, <1>2, <1>3
<1>5. (a + b) % 2 = 1 <=> w # 0
  BY ONLY <1>4, w \in {-1, 0, 1}, a \in Nat, b \in Nat
<1> QED BY <1>4, <1>5

(* A point is found in a ring just when the ring goes around it.           *)
LEMMA InRing ==
  ASSUME ContourIsOfTheStep, NEW c, NEW n, IsCycle(c, n), NEW r, RingFollows(r, c, n),
         NEW R, R = {c[i] : i \in 1..n}, NEW a, NEW b, InGrid(a, b), NEW p
  PROVE  /\ p \in {<<2 * a, 2 * b>>, <<2 * a + 1, 2 * b>>} => (pointinpolygon(p, r) <=> Winding(R, a, b) # 0)
         /\ p = <<2 * a, 2 * b + 1>> /\ (\A e \in R : Mid(e) # p) =>
              (pointinpolygon(p, r) <=> Winding(R, a, b) # 0)
<1>0. n \in Nat /\ n # 0 /\ a \in Nat /\ b \in Nat
  BY DEF IsCycle, InGrid, ContourIsOfTheStep
<1>1. PICK d : d = [i \in 1..n |-> c[IF i = n THEN 1 ELSE i + 1]]
  OBVIOUS
<1>2. /\ \A i \in 1..n : c[i] \in Crossings /\ onward[c[i]] = d[i]
      /\ \A i, j \in 1..n : c[i] = c[j] => i = j
  BY <1>1 DEF IsCycle
<1>3. \A i, j \in 1..n : d[i] = d[j] => i = j
  <2>1. \A i \in 1..n : (IF i = n THEN 1 ELSE i + 1) \in 1..n
    BY <1>0
  <2> QED BY <1>0, <1>1, <1>2, <2>1
<1>4. R = {d[i] : i \in 1..n}
  <2>1. \A i \in 1..n : d[i] \in R
    <3>1. \A i \in 1..n : (IF i = n THEN 1 ELSE i + 1) \in 1..n
      BY <1>0
    <3> QED BY <1>1, <3>1
  <2>2. ASSUME NEW e \in R PROVE \E i \in 1..n : d[i] = e
    <3>1. PICK j \in 1..n : c[j] = e
      OBVIOUS
    <3>2. CASE j = 1
      <4>1. n \in 1..n /\ d[n] = c[1]
        BY <1>0, <1>1
      <4> QED BY <3>1, <3>2, <4>1
    <3>3. CASE j # 1
      <4>1. j - 1 \in 1..n /\ j - 1 # n /\ (j - 1) + 1 = j
        BY <1>0, <3>3
      <4>2. d[j - 1] = c[j]
        BY <1>1, <4>1
      <4> QED BY <3>1, <4>1, <4>2
    <3> QED BY <3>2, <3>3
  <2> QED BY <2>1, <2>2
<1>5. \A i \in 1..n : r[i] = Mid(c[i]) /\ r[i + 1] = Mid(d[i])
  BY <1>0, <1>1 DEF RingFollows
<1>10. /\ IsFiniteSet(AllDown(c, n, a, b)) /\ Cardinality(AllDown(c, n, a, b)) = Cardinality(Downs(R, a, b))
       /\ IsFiniteSet(AllUp(c, n, a, b)) /\ Cardinality(AllUp(c, n, a, b)) = Cardinality(Ups(R, a, b))
  <2>1. OneToOne(c, n) /\ R = AllOf(c, n)
    BY <1>2 DEF OneToOne, AllOf
  <2> QED BY <1>0, <2>1, CountedOnce
<1>11. /\ IsFiniteSet(AllDown(d, n, a, b)) /\ Cardinality(AllDown(d, n, a, b)) = Cardinality(Downs(R, a, b))
       /\ IsFiniteSet(AllUp(d, n, a, b)) /\ Cardinality(AllUp(d, n, a, b)) = Cardinality(Ups(R, a, b))
  <2>1. OneToOne(d, n) /\ R = AllOf(d, n)
    BY <1>3, <1>4 DEF OneToOne, AllOf
  <2> QED BY <1>0, <2>1, CountedOnce
<1>6. pointinpolygon(p, r) <=>
        Cardinality({i \in 1..n : Crosses(p[1], p[2], Mid(c[i]), Mid(d[i]))}) % 2 = 1
  <2>1. Len(r) - 1 = n
    BY <1>0 DEF RingFollows
  <2>2. {i \in 1..n : Crosses(p[1], p[2], Mid(c[i]), Mid(d[i]))}
          = {i \in 1..(Len(r) - 1) : Crosses(p[1], p[2], r[i], r[i + 1])}
    BY <1>5, <2>1
  <2> QED BY <2>2 DEF pointinpolygon
<1>7. Winding(R, a, b) \in {-1, 0, 1}
  <2>1. IsLoop(R)
    BY DEF IsLoop
  <2> QED BY <2>1, LoopsWindOnce DEF WindsLeft, WindsRight
<1>8. CASE p \in {<<2 * a, 2 * b>>, <<2 * a + 1, 2 * b>>}
  <2>1. PICK A, B, s : /\ A = AllDown(c, n, a, b) /\ B = AllUp(d, n, a, b)
                       /\ s = {i \in 1..n : Crosses(p[1], p[2], Mid(c[i]), Mid(d[i]))}
    OBVIOUS
  <2>2. p[1] \in {2 * a, 2 * a + 1} /\ p[2] = 2 * b
    BY <1>8
  <2>3. \A i \in 1..n : /\ Crosses(p[1], p[2], Mid(c[i]), Mid(d[i])) <=> GoesDown(c[i], a, b) \/ GoesUp(d[i], a, b)
                        /\ ~(GoesDown(c[i], a, b) /\ GoesUp(d[i], a, b))
    <3> TAKE i \in 1..n
    <3>1. PICK e : e = c[i] /\ e \in Crossings /\ onward[e] = d[i]
      BY <1>2
    <3>2. /\ \A j \in {2 * a, 2 * a + 1} :
               Crosses(j, 2 * b, Mid(e), Mid(onward[e])) <=> GoesDown(e, a, b) \/ GoesUp(onward[e], a, b)
          /\ ~(GoesDown(e, a, b) /\ GoesUp(onward[e], a, b))
      <4>1. a \in Nat /\ b \in Nat /\ e \in Crossings
        BY <1>0, <3>1
      <4> QED BY ONLY ContourIsOfTheStep, <4>1, EdgesCross
    <3>3. PICK k, l, f : k = p[1] /\ l = p[2] /\ f = onward[e]
      OBVIOUS
    <3>4. k \in {2 * a, 2 * a + 1} /\ l = 2 * b
      BY <2>2, <3>3
    <3>5. /\ Crosses(k, l, Mid(e), Mid(f)) <=> GoesDown(e, a, b) \/ GoesUp(f, a, b)
          /\ ~(GoesDown(e, a, b) /\ GoesUp(f, a, b))
      BY ONLY <3>2, <3>3, <3>4
    <3> QED BY ONLY <3>1, <3>3, <3>5
  <2>4. s = A \cup B /\ A \cap B = {}
    BY <2>1, <2>3 DEF AllDown, AllUp
  <2>5. /\ IsFiniteSet(A) /\ Cardinality(A) = Cardinality(Downs(R, a, b))
        /\ IsFiniteSet(B) /\ Cardinality(B) = Cardinality(Ups(R, a, b))
    BY <1>10, <1>11, <2>1
  <2>6. Cardinality(A) - Cardinality(B) = Winding(R, a, b)
    BY <2>5 DEF Winding
  <2>7. Cardinality(s) % 2 = 1 <=> Winding(R, a, b) # 0
    BY <1>7, <2>4, <2>5, <2>6, EvenOrOdd
  <2>8. p # <<2 * a, 2 * b + 1>>
    BY <1>0, <2>2
  <2> QED BY <1>6, <2>1, <2>7, <2>8
<1>9. CASE p = <<2 * a, 2 * b + 1>> /\ \A e \in R : Mid(e) # p
  <2>1. PICK A, B, s : /\ A = AllUp(c, n, a, b) /\ B = AllDown(d, n, a, b)
                       /\ s = {i \in 1..n : Crosses(p[1], p[2], Mid(c[i]), Mid(d[i]))}
    OBVIOUS
  <2>2. p[1] = 2 * a /\ p[2] = 2 * b + 1
    BY <1>9
  <2>3. \A i \in 1..n : p \notin {Mid(c[i]), Mid(d[i])}
    BY <1>4, <1>9
  <2>4. \A i \in 1..n : /\ Crosses(p[1], p[2], Mid(c[i]), Mid(d[i])) <=> GoesDown(d[i], a, b) \/ GoesUp(c[i], a, b)
                        /\ ~(GoesDown(d[i], a, b) /\ GoesUp(c[i], a, b))
    BY <1>0, <1>2, <1>9, <2>2, <2>3, EdgesCross
  <2>5. s = A \cup B /\ A \cap B = {}
    BY <2>1, <2>4 DEF AllDown, AllUp
  <2>6. /\ IsFiniteSet(A) /\ Cardinality(A) = Cardinality(Ups(R, a, b))
        /\ IsFiniteSet(B) /\ Cardinality(B) = Cardinality(Downs(R, a, b))
    BY <1>10, <1>11, <2>1
  <2>7. Cardinality(A) - Cardinality(B) = -Winding(R, a, b)
    <3>1. Cardinality(Ups(R, a, b)) \in Nat /\ Cardinality(Downs(R, a, b)) \in Nat
      BY <1>0, CrossedAreFinite
    <3> QED BY <2>6, <3>1 DEF Winding
  <2>8. Cardinality(s) % 2 = 1 <=> Winding(R, a, b) # 0
    BY <1>7, <2>5, <2>6, <2>7, EvenOrOdd
  <2>9. p \notin {<<2 * a, 2 * b>>, <<2 * a + 1, 2 * b>>}
    BY <1>0, <2>2
  <2> QED BY <1>6, <2>1, <2>8, <2>9
<1> QED BY <1>8, <1>9

-----------------------------------------------------------------------------
(* The crossings of a ring. *)
CrossingsOf(r) == {e \in Crossings : \E i \in 1..Len(r) : r[i] = Mid(e)}

IsRing(r) == \E c, n : IsCycle(c, n) /\ RingFollows(r, c, n)

(* The crossings of a ring are those it was drawn over. *)
LEMMA StepsOfRing ==
  ASSUME ContourIsOfTheStep, NEW r, NEW c, NEW n, IsCycle(c, n), RingFollows(r, c, n)
  PROVE  CrossingsOf(r) = AllOf(c, n) /\ CrossingsOf(r) = {c[i] : i \in 1..n} /\ IsLoop(CrossingsOf(r)) /\ c[1] \in CrossingsOf(r) /\ r[1] = Mid(c[1])
<1>1. /\ n \in Nat /\ n # 0 /\ Len(r) = n + 1 /\ r[n + 1] = Mid(c[1])
      /\ \A i \in 1..n : r[i] = Mid(c[i]) /\ c[i] \in Crossings
  BY DEF IsCycle, RingFollows
<1>2. 1 \in 1..n
  BY <1>1
<1>3. ASSUME NEW e \in CrossingsOf(r) PROVE \E i \in 1..n : e = c[i]
  <2>1. e \in Crossings
    BY DEF CrossingsOf
  <2>2. PICK i \in 1..(n + 1) : r[i] = Mid(e)
    BY <1>1 DEF CrossingsOf
  <2>3. CASE i = n + 1
    BY <1>1, <1>2, <2>1, <2>2, <2>3, MiddlesDiffer
  <2>4. CASE i # n + 1
    <3>1. i \in 1..n
      BY <1>1, <2>4
    <3> QED BY <1>1, <2>1, <2>2, <3>1, MiddlesDiffer
  <2> QED BY <2>3, <2>4
<1>4. ASSUME NEW i \in 1..n PROVE c[i] \in CrossingsOf(r)
  <2>1. i \in 1..Len(r)
    BY <1>1
  <2> QED BY <1>1, <2>1 DEF CrossingsOf
<1>5. CrossingsOf(r) = {c[i] : i \in 1..n}
  BY <1>3, <1>4
<1>6. IsLoop(CrossingsOf(r))
  BY <1>5 DEF IsLoop
<1> QED BY <1>1, <1>2, <1>4, <1>5, <1>6 DEF AllOf

(* What is drawn of a step: rings that share no crossing, told apart by    *)
(* the way they turn, and the line followed.                               *)
RingsAreDrawn ==
  /\ IsFiniteSet(shells) /\ IsFiniteSet(holes)
  /\ \A r \in shells \cup holes : IsRing(r)
  /\ \A r, s \in shells \cup holes : r # s => CrossingsOf(r) \cap CrossingsOf(s) = {}
  /\ \A r \in shells : Turn(CrossingsOf(r)) > 0
  /\ \A r \in holes : Turn(CrossingsOf(r)) <= 0

AllDrawn == UNION {CrossingsOf(r) : r \in shells \cup holes}

LineIs(c, n) ==
  /\ n \in Nat /\ \A i \in 1..n : c[i] \in Crossings
  /\ \A i \in 1..n : i < n => onward[c[i]] = c[i + 1]
  /\ OneToOne(c, n)
  /\ \E S : line.coords \in Seq(S)
  /\ Len(line.coords) = n /\ \A i \in 1..n : line.coords[i] = Mid(c[i])
  /\ line.direction = Turn(AllOf(c, n))
  /\ n = 0 <=> line.pos = line.orig
  /\ n # 0 => c[1][1] = line.orig /\ c[n] = <<line.start, line.pos>>

LinesAre(E) ==
  /\ Trace(E)
  /\ RingsAreDrawn
  /\ \E c, n : LineIs(c, n) /\ E = AllDrawn \cup AllOf(c, n) /\ AllDrawn \cap AllOf(c, n) = {}

DrawingInv == IsolineState /\ ContourIsOfTheStep /\ discarded = 0 /\ \E E : LinesAre(E)

(* A line that is about to begin has no crossings. *)
LEMMA NoLineIs ==
  ASSUME ContourIsOfTheStep, line.coords = <<>>, line.direction = 0, line.pos = line.orig, NEW c
  PROVE  LineIs(c, 0) /\ AllOf(c, 0) = {}
<1>1. 1..0 = {}
  OBVIOUS
<1>2. AllOf(c, 0) = {}
  BY <1>1 DEF AllOf
<1>3. Turn(AllOf(c, 0)) = 0
  BY <1>2, TurnOfNone
<1>4. line.coords \in Seq({}) /\ Len(line.coords) = 0
  OBVIOUS
<1> QED BY <1>1, <1>2, <1>3, <1>4 DEF LineIs, OneToOne

LEMMA NothingDrawnIs ==
  ASSUME ContourIsOfTheStep, shells = {}, holes = {}
  PROVE  RingsAreDrawn /\ AllDrawn = {}
BY FS_EmptySet DEF RingsAreDrawn, AllDrawn

(* Nothing is drawn at first. *)
LEMMA DrawingInit == IsolineInit => DrawingInv
<1> SUFFICES ASSUME IsolineInit PROVE DrawingInv
  OBVIOUS
<1>1. IsolineState /\ ContourIsOfTheStep /\ discarded = 0
  BY IsolineInitInv DEF IsolineInv
<1>2. line = NoLine /\ shells = {} /\ holes = {} /\ found = {} /\ AtRest
  BY DEF IsolineInit, AtRest
<1>3. Trace({})
  BY <1>2 DEF Trace, LedTo, NoLine
<1>4. PICK c : TRUE
  OBVIOUS
<1>5. line.coords = <<>> /\ line.direction = 0 /\ line.pos = line.orig
  BY <1>2 DEF NoLine
<1>6. LineIs(c, 0) /\ AllOf(c, 0) = {} /\ RingsAreDrawn /\ AllDrawn = {}
  BY <1>1, <1>2, <1>5, NoLineIs, NothingDrawnIs
<1>7. LinesAre({})
  BY <1>3, <1>6 DEF LinesAre
<1> QED BY <1>1, <1>7 DEF DrawingInv

-----------------------------------------------------------------------------
(* The sum a line keeps is of the grid, its crossings of the contour.      *)
LEMMA TurnStays ==
  ASSUME UNCHANGED surface
  PROVE  \A R : Turn(R)' = Turn(R)
<1> SUFFICES ASSUME NEW R PROVE Turn(R)' = Turn(R)
  OBVIOUS
<1>1. Levels' = Levels
  BY DEF Levels
<1>2. \A x, y : Forwards(R, x, y)' = Forwards(R, x, y) /\ Backwards(R, x, y)' = Backwards(R, x, y)
  BY DEF Forwards, Backwards
<1>3. Rising(R)' = Rising(R) /\ Falling(R)' = Falling(R)
  BY <1>1, <1>2 DEF Rising, Falling
<1> QED BY <1>1, <1>3 DEF Turn, AllParts

LEMMA DrawingStays ==
  ASSUME UNCHANGED <<surface, contour>>
  PROVE  /\ Crossings' = Crossings /\ onward' = onward /\ Plain' = Plain
         /\ \A r : CrossingsOf(r)' = CrossingsOf(r)
         /\ \A r : IsRing(r)' <=> IsRing(r)
<1>1. Crossings' = Crossings /\ onward' = onward /\ Plain' = Plain
  BY NothingMoved
<1>2. \A r : CrossingsOf(r)' = CrossingsOf(r)
  BY <1>1 DEF CrossingsOf
<1>3. \A c, n : IsCycle(c, n)' <=> IsCycle(c, n)
  BY <1>1 DEF IsCycle
<1>4. \A r : IsRing(r)' <=> IsRing(r)
  BY <1>3 DEF IsRing, RingFollows
<1> QED BY <1>1, <1>2, <1>4

LEMMA NoLineNext ==
  ASSUME ContourIsOfTheStep, UNCHANGED surface, NEW c,
         line'.coords = <<>>, line'.direction = 0, line'.pos = line'.orig
  PROVE  LineIs(c, 0)' /\ AllOf(c, 0) = {}
<1>1. 1..0 = {}
  OBVIOUS
<1>2. AllOf(c, 0) = {}
  BY <1>1 DEF AllOf
<1>3. Turn(AllOf(c, 0))' = 0
  <2>1. Turn({}) = 0 /\ Turn({})' = Turn({})
    BY TurnOfNone, TurnStays
  <2> QED BY <1>2, <2>1
<1>4. line'.coords \in Seq({}) /\ Len(line'.coords) = 0
  OBVIOUS
<1> QED BY <1>1, <1>2, <1>3, <1>4 DEF LineIs, OneToOne

(* The line followed and the crossing taken. *)
LEMMA LongerLine ==
  ASSUME IsolineState, ContourIsOfTheStep, NEW c, NEW n, LineIs(c, n), NEW e, e = Taken, e \in Crossings, e \notin AllOf(c, n),
         line.pos # line.orig => onward[<<line.start, line.pos>>] = e,
         NEW d, d = [i \in 1..(n + 1) |-> IF i = n + 1 THEN e ELSE c[i]]
  PROVE  /\ n \in Nat /\ d \in [1..(n + 1) -> Crossings] /\ OneToOne(d, n + 1)
         /\ AllOf(d, n + 1) = AllOf(c, n) \cup {e}
         /\ \A i \in 1..(n + 1) : i < n + 1 => onward[d[i]] = d[i + 1]
         /\ d[1][1] = line.orig /\ d[n + 1] = e
         /\ (\E S : NewCoords \in Seq(S)) /\ Len(NewCoords) = n + 1
         /\ \A i \in 1..(n + 1) : NewCoords[i] = Mid(d[i])
         /\ NewTurn = Turn(AllOf(d, n + 1))
<1>1. /\ n \in Nat /\ OneToOne(c, n) /\ Len(line.coords) = n
      /\ \A i \in 1..n : c[i] \in Crossings
      /\ \A i \in 1..n : i < n => onward[c[i]] = c[i + 1]
      /\ \A i \in 1..n : line.coords[i] = Mid(c[i])
      /\ line.direction = Turn(AllOf(c, n))
      /\ n = 0 <=> line.pos = line.orig
  BY DEF LineIs
<1>2. n # 0 => c[1][1] = line.orig /\ c[n] = <<line.start, line.pos>>
  BY DEF LineIs
<1>3. d[n + 1] = e /\ \A i \in 1..n : d[i] = c[i]
  BY <1>1
<1>4. d \in [1..(n + 1) -> Crossings]
  BY <1>1
<1>5. AllOf(d, n + 1) = AllOf(c, n) \cup {e}
  <2>1. 1..(n + 1) = (1..n) \cup {n + 1}
    BY <1>1
  <2> QED BY <1>3, <2>1 DEF AllOf
<1>6. OneToOne(d, n + 1)
  <2> SUFFICES ASSUME NEW i \in 1..(n + 1), NEW j \in 1..(n + 1), d[i] = d[j] PROVE i = j
    BY DEF OneToOne
  <2>1. \A k \in 1..n : c[k] # e
    BY DEF AllOf
  <2>2. (i = n + 1 \/ i \in 1..n) /\ (j = n + 1 \/ j \in 1..n)
    BY <1>1
  <2> QED BY <1>1, <1>3, <2>1, <2>2 DEF OneToOne
<1>7. \A i \in 1..(n + 1) : i < n + 1 => onward[d[i]] = d[i + 1]
  <2> SUFFICES ASSUME NEW i \in 1..(n + 1), i < n + 1 PROVE onward[d[i]] = d[i + 1]
    OBVIOUS
  <2>1. i \in 1..n /\ d[i] = c[i]
    BY <1>1, <1>3
  <2>2. CASE i = n
    <3>1. n # 0 /\ line.pos # line.orig
      BY <1>1, <2>1
    <3>2. d[i] = <<line.start, line.pos>>
      BY <1>2, <2>1, <2>2, <3>1
    <3>3. onward[<<line.start, line.pos>>] = e
      BY <3>1
    <3> QED BY ONLY <1>3, <2>2, <3>2, <3>3
  <2>3. CASE i < n
    BY <1>1, <1>3, <2>1, <2>3
  <2> QED BY <1>1, <2>1, <2>2, <2>3
<1>8. d[1][1] = line.orig
  <2>1. CASE n = 0
    BY <1>1, <1>3, <2>1 DEF Taken
  <2>2. CASE n # 0
    BY <1>1, <1>2, <1>3, <2>2
  <2> QED BY <2>1, <2>2
<1>9. (\E S : NewCoords \in Seq(S)) /\ Len(NewCoords) = n + 1
  <2>1. \E S : line.coords \in Seq(S)
    BY DEF LineIs
  <2> QED BY <1>1, <2>1, AppendedTo DEF NewCoords
<1>10. \A i \in 1..(n + 1) : NewCoords[i] = Mid(d[i])
  <2>1. PICK S : line.coords \in Seq(S)
    BY DEF LineIs
  <2>2. NewCoords[n + 1] = Mid(d[n + 1])
    BY <1>1, <1>3, <2>1 DEF NewCoords, Mid, Taken
  <2>3. \A i \in 1..n : NewCoords[i] = line.coords[i]
    BY <1>1, <2>1 DEF NewCoords
  <2> QED BY <1>1, <1>3, <2>2, <2>3
<1>11. NewTurn = Turn(AllOf(d, n + 1))
  <2>1. AllOf(c, n) \subseteq Crossings
    BY <1>1 DEF AllOf
  <2>2. PICK R : R = AllOf(c, n)
    OBVIOUS
  <2>3. Turn(R \cup {e}) = Turn(R) + TurnOf(e)
    BY <2>1, <2>2, TurnOfStep
  <2>4. TurnOf(e) = (NextCell[1] - line.pos[1]) * (NextCell[2] + line.pos[2])
    BY DEF TurnOf, Taken
  <2> QED BY <1>1, <1>5, <2>2, <2>3, <2>4 DEF NewTurn
<1> QED BY <1>1, <1>3, <1>4, <1>5, <1>6, <1>7, <1>8, <1>9, <1>10, <1>11

(* A ring of crossings that are new is one more. *)
LEMMA RingJoins ==
  ASSUME ContourIsOfTheStep, RingsAreDrawn, UNCHANGED <<surface, contour>>,
         NEW r, IsRing(r), CrossingsOf(r) \cap AllDrawn = {},
         shells' = shells \cup {x \in {r} : Turn(CrossingsOf(r)) > 0},
         holes' = holes \cup {x \in {r} : Turn(CrossingsOf(r)) <= 0}
  PROVE  RingsAreDrawn' /\ AllDrawn' = AllDrawn \cup CrossingsOf(r)
<1>1. /\ \A s : CrossingsOf(s)' = CrossingsOf(s)
      /\ \A s : IsRing(s)' <=> IsRing(s)
      /\ \A R : Turn(R)' = Turn(R)
  BY DrawingStays, TurnStays
<1>2. Turn(CrossingsOf(r)) \in Int
  <2>1. PICK R : R = CrossingsOf(r)
    OBVIOUS
  <2>2. Turn(R) \in Int
    BY LevelsAreFinite DEF Turn
  <2> QED BY <2>1, <2>2
<1>3. shells' \cup holes' = shells \cup holes \cup {r}
  BY <1>2
<1>4. IsFiniteSet(shells') /\ IsFiniteSet(holes')
  <2>1. shells' \in {shells, shells \cup {r}} /\ holes' \in {holes, holes \cup {r}}
    OBVIOUS
  <2>2. IsFiniteSet(shells) /\ IsFiniteSet(holes)
    BY DEF RingsAreDrawn
  <2>3. IsFiniteSet(shells \cup {r}) /\ IsFiniteSet(holes \cup {r})
    BY <2>2, FS_AddElement
  <2> QED BY <2>1, <2>2, <2>3
<1>5. AllDrawn' = AllDrawn \cup CrossingsOf(r)
  BY <1>1, <1>3 DEF AllDrawn
<1>6. \A s \in shells' \cup holes' : IsRing(s)'
  BY <1>1, <1>3 DEF RingsAreDrawn
<1>7. \A t, s \in shells' \cup holes' : t # s => CrossingsOf(t)' \cap CrossingsOf(s)' = {}
  <2>1. \A s \in shells \cup holes : CrossingsOf(r) \cap CrossingsOf(s) = {}
    BY DEF AllDrawn
  <2> QED BY <1>1, <1>3, <2>1 DEF RingsAreDrawn
<1>8. \A s \in shells' : Turn(CrossingsOf(s))' > 0
  <2> SUFFICES ASSUME NEW s \in shells' PROVE Turn(CrossingsOf(s))' > 0
    OBVIOUS
  <2>1. Turn(CrossingsOf(s))' = Turn(CrossingsOf(s))
    BY <1>1 DEF CrossingsOf
  <2>2. Turn(CrossingsOf(s)) > 0
    BY DEF RingsAreDrawn
  <2> QED BY <2>1, <2>2
<1>9. \A s \in holes' : Turn(CrossingsOf(s))' <= 0
  <2> SUFFICES ASSUME NEW s \in holes' PROVE Turn(CrossingsOf(s))' <= 0
    OBVIOUS
  <2>1. Turn(CrossingsOf(s))' = Turn(CrossingsOf(s))
    BY <1>1 DEF CrossingsOf
  <2>2. Turn(CrossingsOf(s)) <= 0
    BY DEF RingsAreDrawn
  <2> QED BY <2>1, <2>2
<1> QED BY <1>4, <1>5, <1>6, <1>7, <1>8, <1>9 DEF RingsAreDrawn

(* Rings that stay are drawn over the same crossings. *)
LEMMA RingsStay ==
  ASSUME RingsAreDrawn, UNCHANGED <<surface, contour, shells, holes>>
  PROVE  RingsAreDrawn' /\ AllDrawn' = AllDrawn
<1>1. /\ \A s : CrossingsOf(s)' = CrossingsOf(s)
      /\ \A s : IsRing(s)' <=> IsRing(s)
      /\ \A R : Turn(R)' = Turn(R)
  BY DrawingStays, TurnStays
<1>2. \A s : Turn(CrossingsOf(s))' = Turn(CrossingsOf(s))
  <2> TAKE s
  <2>1. PICK R : R = CrossingsOf(s)
    OBVIOUS
  <2>2. CrossingsOf(s)' = R
    BY <1>1, <2>1
  <2> QED BY <1>1, <2>1, <2>2
<1>3. AllDrawn' = AllDrawn
  BY <1>1 DEF AllDrawn
<1> QED BY <1>1, <1>2, <1>3 DEF RingsAreDrawn

(* A turn of the loop makes the line longer or closes it.                  *)
LEMMA FollowDraws == DrawingInv /\ FollowLine => DrawingInv'
<1> SUFFICES ASSUME DrawingInv, FollowLine PROVE DrawingInv'
  OBVIOUS
<1>0. IsolineState /\ ContourIsOfTheStep /\ discarded = 0
  BY DEF DrawingInv
<1>1. PICK E : LinesAre(E)
  BY DEF DrawingInv
<1>2. Trace(E) /\ RingsAreDrawn
  BY <1>1 DEF LinesAre
<1>3. PICK c, n : LineIs(c, n) /\ E = AllDrawn \cup AllOf(c, n) /\ AllDrawn \cap AllOf(c, n) = {}
  BY <1>1 DEF LinesAre
<1>4. PICK e : e = Taken
  OBVIOUS
<1>5. PICK F : F = E \cup {Taken}
  OBVIOUS
<1>6. /\ e \in Crossings /\ e \notin E
      /\ line.pos # line.orig => onward[<<line.start, line.pos>>] = e
      /\ NextCell = line.orig => \A f \in F : f[1] = line.orig => onward[e] = f
      /\ UNCHANGED <<surface, request, cutoff, contour, isolines>>
      /\ line' = IF NextCell = line.orig THEN NoLine
                 ELSE [line EXCEPT !.pos = NextCell, !.start = line.pos,
                                   !.direction = NewTurn, !.coords = NewCoords]
      /\ shells' = shells \cup {x \in {NewRing} : NextCell = line.orig /\ NewTurn > 0}
      /\ holes' = holes \cup {x \in {NewRing} : NextCell = line.orig /\ NewTurn <= 0}
      /\ Trace(F)' /\ IsolineState' /\ ContourIsOfTheStep' /\ discarded' = 0
  BY <1>0, <1>2, <1>4, <1>5, FollowTraces
<1>7. PICK d : d = [i \in 1..(n + 1) |-> IF i = n + 1 THEN e ELSE c[i]]
  OBVIOUS
<1>8. e \notin AllOf(c, n)
  BY <1>3, <1>6
<1>9. /\ n \in Nat /\ d \in [1..(n + 1) -> Crossings] /\ OneToOne(d, n + 1)
      /\ AllOf(d, n + 1) = AllOf(c, n) \cup {e}
      /\ \A i \in 1..(n + 1) : i < n + 1 => onward[d[i]] = d[i + 1]
      /\ d[1][1] = line.orig /\ d[n + 1] = e
      /\ (\E S : NewCoords \in Seq(S)) /\ Len(NewCoords) = n + 1
      /\ \A i \in 1..(n + 1) : NewCoords[i] = Mid(d[i])
      /\ NewTurn = Turn(AllOf(d, n + 1))
  <2>1. LineIs(c, n)
    BY <1>3
  <2>2. line.pos # line.orig => onward[<<line.start, line.pos>>] = e
    BY <1>6
  <2>3. e \in Crossings
    BY <1>6
  <2> QED BY ONLY <1>0, <2>1, <1>4, <2>2, <2>3, <1>7, <1>8, LongerLine
<1>10. F = AllDrawn \cup AllOf(d, n + 1) /\ AllDrawn \cap AllOf(d, n + 1) = {}
  BY <1>3, <1>4, <1>5, <1>6, <1>9
<1>11. /\ Crossings' = Crossings /\ onward' = onward /\ \A R : Turn(R)' = Turn(R)
  BY <1>6, DrawingStays, TurnStays
<1>12. CASE NextCell # line.orig
  <2>1. shells' = shells /\ holes' = holes
    BY <1>6, <1>12
  <2>2. RingsAreDrawn' /\ AllDrawn' = AllDrawn
    BY <1>2, <1>6, <2>1, RingsStay
  <2>3. /\ line'.pos = NextCell /\ line'.start = line.pos /\ line'.direction = NewTurn
        /\ line'.coords = NewCoords /\ line'.orig = line.orig
    BY <1>0, <1>6, <1>12 DEF IsolineState
  <2>4. \A i \in 1..(n + 1) : d[i] \in Crossings
    BY <1>9
  <2>5. PICK m : m = n + 1
    OBVIOUS
  <2>6. Turn(AllOf(d, m))' = NewTurn
    <3>1. PICK R : R = AllOf(d, m)
      OBVIOUS
    <3>2. AllOf(d, m)' = R
      BY <3>1 DEF AllOf
    <3> QED BY <1>9, <1>11, <2>5, <3>1, <3>2
  <2>7. d[m] = <<line'.start, line'.pos>> /\ d[1][1] = line'.orig /\ m # 0 /\ m \in Nat
    BY <1>4, <1>9, <2>3, <2>5 DEF Taken
  <2>8. LineIs(d, m)'
    <3>1. /\ \A i \in 1..m : d[i] \in Crossings'
          /\ \A i \in 1..m : i < m => onward'[d[i]] = d[i + 1]
          /\ OneToOne(d, m)' /\ (\E S : line'.coords \in Seq(S))
          /\ Len(line'.coords) = m /\ \A i \in 1..m : line'.coords[i] = Mid(d[i])
      BY <1>9, <1>11, <2>3, <2>4, <2>5 DEF OneToOne
    <3>2. line'.pos # line'.orig
      BY <1>12, <2>3
    <3> QED BY <2>3, <2>6, <2>7, <3>1, <3>2 DEF LineIs, Mid
  <2>9. F = AllDrawn' \cup AllOf(d, m) /\ AllDrawn' \cap AllOf(d, m) = {}
    BY <1>10, <2>2, <2>5
  <2>10. LinesAre(F)'
    BY <1>6, <2>2, <2>8, <2>9 DEF LinesAre, AllOf
  <2> QED BY <1>6, <2>10 DEF DrawingInv
<1>13. CASE NextCell = line.orig
  <2>1. PICK r, m : r = NewRing /\ m = n + 1
    OBVIOUS
  <2>2. IsCycle(d, m)
    <3>1. d[1] \in F /\ d[1][1] = line.orig
      <4>1. 1 \in 1..(n + 1)
        BY <1>9
      <4> QED BY <1>9, <1>10, <4>1 DEF AllOf
    <3>2. onward[d[m]] = d[1]
      BY <1>6, <1>9, <1>13, <2>1, <3>1
    <3>3. \A i \in 1..m : onward[d[i]] = d[IF i = m THEN 1 ELSE i + 1]
      BY <1>9, <2>1, <3>2
    <3> QED BY <1>9, <2>1, <3>3 DEF IsCycle, OneToOne
  <2>3. RingFollows(r, d, m)
    <3>1. PICK S : NewCoords \in Seq(S)
      BY <1>9
    <3>2. PICK p : p = NewCoords[1]
      OBVIOUS
    <3>3. NewCoords \in Seq(S \cup {p})
      BY <3>1, Zenon, SeqMonotonic
    <3>4. r = Append(NewCoords, p)
      BY <2>1, <3>2 DEF NewRing
    <3>5. Len(r) = m + 1 /\ r[m + 1] = p /\ \A i \in 1..m : r[i] = NewCoords[i]
      BY <1>9, <2>1, <3>3, <3>4
    <3>6. p = Mid(d[1])
      BY <1>9, <3>2
    <3> QED BY <1>9, <2>1, <3>5, <3>6 DEF RingFollows
  <2>4. IsRing(r) /\ CrossingsOf(r) = AllOf(d, m)
    BY <1>0, <2>2, <2>3, StepsOfRing DEF IsRing
  <2>5. Turn(CrossingsOf(r)) = NewTurn /\ CrossingsOf(r) \cap AllDrawn = {} /\ F = AllDrawn \cup CrossingsOf(r)
    BY <1>9, <1>10, <2>1, <2>4
  <2>6. /\ shells' = shells \cup {x \in {r} : Turn(CrossingsOf(r)) > 0}
        /\ holes' = holes \cup {x \in {r} : Turn(CrossingsOf(r)) <= 0}
    BY <1>6, <1>13, <2>1, <2>5
  <2>7. RingsAreDrawn' /\ AllDrawn' = F
    BY <1>0, <1>2, <1>6, <2>4, <2>5, <2>6, RingJoins
  <2>8. LineIs(d, 0)' /\ AllOf(d, 0) = {}
    <3>1. line'.coords = <<>> /\ line'.direction = 0 /\ line'.pos = line'.orig
      BY <1>6, <1>13 DEF NoLine
    <3> QED BY <1>0, <1>6, <3>1, NoLineNext
  <2>9. PICK z : z = 0
    OBVIOUS
  <2>10. LineIs(d, z)' /\ F = AllDrawn' \cup AllOf(d, z) /\ AllDrawn' \cap AllOf(d, z) = {}
    BY <2>7, <2>8, <2>9
  <2>11. LinesAre(F)'
    BY <1>6, <2>7, <2>10 DEF LinesAre, AllOf
  <2> QED BY <1>6, <2>11 DEF DrawingInv
<1> QED BY <1>12, <1>13

(* The other steps.                                                        *)
LEMMA FindDraws == DrawingInv /\ FindLine => DrawingInv'
<1> SUFFICES ASSUME DrawingInv, FindLine PROVE DrawingInv'
  OBVIOUS
<1>0. IsolineState /\ ContourIsOfTheStep /\ discarded = 0
  BY DEF DrawingInv
<1>1. PICK E : LinesAre(E)
  BY DEF DrawingInv
<1>2. Trace(E) /\ RingsAreDrawn
  BY <1>1 DEF LinesAre
<1>3. UNCHANGED <<surface, request, cutoff, contour, found, shells, holes, isolines, discarded>> /\ AtRest
  BY DEF FindLine
<1>4. PICK c \in Lines : line' = [NoLine EXCEPT !.orig = c, !.pos = c]
  BY DEF FindLine
<1>5. /\ line'.orig = c /\ line'.pos = c /\ line'.coords = <<>> /\ line'.direction = 0
      /\ DOMAIN line' = {"orig", "pos", "start", "direction", "coords"}
  BY <1>4 DEF NoLine
<1>6. c \in Plain /\ c \in Cells(surface) /\ c \notin found
  BY DEF Lines, Plain
<1>7. Crossings' = Crossings /\ onward' = onward /\ Plain' = Plain
  BY <1>3, NothingMoved
<1>8. Trace(E)'
  <2>1. \A e \in E : LedTo(E, e)'
    BY <1>2, <1>3, <1>7 DEF Trace, LedTo
  <2>2. (line.pos = line.orig)' /\ (line.orig \notin found)' /\ found' = found
    BY <1>3, <1>5, <1>6
  <2> QED BY <1>2, <1>7, <2>1, <2>2 DEF Trace
<1>9. IsolineState' /\ ContourIsOfTheStep' /\ discarded' = 0
  BY <1>0, <1>3, <1>5, <1>6, <1>7 DEF IsolineState, ContourIsOfTheStep
<1>10. RingsAreDrawn' /\ AllDrawn' = AllDrawn
  BY <1>2, <1>3, RingsStay
<1>11. PICK d, n : LineIs(d, n) /\ E = AllDrawn \cup AllOf(d, n) /\ AllDrawn \cap AllOf(d, n) = {}
  BY <1>1 DEF LinesAre
<1>12. n = 0
  <2>1. line.pos = line.orig
    BY <1>3 DEF AtRest, NoLine
  <2> QED BY <1>11, <2>1 DEF LineIs
<1>13. LineIs(d, 0)' /\ AllOf(d, 0) = {}
  BY <1>0, <1>3, <1>5, NoLineNext
<1>14. LineIs(d, n)' /\ E = AllDrawn' \cup AllOf(d, n) /\ AllDrawn' \cap AllOf(d, n) = {}
  BY <1>10, <1>11, <1>12, <1>13
<1>15. LinesAre(E)'
  BY <1>8, <1>10, <1>14 DEF LinesAre, AllOf
<1> QED BY <1>9, <1>15 DEF DrawingInv

LEMMA SortDraws == DrawingInv /\ SortHoles => DrawingInv'
<1> SUFFICES ASSUME DrawingInv, SortHoles PROVE DrawingInv'
  OBVIOUS
<1>0. IsolineState /\ ContourIsOfTheStep /\ discarded = 0
  BY DEF DrawingInv
<1>1. IsolineState' /\ ContourIsOfTheStep' /\ discarded' = 0
  <2>1. \E E : Trace(E)
    BY DEF DrawingInv, LinesAre
  <2>2. IsolineInv
    BY <1>0, <2>1 DEF IsolineInv
  <2>3. IsolineInv'
    BY <2>2, SortKeeps
  <2> QED BY <2>3 DEF IsolineInv
<1>2. /\ line = NoLine /\ line' = NoLine /\ UNCHANGED surface /\ found' = {} /\ shells' = {} /\ holes' = {}
  BY DEF SortHoles, AtRest
<1>3. Trace({})'
  BY <1>2 DEF Trace, LedTo, AtRest
<1>4. PICK c : TRUE
  OBVIOUS
<1>5. line'.coords = <<>> /\ line'.direction = 0 /\ line'.pos = line'.orig
  BY <1>2 DEF NoLine
<1>6. LineIs(c, 0)' /\ AllOf(c, 0) = {}
  BY <1>0, <1>2, <1>5, NoLineNext
<1>7. RingsAreDrawn' /\ AllDrawn' = {}
  BY <1>2, FS_EmptySet DEF RingsAreDrawn, AllDrawn
<1>8. PICK z : z = 0
  OBVIOUS
<1>9. LineIs(c, z)' /\ {} = AllDrawn' \cup AllOf(c, z) /\ AllDrawn' \cap AllOf(c, z) = {}
  BY <1>6, <1>7, <1>8
<1>10. LinesAre({})'
  BY <1>3, <1>7, <1>9 DEF LinesAre, AllOf
<1> QED BY <1>1, <1>10 DEF DrawingInv

LEMMA NothingDraws == DrawingInv /\ UNCHANGED isolineVars => DrawingInv'
<1> SUFFICES ASSUME DrawingInv, UNCHANGED isolineVars PROVE DrawingInv'
  OBVIOUS
<1>1. UNCHANGED <<surface, request, cutoff, contour, found, line, shells, holes, isolines, discarded>>
  BY DEF isolineVars
<1>2. PICK E : LinesAre(E)
  BY DEF DrawingInv
<1>3. Crossings' = Crossings /\ onward' = onward /\ Plain' = Plain /\ \A R : Turn(R)' = Turn(R)
  BY <1>1, NothingMoved, TurnStays
<1>4. Trace(E)'
  BY <1>1, <1>2, <1>3 DEF LinesAre, Trace, LedTo, AtRest
<1>5. RingsAreDrawn' /\ AllDrawn' = AllDrawn
  BY <1>1, <1>2, RingsStay DEF LinesAre
<1>6. PICK c, n : LineIs(c, n) /\ E = AllDrawn \cup AllOf(c, n) /\ AllDrawn \cap AllOf(c, n) = {}
  BY <1>2 DEF LinesAre
<1>7. Turn(AllOf(c, n))' = Turn(AllOf(c, n))
  <2>1. PICK R : R = AllOf(c, n)
    OBVIOUS
  <2>2. AllOf(c, n)' = R
    BY <2>1 DEF AllOf
  <2> QED BY <1>3, <2>1, <2>2
<1>8. LineIs(c, n)'
  BY <1>1, <1>3, <1>6, <1>7 DEF LineIs, OneToOne, Mid
<1>9. LinesAre(E)'
  BY <1>4, <1>5, <1>6, <1>8 DEF LinesAre, AllOf
<1>10. IsolineState' /\ ContourIsOfTheStep' /\ discarded' = 0
  BY <1>1, <1>3 DEF DrawingInv, IsolineState, ContourIsOfTheStep, AtRest
<1> QED BY <1>9, <1>10 DEF DrawingInv

(* When no line is left to follow, what is not drawn turns in saddles. *)
LEMMA RestIsSaddles ==
  ASSUME DrawingInv, AtRest, Lines = {}
  PROVE  RingsAreDrawn /\ OnlySaddles(Crossings \ AllDrawn)
<1>0. ContourIsOfTheStep
  BY DEF DrawingInv
<1>1. PICK E : LinesAre(E)
  BY DEF DrawingInv
<1>2. Trace(E) /\ RingsAreDrawn
  BY <1>1 DEF LinesAre
<1>3. PICK d, n : LineIs(d, n) /\ E = AllDrawn \cup AllOf(d, n)
  BY <1>1 DEF LinesAre
<1>4. E = AllDrawn
  <2>1. line.pos = line.orig
    BY DEF AtRest, NoLine
  <2>2. n = 0
    BY <1>3, <2>1 DEF LineIs
  <2>3. AllOf(d, n) = {}
    BY <2>2 DEF AllOf
  <2> QED BY <1>3, <2>3
<1>5. ASSUME NEW e \in Crossings \ AllDrawn PROVE onward[e] \in Crossings \ AllDrawn
  <2>1. onward[e] \in Crossings
    BY <1>0, OnwardIsCrossing
  <2>2. ASSUME onward[e] \in E PROVE FALSE
    <3>1. PICK f \in E : onward[f] = onward[e]
      BY <1>2, <2>2 DEF Trace, LedTo
    <3>2. f \in Crossings
      BY <1>2 DEF Trace
    <3>3. f = e
      BY <1>0, <3>1, <3>2, OnwardIsOneToOne
    <3> QED BY <1>4, <3>3
  <2> QED BY <1>4, <2>1, <2>2
<1>6. ASSUME NEW e \in Crossings \ AllDrawn PROVE contour[e[1]] \in {5, 10}
  <2>1. e[1] \in Cells(surface) /\ Over(e[1], e[2])
    BY DEF Crossings
  <2>2. e[1] \notin Plain
    <3>1. SUFFICES ASSUME e[1] \in Plain PROVE FALSE
      OBVIOUS
    <3>2. e[1] \in found
      BY <2>1, <3>1 DEF Plain, Lines
    <3>3. PICK f \in E : f[1] = e[1]
      BY <1>2, <3>2 DEF Trace
    <3>4. f \in Crossings
      BY <1>2 DEF Trace
    <3>5. e = f
      BY <1>0, <3>1, <3>3, <3>4, OneWayOut
    <3> QED BY <1>4, <3>5
  <2>3. contour[e[1]] \in {0, 5, 10, 15}
    BY <2>1, <2>2 DEF Plain
  <2> QED BY <2>1, <2>3 DEF Over
<1> QED BY <1>2, <1>5, <1>6 DEF OnlySaddles

-----------------------------------------------------------------------------
(* The crossings of each ring. *)
RingParts == [r \in shells \cup holes |-> CrossingsOf(r)]

(* The rings are the loops that were drawn. *)
LEMMA RingsAreSorted ==
  ASSUME DrawingInv, AtRest, Lines = {}, NEW parts, parts = RingParts
  PROVE  /\ Sorted(shells, holes, parts) /\ shells \cap holes = {}
         /\ AllParts(shells \cup holes, parts) = AllDrawn
<1>0. ContourIsOfTheStep /\ RingsAreDrawn /\ OnlySaddles(Crossings \ AllDrawn)
  BY RestIsSaddles DEF DrawingInv
<1>1. \A r \in shells \cup holes : parts[r] = CrossingsOf(r)
  BY DEF RingParts
<1>2. AllParts(shells \cup holes, parts) = AllDrawn
  BY <1>1 DEF AllParts, AllDrawn
<1>3. \A r \in shells \cup holes : IsLoop(CrossingsOf(r))
  BY <1>0, StepsOfRing DEF RingsAreDrawn, IsRing
<1>4. ASSUME NEW s \in shells PROVE WindsLeft(CrossingsOf(s)) /\ s \notin holes
  <2>1. Turn(CrossingsOf(s)) > 0 /\ IsLoop(CrossingsOf(s))
    BY <1>0, <1>3 DEF RingsAreDrawn
  <2>2. PICK R : R = CrossingsOf(s)
    OBVIOUS
  <2>3. Turn(R) \in Int
    BY <1>0, LevelsAreFinite DEF Turn
  <2>4. ~(Turn(R) <= 0)
    BY <2>1, <2>2, <2>3
  <2>5. WindsLeft(R)
    BY <1>0, <2>1, <2>2, <2>4, LoopsWindOnce, RightIsNot
  <2>6. s \notin holes
    BY <1>0, <2>2, <2>4 DEF RingsAreDrawn
  <2> QED BY <2>2, <2>5, <2>6
<1>5. ASSUME NEW h \in holes PROVE WindsRight(CrossingsOf(h))
  <2>1. Turn(CrossingsOf(h)) <= 0 /\ IsLoop(CrossingsOf(h))
    BY <1>0, <1>3 DEF RingsAreDrawn
  <2>2. PICK R : R = CrossingsOf(h)
    OBVIOUS
  <2>3. ASSUME WindsLeft(R) PROVE FALSE
    <3>1. Turn(R) > 0 /\ Turn(R) <= 0
      BY <1>0, <2>1, <2>2, <2>3, LeftIsPositive
    <3>2. Turn(R) \in Int
      BY <1>0, LevelsAreFinite DEF Turn
    <3> QED BY <3>1, <3>2
  <2> QED BY <1>0, <2>1, <2>2, <2>3, LoopsWindOnce
<1>6. \A r, s \in shells \cup holes : r # s => parts[r] \cap parts[s] = {}
  BY <1>0, <1>1 DEF RingsAreDrawn
<1>7. IsFiniteSet(shells) /\ IsFiniteSet(holes)
  BY <1>0 DEF RingsAreDrawn
<1>8. \A r \in shells \cup holes : IsLoop(parts[r])
  BY <1>1, <1>3
<1>9. (\A s \in shells : WindsLeft(parts[s])) /\ (\A h \in holes : WindsRight(parts[h]))
  BY <1>1, <1>4, <1>5
<1>10. shells \cap holes = {}
  BY <1>4
<1> QED BY <1>0, <1>2, <1>6, <1>7, <1>8, <1>9, <1>10 DEF Sorted

(* A point of the grid is in a ring when the ring winds around it. *)
LEMMA PixelInRing ==
  ASSUME ContourIsOfTheStep, NEW r, IsRing(r), NEW x, NEW y, InGrid(x, y), NEW at, at = <<2 * x, 2 * y>>
  PROVE  pointinpolygon(at, r) <=> Winding(CrossingsOf(r), x, y) # 0
<1>1. PICK c, n : IsCycle(c, n) /\ RingFollows(r, c, n)
  BY DEF IsRing
<1>2. CrossingsOf(r) = {c[i] : i \in 1..n}
  BY <1>1, StepsOfRing
<1>3. PICK R : R = {c[i] : i \in 1..n}
  OBVIOUS
<1>4. pointinpolygon(at, r) <=> Winding(R, x, y) # 0
  BY <1>1, <1>3, InRing
<1>5. R = CrossingsOf(r)
  BY <1>2, <1>3
<1> QED BY ONLY <1>4, <1>5

(* So is where a ring that shares no crossing with it begins.               *)
LEMMA FirstInRing ==
  ASSUME ContourIsOfTheStep, NEW r, IsRing(r), NEW e \in Crossings, e \notin CrossingsOf(r), NEW at, at = Mid(e)
  PROVE  pointinpolygon(at, r) <=> WindingAt(CrossingsOf(r), InnerSide(e)) # 0
<1>1. PICK c, n : IsCycle(c, n) /\ RingFollows(r, c, n)
  BY DEF IsRing
<1>2. CrossingsOf(r) = {c[i] : i \in 1..n} /\ IsLoop(CrossingsOf(r))
  BY <1>1, StepsOfRing
<1>3. PICK R : R = {c[i] : i \in 1..n}
  OBVIOUS
<1>4. R = CrossingsOf(r) /\ e \notin R /\ IsClosed(R) /\ R \subseteq Crossings
  BY <1>2, <1>3, LoopIs
<1>5. WindingAt(R, InnerSide(e)) = WindingAt(R, OuterSide(e)) + (IF e \in R THEN 1 ELSE 0)
  BY <1>4, SidesDiffer
<1>6. PICK x, y \in Nat : IsAcross(e, x, y) \/ IsAlong(e, x, y)
  BY KindsOfCrossings
<1>7. InGrid(x, y)
  <2>1. surface.width \in Nat /\ surface.height \in Nat
    BY DEF ContourIsOfTheStep
  <2> QED BY <1>6, <2>1 DEF InGrid, IsAcross, IsAlong
<1>8. <<x, y>> \in {InnerSide(e), OuterSide(e)}
  <2>1. e \in {Downward(x, y), Upward(x, y), Forward(x, y), Backward(x, y)}
    BY <1>6 DEF IsAcross, IsAlong
  <2>2. /\ InnerSide(Downward(x, y)) = <<x, y>> /\ OuterSide(Upward(x, y)) = <<x, y>>
        /\ InnerSide(Forward(x, y)) = <<x, y>> /\ OuterSide(Backward(x, y)) = <<x, y>>
    <3>1. x \in Int /\ y \in Int
      OBVIOUS
    <3> QED BY <3>1, SidesAre
  <2>3. e = Downward(x, y) \/ e = Upward(x, y) \/ e = Forward(x, y) \/ e = Backward(x, y)
    BY <2>1
  <2> QED BY ONLY <2>2, <2>3
<1>9. pointinpolygon(at, r) <=> Winding(R, x, y) # 0
  <2>1. CASE IsAcross(e, x, y)
    <3>1. at = <<2 * x + 1, 2 * y>>
      BY <2>1, MiddlesAre DEF IsAcross
    <3>2. at \in {<<2 * x, 2 * y>>, <<2 * x + 1, 2 * y>>}
      BY ONLY <3>1
    <3>3. IsCycle(c, n) /\ RingFollows(r, c, n)
      BY <1>1
    <3>4. at \in {<<2 * x, 2 * y>>, <<2 * x + 1, 2 * y>>} => (pointinpolygon(at, r) <=> Winding(R, x, y) # 0)
      BY ONLY ContourIsOfTheStep, <3>3, <1>3, <1>7, InRing
    <3> QED BY ONLY <3>2, <3>4
  <2>2. CASE IsAlong(e, x, y)
    <3>1. at = <<2 * x, 2 * y + 1>>
      BY <2>2, MiddlesAre DEF IsAlong
    <3>2. \A f \in R : Mid(f) # at
      BY <1>4, MiddlesDiffer
    <3> QED BY <1>1, <1>3, <1>7, <3>1, <3>2, InRing
  <2> QED BY <1>6, <2>1, <2>2
<1>10. Winding(R, x, y) = WindingAt(R, InnerSide(e)) \/ Winding(R, x, y) = WindingAt(R, OuterSide(e))
  BY <1>8 DEF WindingAt
<1>11. WindingAt(R, OuterSide(e)) \in Int
  <2>1. IsPixel(OuterSide(e))
    BY SidesDiffer
  <2>2. PICK u, v : u = OuterSide(e)[1] /\ v = OuterSide(e)[2]
    OBVIOUS
  <2>3. u \in Nat
    BY <2>1, <2>2 DEF IsPixel, InGrid
  <2>4. Winding(R, u, v) \in Int
    BY <2>3, CrossedAreFinite
  <2> QED BY <2>2, <2>4 DEF WindingAt
<1>12. WindingAt(R, InnerSide(e)) = WindingAt(R, OuterSide(e))
  BY <1>4, <1>5, <1>11
<1>13. pointinpolygon(at, r) <=> WindingAt(R, InnerSide(e)) # 0
  BY ONLY <1>9, <1>10, <1>12
<1>14. R = CrossingsOf(r)
  BY <1>4
<1> QED BY ONLY <1>13, <1>14

(* The polygons of a step around a point, and those that cover it.         *)
Around(polygons, at) == {g \in polygons : pointinpolygon(at, g.shell)}

Covering(polygons, at) == {g \in Around(polygons, at) : \A h \in g.holes : ~pointinpolygon(at, h)}

(* What is claimed of a step. *)
StepIsExact(k, polygons) ==
  \A p \in Pixels(surface) :
    LET at == <<2 * p[1], 2 * p[2]>>
    IN IF InTime(surface, request, k, p) THEN Covering(polygons, at) # {}
       ELSE Lone(k, p) \/ Cardinality(Around(polygons, at)) > 1 \/ Covering(polygons, at) = {}

HolesIn(s) == {h \in holes : {t \in shells : pointinpolygon(h[1], t)} = {s}}

Polygons == {[shell |-> s, holes |-> HolesIn(s)] : s \in shells}

(* Where a hole begins. *)
LEMMA HolesBegin ==
  ASSUME ContourIsOfTheStep, NEW h, IsRing(h)
  PROVE  \E e \in CrossingsOf(h) : Mid(e) = h[1]
<1>1. PICK c, n : IsCycle(c, n) /\ RingFollows(h, c, n)
  BY DEF IsRing
<1>2. c[1] \in CrossingsOf(h) /\ h[1] = Mid(c[1])
  BY <1>1, StepsOfRing
<1> QED BY <1>2

FirstCrossing == [h \in holes |-> CHOOSE e \in CrossingsOf(h) : Mid(e) = h[1]]

(* The shells the code finds around a hole. *)
LEMMA ShellsAroundHole ==
  ASSUME DrawingInv, AtRest, Lines = {}, NEW parts, parts = RingParts, NEW first, first = FirstCrossing, NEW h \in holes
  PROVE  first[h] \in parts[h] /\ {t \in shells : pointinpolygon(h[1], t)} = ShellsOf(shells, parts, first[h])
<1>0. ContourIsOfTheStep /\ RingsAreDrawn /\ Sorted(shells, holes, parts) /\ shells \cap holes = {}
  BY RestIsSaddles, RingsAreSorted DEF DrawingInv
<1>1. \A r \in shells \cup holes : parts[r] = CrossingsOf(r) /\ IsRing(r)
  BY <1>0 DEF RingParts, RingsAreDrawn
<1>2. PICK e : e = first[h]
  OBVIOUS
<1>3. e \in CrossingsOf(h) /\ Mid(e) = h[1]
  <2>1. \E f \in CrossingsOf(h) : Mid(f) = h[1]
    BY <1>0, <1>1, HolesBegin
  <2>2. e = CHOOSE f \in CrossingsOf(h) : Mid(f) = h[1]
    BY <1>2 DEF FirstCrossing
  <2> QED BY <2>1, <2>2
<1>4. ASSUME NEW t \in shells PROVE pointinpolygon(h[1], t) <=> WindingAt(parts[t], InnerSide(first[h])) # 0
  <2>1. IsRing(t) /\ e \in Crossings /\ parts[t] = CrossingsOf(t)
    BY <1>1, <1>3 DEF CrossingsOf
  <2>2. e \notin CrossingsOf(t)
    <3>1. t # h
      BY <1>0
    <3> QED BY <1>0, <1>3, <3>1 DEF RingsAreDrawn
  <2>3. PICK at : at = Mid(e)
    OBVIOUS
  <2>4. pointinpolygon(at, t) <=> WindingAt(CrossingsOf(t), InnerSide(e)) # 0
    BY <1>0, <2>1, <2>2, <2>3, FirstInRing
  <2> QED BY ONLY <1>2, <1>3, <2>1, <2>3, <2>4
<1>5. {t \in shells : pointinpolygon(h[1], t)} = ShellsOf(shells, parts, first[h])
  BY <1>4 DEF ShellsOf
<1> QED BY <1>1, <1>2, <1>3, <1>5

(* A pixel that is missed is alone among pixels out of reach. *)
LEMMA MissedIsLone ==
  ASSUME ContourIsOfTheStep, OnlySaddles(Crossings \ AllDrawn), NEW x, NEW y, InGrid(x, y),
         x <= surface.width - 2, Upward(x, y) \in Crossings \ AllDrawn
  PROVE  Lone(cutoff, <<x, y>>)
<1>1. surface.width \in Nat /\ surface.height \in Nat
  BY DEF ContourIsOfTheStep
<1>2. x \in 0..(surface.width - 2) /\ y \in 0..(surface.height - 1)
  BY <1>1 DEF InGrid
<1>3. PICK U : U = Crossings \ AllDrawn
  OBVIOUS
<1>4. /\ x >= 1 /\ y >= 1 /\ y + 1 <= surface.height - 1
      /\ ~IsReached(x - 1, y - 1) /\ ~IsReached(x + 1, y - 1)
      /\ ~IsReached(x - 1, y + 1) /\ ~IsReached(x + 1, y + 1)
  BY <1>2, <1>3, SaddlesTurn
<1>5. ~Border(surface, <<x, y>>)
  BY <1>1, <1>2, <1>4 DEF Border
<1>6. /\ ~InTime(surface, request, cutoff, <<x + 1, y + 1>>) /\ ~InTime(surface, request, cutoff, <<x + 1, y + -1>>)
      /\ ~InTime(surface, request, cutoff, <<x + -1, y + 1>>) /\ ~InTime(surface, request, cutoff, <<x + -1, y + -1>>)
  <2>1. x + -1 = x - 1 /\ y + -1 = y - 1
    BY <1>2
  <2> QED BY <1>4, <2>1 DEF IsReached
<1> QED BY <1>5, <1>6 DEF Lone

(* What is sorted is exact. *)
LEMMA SortIsExact ==
  ASSUME DrawingInv, AtRest, Lines = {}, NEW polygons, polygons = Polygons
  PROVE  StepIsExact(cutoff, polygons)
<1> SUFFICES ASSUME NEW p \in Pixels(surface), NEW at, at = <<2 * p[1], 2 * p[2]>>
             PROVE  IF InTime(surface, request, cutoff, p) THEN Covering(polygons, at) # {}
                    ELSE Lone(cutoff, p) \/ Cardinality(Around(polygons, at)) > 1 \/ Covering(polygons, at) = {}
  BY DEF StepIsExact
<1>1. PICK parts, first : parts = RingParts /\ first = FirstCrossing
  OBVIOUS
<1>2. /\ ContourIsOfTheStep /\ RingsAreDrawn /\ OnlySaddles(Crossings \ AllDrawn)
      /\ Sorted(shells, holes, parts) /\ AllParts(shells \cup holes, parts) = AllDrawn
  BY <1>1, RestIsSaddles, RingsAreSorted DEF DrawingInv
<1>3. PICK x, y : x = p[1] /\ y = p[2]
  OBVIOUS
<1>4. p = <<x, y>> /\ InGrid(x, y) /\ at = <<2 * x, 2 * y>> /\ (InTime(surface, request, cutoff, p) <=> IsReached(x, y))
  <2>1. p = <<x, y>> /\ InGrid(x, y)
    BY <1>3 DEF Pixels, InGrid
  <2> QED BY <1>3, <2>1 DEF IsReached
<1>5. \A r \in shells \cup holes : pointinpolygon(at, r) <=> IsAround(parts, r, x, y)
  <2> TAKE r \in shells \cup holes
  <2>1. IsRing(r) /\ parts[r] = CrossingsOf(r)
    BY <1>1, <1>2 DEF RingsAreDrawn, RingParts
  <2>2. pointinpolygon(at, r) <=> Winding(CrossingsOf(r), x, y) # 0
    BY <1>2, <1>4, <2>1, PixelInRing
  <2> QED BY <2>1, <2>2 DEF IsAround
<1>6. \A h \in holes : /\ first[h] \in parts[h]
                       /\ {t \in shells : pointinpolygon(h[1], t)} = ShellsOf(shells, parts, first[h])
  BY <1>1, ShellsAroundHole
<1>7. \A s \in shells : HolesIn(s) = {h \in holes : ShellsOf(shells, parts, first[h]) = {s}}
  BY <1>6 DEF HolesIn
<1>8. CASE IsReached(x, y)
  <2>1. PICK s \in shells : /\ IsAround(parts, s, x, y)
                            /\ \A h \in holes : ShellsOf(shells, parts, first[h]) = {s} => ~IsAround(parts, h, x, y)
    BY <1>2, <1>4, <1>6, <1>8, ReachedIsCovered
  <2>2. PICK g : g = [shell |-> s, holes |-> HolesIn(s)]
    OBVIOUS
  <2>3. g \in polygons /\ g.shell = s /\ g.holes = HolesIn(s)
    BY <2>2 DEF Polygons
  <2>4. \A h \in g.holes : ~pointinpolygon(at, h)
    BY <1>5, <1>7, <2>1, <2>3
  <2>5. g \in Covering(polygons, at)
    BY <1>5, <2>1, <2>3, <2>4 DEF Covering, Around
  <2> QED BY <1>4, <1>8, <2>5
<1>9. CASE ~IsReached(x, y)
  <2>1. CASE Missed(shells \cup holes, parts, x, y)
    <3>1. Lone(cutoff, <<x, y>>)
      BY <1>2, <1>4, <2>1, MissedIsLone DEF Missed
    <3> QED BY <1>4, <1>9, <3>1
  <2>2. CASE ~Missed(shells \cup holes, parts, x, y)
    <3>1. SUFFICES ASSUME ~(Cardinality(Around(polygons, at)) > 1), NEW g \in Covering(polygons, at) PROVE FALSE
      BY <1>4, <1>9
    <3>2. PICK s \in shells : g = [shell |-> s, holes |-> HolesIn(s)]
      BY DEF Covering, Around, Polygons
    <3>3. g.shell = s /\ g.holes = HolesIn(s) /\ g \in Around(polygons, at)
      BY <3>2 DEF Covering
    <3>4. IsFiniteSet(Around(polygons, at)) /\ Cardinality(Around(polygons, at)) <= 1
      <4>1. IsFiniteSet(polygons)
        <5>1. PICK f : f = [t \in shells |-> [shell |-> t, holes |-> HolesIn(t)]]
          OBVIOUS
        <5>2. polygons = {f[t] : t \in shells}
          BY <5>1 DEF Polygons
        <5> QED BY <1>2, <5>2, ImageIsFinite DEF RingsAreDrawn
      <4>2. Around(polygons, at) \subseteq polygons
        BY DEF Around
      <4>3. IsFiniteSet(Around(polygons, at))
        BY <4>1, <4>2, FS_Subset
      <4> QED BY <3>1, <4>3, FS_CardinalityType
    <3>5. AllAround(shells, parts, x, y) = {s}
      <4>1. s \in AllAround(shells, parts, x, y)
        BY <1>5, <3>3 DEF AllAround, Around
      <4>2. ASSUME NEW t \in AllAround(shells, parts, x, y) PROVE t = s
        <5>1. PICK b : b = [shell |-> t, holes |-> HolesIn(t)]
          OBVIOUS
        <5>2. b \in polygons /\ b.shell = t /\ t \in shells
          BY <5>1 DEF Polygons, AllAround
        <5>3. b \in Around(polygons, at)
          BY <1>5, <5>2 DEF AllAround, Around
        <5>4. b = g
          BY <3>3, <3>4, <5>3, AtMostOne
        <5> QED BY <3>3, <5>2, <5>4
      <4> QED BY <4>1, <4>2
    <3>6. PICK h \in holes : ShellsOf(shells, parts, first[h]) = {s} /\ IsAround(parts, h, x, y)
      <4>1. PICK S, H : S = shells /\ H = holes
        OBVIOUS
      <4>2. /\ Sorted(S, H, parts) /\ ~Missed(S \cup H, parts, x, y) /\ OnlyAround(S, parts, x, y, s)
            /\ BeginsIn(first, H, parts)
        BY <1>2, <1>6, <2>2, <3>5, <4>1 DEF OnlyAround, BeginsIn
      <4>3. ContourIsOfTheStep /\ InGrid(x, y)
        BY <1>2, <1>4
      <4>4. HoleAround(S, H, parts, first, s, x, y)
        BY ONLY <1>9, <4>2, <4>3, OutOfReachIsNot
      <4> QED BY <4>1, <4>4 DEF HoleAround
    <3>7. h \in g.holes /\ pointinpolygon(at, h)
      BY <1>5, <1>7, <3>3, <3>6
    <3> QED BY <3>7 DEF Covering
  <2> QED BY <2>1, <2>2
<1> QED BY <1>8, <1>9

-----------------------------------------------------------------------------
(* Each step done is one that was asked for, and exact. *)
ExactInv ==
  /\ DrawingInv
  /\ \A k \in DOMAIN isolines : k \in cutoffs(request) /\ StepIsExact(k, isolines[k])

LEMMA StepsStay ==
  ASSUME UNCHANGED <<surface, request>>
  PROVE  \A k, q : StepIsExact(k, q)' <=> StepIsExact(k, q)
<1> SUFFICES ASSUME NEW k, NEW q PROVE StepIsExact(k, q)' <=> StepIsExact(k, q)
  OBVIOUS
<1>1. \A p : Lone(k, p)' <=> Lone(k, p)
  BY DEF Lone
<1> QED BY <1>1 DEF StepIsExact, Around, Covering

LEMMA ExactStays == ExactInv /\ DrawingInv' /\ UNCHANGED <<surface, request, isolines>> => ExactInv'
<1> SUFFICES ASSUME ExactInv, DrawingInv', UNCHANGED <<surface, request, isolines>> PROVE ExactInv'
  OBVIOUS
<1>1. ASSUME NEW k \in DOMAIN isolines' PROVE k \in cutoffs(request') /\ StepIsExact(k, isolines[k])'
  <2>1. PICK q : q = isolines[k]
    OBVIOUS
  <2>2. k \in cutoffs(request) /\ StepIsExact(k, q)
    BY <2>1 DEF ExactInv
  <2>3. StepIsExact(k, q)'
    BY <2>2, StepsStay
  <2>4. StepIsExact(k, isolines[k])' <=> StepIsExact(k, q)'
    BY <2>1 DEF StepIsExact, Around, Covering
  <2> QED BY <2>2, <2>3, <2>4
<1> QED BY <1>1 DEF ExactInv

LEMMA SortStaysExact == ExactInv /\ SortHoles => ExactInv'
<1> SUFFICES ASSUME ExactInv, SortHoles PROVE ExactInv'
  OBVIOUS
<1>1. DrawingInv' /\ DrawingInv
  BY SortDraws DEF ExactInv
<1>2. AtRest /\ Lines = {} /\ cutoff \in cutoffs(request) /\ UNCHANGED <<surface, request>>
  BY DEF SortHoles, Working
<1>3. PICK x : x = Polygons
  OBVIOUS
<1>4. isolines' = Append(isolines, x)
  BY <1>3 DEF SortHoles, Polygons, HolesIn
<1>5. StepIsExact(cutoff, x)
  BY <1>1, <1>2, <1>3, SortIsExact
<1>6. Len(isolines) = cutoff - 1 /\ cutoff \in Nat
  BY <1>1 DEF DrawingInv, IsolineState
<1>7. PICK S : isolines \in Seq(S)
  BY <1>1 DEF DrawingInv, IsolineState
<1>8. isolines \in Seq(S \cup {x})
  BY <1>7, Zenon, SeqMonotonic
<1>9. DOMAIN isolines' = 1..cutoff /\ isolines'[cutoff] = x /\ \A k \in 1..(cutoff - 1) : k \in DOMAIN isolines /\ isolines'[k] = isolines[k]
  BY <1>4, <1>6, <1>8
<1>10. ASSUME NEW k \in DOMAIN isolines' PROVE k \in cutoffs(request') /\ StepIsExact(k, isolines[k])'
  <2>1. PICK q : q = isolines'[k]
    OBVIOUS
  <2>2. k \in cutoffs(request) /\ StepIsExact(k, q)
    <3>1. CASE k = cutoff
      <4>1. q = x
        BY <1>9, <2>1, <3>1
      <4> QED BY <1>2, <1>5, <3>1, <4>1
    <3>2. CASE k # cutoff
      <4>1. k \in 1..(cutoff - 1)
        BY <1>6, <1>9, <3>2
      <4>2. k \in DOMAIN isolines /\ q = isolines[k]
        BY <1>9, <2>1, <4>1
      <4> QED BY <4>2 DEF ExactInv
    <3> QED BY <3>1, <3>2
  <2>3. StepIsExact(k, q)'
    BY <1>2, <2>2, StepsStay
  <2>4. StepIsExact(k, isolines[k])' <=> StepIsExact(k, q)'
    BY <2>1 DEF StepIsExact, Around, Covering
  <2> QED BY <1>2, <2>2, <2>3, <2>4
<1> QED BY <1>1, <1>10 DEF ExactInv

LEMMA ExactInvariance == IsolineSpec => []ExactInv
<1>1. IsolineInit => ExactInv
  BY DrawingInit DEF IsolineInit, ExactInv
<1>2. ExactInv /\ [IsolineNext]_isolineVars => ExactInv'
  <2> SUFFICES ASSUME ExactInv, [IsolineNext]_isolineVars PROVE ExactInv'
    OBVIOUS
  <2>0. DrawingInv
    BY DEF ExactInv
  <2>1. CASE FindLine
    BY <2>0, <2>1, FindDraws, ExactStays DEF FindLine
  <2>2. CASE FollowLine
    BY <2>0, <2>2, FollowDraws, ExactStays DEF FollowLine
  <2>3. CASE SortHoles
    BY <2>3, SortStaysExact
  <2>4. CASE UNCHANGED isolineVars
    BY <2>0, <2>4, NothingDraws, ExactStays DEF isolineVars
  <2> QED BY <2>1, <2>2, <2>3, <2>4 DEF IsolineNext
<1> QED BY <1>1, <1>2, PTL DEF IsolineSpec

(* jsoline.py: a line never gets out of the grid. *)
THEOREM IsolinesAreTyped == IsolineSpec => []IsolineTypeOK
<1>1. ExactInv => IsolineTypeOK
  <2> SUFFICES ASSUME ExactInv PROVE IsolineTypeOK
    OBVIOUS
  <2>0. IsolineState /\ ContourIsOfTheStep /\ discarded = 0 /\ \E E : Trace(E)
    BY DEF ExactInv, DrawingInv, LinesAre
  <2>1. DOMAIN contour = Cells(surface) /\ \A c \in Cells(surface) : contour[c] \in 0..15
    <3>1. \A c \in Cells(surface) : contour[c] \in 0..15
      BY <2>0, CornersOfCells DEF ContourIsOfTheStep
    <3>2. DOMAIN contour = Cells(surface)
      BY <2>0 DEF ContourIsOfTheStep, get_contour
    <3> QED BY <3>1, <3>2
  <2>2. found \subseteq Cells(surface)
    BY <2>0 DEF Trace, Plain
  <2>3. AtRest \/ (line.pos \in Cells(surface) /\ line.orig \in Cells(surface))
    BY <2>0 DEF IsolineState, Plain
  <2> QED BY <2>0, <2>1, <2>2, <2>3 DEF IsolineState, IsolineTypeOK
<1> QED BY <1>1, ExactInvariance, PTL

(* With more steps it takes longer. *)
LEMMA ProductGrows ==
  ASSUME NEW k \in Nat, NEW n \in Nat, NEW t \in Nat
  PROVE  /\ k <= n => k * t <= n * t
         /\ n + 1 <= k => n * t + t <= k * t
<1>1. ASSUME NEW a \in Nat, NEW b \in Nat, a <= b PROVE a * t <= b * t
  <2>1. PICK d \in Nat : d = b - a
    <3>1. b - a \in Nat
      BY <1>1
    <3> QED BY <3>1
  <2>2. (a + d) * t = a * t + d * t
    OBVIOUS
  <2>3. d * t \in Nat /\ a * t \in Nat /\ b = a + d
    BY <2>1
  <2> QED BY <2>2, <2>3
<1>2. n + 1 <= k => (n + 1) * t <= k * t
  BY <1>1
<1>3. (n + 1) * t = n * t + t
  OBVIOUS
<1> QED BY <1>1, <1>2, <1>3

(* With no more steps than minutes, the steps are those asked for. *)
LEMMA StepsAre ==
  ASSUME NEW r, r[1] \in Nat, r[2] \in Nat, r[2] <= r[1]
  PROVE  \A k \in Nat : k # 0 => (k \in cutoffs(r) <=> k <= r[2])
<1> SUFFICES ASSUME NEW k \in Nat, k # 0 PROVE k \in cutoffs(r) <=> k <= r[2]
  OBVIOUS
<1>1. PICK t, n \in Nat : t = r[1] /\ n = r[2]
  OBVIOUS
<1>2. /\ k <= n => k * t <= n * t
      /\ n + 1 <= k => n * t + t <= k * t
  BY <1>1, ProductGrows
<1>3. k * t \in Nat /\ n * t \in Nat /\ (t + 1) * n = n * t + n
  BY <1>1
<1>4. k \in cutoffs(r) <=> k <= 2 * n + 1 /\ k * t < (t + 1) * n
  BY <1>1 DEF cutoffs
<1>5. CASE k <= n
  BY <1>1, <1>2, <1>3, <1>4, <1>5
<1>6. CASE n + 1 <= k
  BY <1>1, <1>2, <1>3, <1>4, <1>6
<1> QED BY <1>1, <1>5, <1>6

(* jsoline.py: the polygons of a step are what is reached in its time.      *)
THEOREM PolygonsEncloseWhatIsReached == IsolineSpec => []IsolinesEncloseWhatIsReached
<1>1. ExactInv => IsolinesEncloseWhatIsReached
  <2> SUFFICES ASSUME ExactInv PROVE IsolinesEncloseWhatIsReached
    OBVIOUS
  <2>1. DrawingInv /\ discarded = 0 /\ Len(isolines) = cutoff - 1 /\ cutoff \in Nat /\ <<surface, request>> \in Answers
    BY DEF ExactInv, DrawingInv, IsolineState
  <2>2. request[1] \in Nat /\ request[2] \in Int
    <3>1. PICK a \in Answers : a = <<surface, request>>
      BY <2>1
    <3> QED BY <3>1, AnswersAssumption
  <2>3. PICK S : isolines \in Seq(S)
    BY <2>1 DEF DrawingInv, IsolineState
  <2>4. DOMAIN isolines = 1..(cutoff - 1) /\ cutoff # 0
    BY <2>1, <2>3
  <2>5. ASSUME ~Working, request[2] \in 1..request[1] PROVE Len(isolines) = request[2]
    <3>0. request[2] \in Nat /\ request[2] <= request[1]
      BY <2>2, <2>5
    <3>1. \A k \in Nat : k # 0 => (k \in cutoffs(request) <=> k <= request[2])
      BY <2>2, <3>0, StepsAre
    <3>2. ~(cutoff <= request[2])
      BY <2>1, <2>4, <2>5, <3>1 DEF Working
    <3>3. ~(cutoff - 1 > request[2])
      <4>1. SUFFICES ASSUME cutoff - 1 > request[2] PROVE FALSE
        OBVIOUS
      <4>2. PICK k : k = request[2] + 1
        OBVIOUS
      <4>3. k \in 1..(cutoff - 1) /\ k \in Nat /\ k # 0 /\ ~(k <= request[2])
        BY <2>1, <2>2, <3>0, <4>1, <4>2
      <4>4. k \in cutoffs(request)
        BY <2>4, <4>3 DEF ExactInv
      <4> QED BY <3>1, <4>3, <4>4
    <3> QED BY <2>1, <2>2, <3>0, <3>2, <3>3
  <2>6. \A k \in DOMAIN isolines : StepIsExact(k, isolines[k])
    BY DEF ExactInv
  <2> QED BY <2>1, <2>5, <2>6 DEF IsolinesEncloseWhatIsReached, StepIsExact, Around, Covering
<1> QED BY <1>1, ExactInvariance, PTL

=============================================================================
