----------------------------- MODULE ToolsProofs -----------------------------
(***************************************************************************)
(* What the tools of operators promise holds for any input: lists of       *)
(* street networks, shared contents, joins and flows, aggregation, trips   *)
(* counted at stops, classes of stations and places, cut edges, requests   *)
(* and heatmaps.  Sums over finite sets are told apart from their          *)
(* definition by induction: the subsets for which a claim holds are a set  *)
(* (Good), and the least subset outside of it cannot be.                   *)
(***************************************************************************)
EXTENDS Admission, Heatmap, Stations, Sharing, StreetNetwork, FiniteSetTheorems,
        SequenceTheorems, NaturalsInduction, WellFoundedInduction, TLAPS

-----------------------------------------------------------------------------
(* The least of some numbers.                                              *)
LEMMA LeastExists ==
  ASSUME NEW S \in SUBSET Nat, S # {}
  PROVE  \E x \in S : \A y \in S : x <= y
<1> DEFINE R == {ss \in Nat \X Nat : ss[1] < ss[2]}
<1>1. IsWellFoundedOn(R, Nat)
  BY NatLessThanWellFounded DEF OpToRel
<1>2. PICK x \in S : \A y \in S : ~(<<y, x>> \in R)
  <2> HIDE DEF R
  <2> QED BY <1>1, WFMin
<1>3. \A y \in S : x <= y
  <2> TAKE y \in S
  <2>1. ~(<<y, x>> \in R)
    BY <1>2
  <2> QED BY <2>1
<1> QED BY <1>3

-----------------------------------------------------------------------------
(* Cut lines.  Two stops on a line with none between them.                 *)
StopsOn(path, cuts) == {1, Len(path)} \cup {i \in DOMAIN path : path[i] \in cuts}

NextTo(S, a, b) == a \in S /\ b \in S /\ a < b /\ \A c \in S : c <= a \/ c >= b

(* Every step between the first of some numbers and the last lies between  *)
(* two that are next to each other.                                        *)
LEMMA StepIsBetween ==
  ASSUME NEW S \in SUBSET Nat, NEW i \in Nat, \E a \in S : a <= i, \E b \in S : i < b
  PROVE  \E a, b \in S : NextTo(S, a, b) /\ a <= i /\ i < b
<1> DEFINE Below == {i - s : s \in {t \in S : t <= i}}
           Above == {s \in S : i < s}
<1>1. Below \in SUBSET Nat /\ Below # {} /\ Above \in SUBSET Nat /\ Above # {}
  <2>1. \A s \in S : s \in Nat /\ (s <= i => i - s \in Nat)
    OBVIOUS
  <2> QED BY <2>1
<1>2. PICK d \in Below : \A y \in Below : d <= y
  <2> HIDE DEF Below, Above
  <2> QED BY <1>1, LeastExists
<1>3. PICK b \in Above : \A y \in Above : b <= y
  <2> HIDE DEF Below, Above
  <2> QED BY <1>1, LeastExists
<1>4. PICK a \in S : a <= i /\ d = i - a
  OBVIOUS
<1>5. \A c \in S : c <= a \/ c >= b
  <2> TAKE c \in S
  <2>1. CASE c <= i
    <3>1. i - c \in Below
      BY <2>1
    <3>2. i - a <= i - c /\ a \in Nat /\ c \in Nat
      BY <1>2, <1>4, <3>1
    <3> QED BY <3>2
  <2>2. CASE i < c
    BY <1>3, <2>2
  <2> QED BY <2>1, <2>2
<1> QED BY <1>3, <1>4, <1>5 DEF NextTo

LEMMA PiecesAreBetweenStops ==
  ASSUME NEW path, NEW cuts, NEW q
  PROVE  q \in Pieces(path, cuts) <=>
           \E a, b \in StopsOn(path, cuts) : NextTo(StopsOn(path, cuts), a, b) /\ q = SubSeq(path, a, b)
<1> DEFINE S == StopsOn(path, cuts)
           T == {y \in S \X S : y[1] < y[2] /\ \A c \in S : c <= y[1] \/ c >= y[2]}
<1>1. Pieces(path, cuts) = {SubSeq(path, x[1], x[2]) : x \in T}
  BY DEF Pieces, StopsOn
<1>2. ASSUME NEW x \in T PROVE x[1] \in S /\ x[2] \in S /\ NextTo(S, x[1], x[2])
  BY DEF NextTo
<1>3. ASSUME NEW a \in S, NEW b \in S, NextTo(S, a, b)
      PROVE  SubSeq(path, a, b) \in {SubSeq(path, x[1], x[2]) : x \in T}
  <2>1. PICK x : x = <<a, b>>
    OBVIOUS
  <2>2. x \in S \X S /\ x[1] = a /\ x[2] = b
    BY <2>1
  <2>3. x \in T
    BY <1>3, <2>2 DEF NextTo
  <2> HIDE DEF T
  <2> QED BY <2>2, <2>3
<1> HIDE DEF T
<1> QED BY <1>1, <1>2, <1>3

LEMMA StopsAreOnTheLine ==
  ASSUME NEW path, Line(path), NEW cuts
  PROVE  /\ Len(path) \in Nat /\ Len(path) >= 2 /\ DOMAIN path = 1..Len(path)
         /\ \A i \in 1..Len(path) : path[i] \in Nat \ {0}
         /\ StopsOn(path, cuts) \in SUBSET (1..Len(path))
         /\ 1 \in StopsOn(path, cuts) /\ Len(path) \in StopsOn(path, cuts)
         /\ \A i \in 1..Len(path) : path[i] \in cuts => i \in StopsOn(path, cuts)
         /\ \A i \in StopsOn(path, cuts) : path[i] \in Ends(path) \cup cuts
<1>1. /\ Len(path) \in Nat /\ Len(path) >= 2 /\ DOMAIN path = 1..Len(path)
      /\ \A i \in 1..Len(path) : path[i] \in Nat \ {0}
  BY DEF Line
<1>2. StopsOn(path, cuts) = {1, Len(path)} \cup {i \in 1..Len(path) : path[i] \in cuts}
  BY <1>1 DEF StopsOn
<1>3. Ends(path) = {path[1], path[Len(path)]} /\ 1 \in 1..Len(path) /\ Len(path) \in 1..Len(path)
  BY <1>1 DEF Ends, First, Final
<1>4. \A i \in StopsOn(path, cuts) : path[i] \in Ends(path) \cup cuts
  BY <1>2, <1>3
<1>5. \A i \in 1..Len(path) : path[i] \in cuts => i \in StopsOn(path, cuts)
  BY <1>2
<1>6. /\ StopsOn(path, cuts) \in SUBSET (1..Len(path))
      /\ 1 \in StopsOn(path, cuts) /\ Len(path) \in StopsOn(path, cuts)
  BY <1>2, <1>3
<1> QED BY <1>1, <1>4, <1>5, <1>6

(* A piece is the line from one stop to the next.                          *)
LEMMA PieceBetweenStops ==
  ASSUME NEW path, Line(path), NEW cuts,
         NEW a, NEW b, NextTo(StopsOn(path, cuts), a, b)
  PROVE  /\ a \in 1..Len(path) /\ b \in 1..Len(path) /\ a < b
         /\ Line(SubSeq(path, a, b)) /\ Len(SubSeq(path, a, b)) = b - a + 1
         /\ \A i \in 1..(b - a + 1) : SubSeq(path, a, b)[i] = path[a + i - 1]
         /\ First(SubSeq(path, a, b)) = path[a] /\ Final(SubSeq(path, a, b)) = path[b]
<1>1. a \in 1..Len(path) /\ b \in 1..Len(path) /\ a < b /\ Len(path) \in Nat
  BY StopsAreOnTheLine DEF NextTo
<1>2. path \in Seq(Nat \ {0})
  BY DEF Line
<1>3. \A i \in a..b : i \in 1..Len(path)
  BY <1>1
<1>4. /\ SubSeq(path, a, b) \in Seq(Nat \ {0})
      /\ Len(SubSeq(path, a, b)) = b - a + 1
      /\ \A i \in 1..(b - a + 1) : SubSeq(path, a, b)[i] = path[a + i - 1]
  BY <1>1, <1>2, <1>3, SubSeqProperties
<1>5. 1 \in 1..(b - a + 1) /\ b - a + 1 \in 1..(b - a + 1) /\ a + 1 - 1 = a /\ a + (b - a + 1) - 1 = b
  BY <1>1
<1>6. SubSeq(path, a, b)[1] = path[a] /\ SubSeq(path, a, b)[b - a + 1] = path[b]
  BY <1>4, <1>5
<1>7. b - a + 1 >= 2
  BY <1>1
<1> QED BY <1>1, <1>4, <1>6, <1>7 DEF Line, First, Final

(* A piece is a line along the whole one, and ends where that ends or is   *)
(* cut.                                                                    *)
LEMMA PieceIsALine ==
  ASSUME NEW path, Line(path), NEW cuts, NEW q \in Pieces(path, cuts)
  PROVE  /\ Line(q) /\ PointsOf(q) \subseteq PointsOf(path)
         /\ Ends(q) \subseteq Ends(path) \cup cuts
<1>1. PICK a, b \in StopsOn(path, cuts) : NextTo(StopsOn(path, cuts), a, b) /\ q = SubSeq(path, a, b)
  BY PiecesAreBetweenStops
<1>2. /\ a \in 1..Len(path) /\ b \in 1..Len(path) /\ a < b
      /\ Line(q) /\ Len(q) = b - a + 1
      /\ \A i \in 1..(b - a + 1) : q[i] = path[a + i - 1]
      /\ First(q) = path[a] /\ Final(q) = path[b]
  BY <1>1, PieceBetweenStops
<1>3. DOMAIN q = 1..(b - a + 1) /\ DOMAIN path = 1..Len(path) /\ Len(path) \in Nat
  BY <1>2, StopsAreOnTheLine DEF Line
<1>4. \A i \in DOMAIN q : a + i - 1 \in DOMAIN path
  BY <1>2, <1>3
<1>5. PointsOf(q) \subseteq PointsOf(path)
  BY <1>2, <1>3, <1>4 DEF PointsOf, Range
<1>6. path[a] \in Ends(path) \cup cuts /\ path[b] \in Ends(path) \cup cuts
  BY <1>1, StopsAreOnTheLine
<1> QED BY <1>2, <1>5, <1>6 DEF Ends

(* The pieces run along the line and nothing else.                         *)
LEMMA PiecesKeepSegments ==
  ASSUME NEW path, Line(path), NEW cuts
  PROVE  UNION {Segments(q) : q \in Pieces(path, cuts)} = Segments(path)
<1>1. ASSUME NEW q \in Pieces(path, cuts) PROVE Segments(q) \subseteq Segments(path)
  <2>1. PICK a, b \in StopsOn(path, cuts) : NextTo(StopsOn(path, cuts), a, b) /\ q = SubSeq(path, a, b)
    BY PiecesAreBetweenStops
  <2>2. /\ a \in 1..Len(path) /\ b \in 1..Len(path) /\ a < b
        /\ Len(q) = b - a + 1
        /\ \A i \in 1..(b - a + 1) : q[i] = path[a + i - 1]
    BY <2>1, PieceBetweenStops
  <2>3. Len(path) \in Nat
    BY StopsAreOnTheLine
  <2>4. ASSUME NEW i \in 1..(Len(q) - 1)
        PROVE  \E k \in 1..(Len(path) - 1) : q[i] = path[k] /\ q[i + 1] = path[k + 1]
    <3>1. i \in 1..(b - a + 1) /\ i + 1 \in 1..(b - a + 1) /\ a + i - 1 \in 1..(Len(path) - 1)
          /\ a + (i + 1) - 1 = (a + i - 1) + 1
      BY <2>2, <2>3
    <3>2. q[i] = path[a + i - 1] /\ q[i + 1] = path[(a + i - 1) + 1]
      BY <2>2, <3>1
    <3> QED BY <3>1, <3>2
  <2> QED BY <2>4 DEF Segments
<1>2. ASSUME NEW i \in 1..(Len(path) - 1)
      PROVE  \E q \in Pieces(path, cuts) : {path[i], path[i + 1]} \in Segments(q)
  <2>1. /\ StopsOn(path, cuts) \in SUBSET Nat /\ i \in Nat
        /\ \E a \in StopsOn(path, cuts) : a <= i
        /\ \E b \in StopsOn(path, cuts) : i < b
    BY StopsAreOnTheLine
  <2>2. PICK a, b \in StopsOn(path, cuts) : NextTo(StopsOn(path, cuts), a, b) /\ a <= i /\ i < b
    BY <2>1, StepIsBetween
  <2>3. PICK q : q = SubSeq(path, a, b)
    OBVIOUS
  <2>4. q \in Pieces(path, cuts)
    BY <2>2, <2>3, PiecesAreBetweenStops
  <2>5. /\ a \in 1..Len(path) /\ b \in 1..Len(path) /\ a < b
        /\ Len(q) = b - a + 1
        /\ \A k \in 1..(b - a + 1) : q[k] = path[a + k - 1]
    BY <2>2, <2>3, PieceBetweenStops
  <2>6. /\ i - a + 1 \in 1..(Len(q) - 1) /\ i - a + 1 \in 1..(b - a + 1) /\ i - a + 1 + 1 \in 1..(b - a + 1)
        /\ a + (i - a + 1) - 1 = i /\ a + (i - a + 1 + 1) - 1 = i + 1
    BY <2>2, <2>5
  <2>7. q[i - a + 1] = path[i] /\ q[i - a + 1 + 1] = path[i + 1]
    BY <2>5, <2>6
  <2>8. {path[i], path[i + 1]} \in Segments(q)
    BY <2>6, <2>7 DEF Segments
  <2> QED BY <2>4, <2>8
<1>3. Segments(path) \subseteq UNION {Segments(q) : q \in Pieces(path, cuts)}
  <2>1. ASSUME NEW g \in Segments(path) PROVE g \in UNION {Segments(q) : q \in Pieces(path, cuts)}
    <3>1. PICK i \in 1..(Len(path) - 1) : g = {path[i], path[i + 1]}
      BY DEF Segments
    <3> QED BY <1>2, <3>1
  <2> QED BY <2>1
<1> QED BY <1>1, <1>3

(* Every point is on a piece, and those where the line ends or is cut are  *)
(* ends of one.                                                            *)
LEMMA PointIsOnAPiece ==
  ASSUME NEW path, Line(path), NEW cuts, NEW p \in PointsOf(path)
  PROVE  /\ \E q \in Pieces(path, cuts) : p \in PointsOf(q)
         /\ p \in Ends(path) \cup cuts => \E q \in Pieces(path, cuts) : p \in Ends(q)
<1>1. /\ Len(path) \in Nat /\ Len(path) >= 2 /\ DOMAIN path = 1..Len(path)
      /\ StopsOn(path, cuts) \in SUBSET Nat
      /\ 1 \in StopsOn(path, cuts) /\ Len(path) \in StopsOn(path, cuts)
  BY StopsAreOnTheLine
<1>2. PICK i \in 1..Len(path) : p = path[i] /\ (p \in Ends(path) \cup cuts => i \in StopsOn(path, cuts))
  <2>1. PICK i \in 1..Len(path) : p = path[i]
    BY <1>1 DEF PointsOf, Range
  <2>2. CASE p \in cuts
    BY <2>1, <2>2, StopsAreOnTheLine
  <2>3. CASE p \in Ends(path)
    BY <1>1, <2>3 DEF Ends, First, Final
  <2> QED BY <2>1, <2>2, <2>3
<1>3. PICK k \in 1..(Len(path) - 1) : i = k \/ (i = Len(path) /\ k = i - 1)
  <2>1. CASE i = Len(path)
    <3>1. i - 1 \in 1..(Len(path) - 1)
      BY <1>1, <2>1
    <3> QED BY <2>1, <3>1
  <2>2. CASE i # Len(path)
    <3>1. Len(path) \in Nat /\ i \in 1..Len(path)
      BY <1>1
    <3>2. i \in 1..(Len(path) - 1)
      BY <2>2, <3>1
    <3> QED BY <3>2
  <2> QED BY <2>1, <2>2
<1>4. k \in Nat /\ (\E a \in StopsOn(path, cuts) : a <= k) /\ \E b \in StopsOn(path, cuts) : k < b
  BY <1>1
<1>5. PICK a, b \in StopsOn(path, cuts) : NextTo(StopsOn(path, cuts), a, b) /\ a <= k /\ k < b
  BY <1>1, <1>4, StepIsBetween
<1>6. PICK q : q = SubSeq(path, a, b)
  OBVIOUS
<1>7. q \in Pieces(path, cuts)
  BY <1>5, <1>6, PiecesAreBetweenStops
<1>8. /\ a \in 1..Len(path) /\ b \in 1..Len(path) /\ a < b /\ Line(q)
      /\ Len(q) = b - a + 1
      /\ \A j \in 1..(b - a + 1) : q[j] = path[a + j - 1]
      /\ First(q) = path[a] /\ Final(q) = path[b]
  BY <1>5, <1>6, PieceBetweenStops
<1>9. i - a + 1 \in 1..(b - a + 1) /\ a + (i - a + 1) - 1 = i
  <2>1. a \in Nat /\ b \in Nat /\ i \in Nat /\ k \in Nat
    BY <1>1, <1>8
  <2>2. i = k \/ i = k + 1
    BY <1>3, <2>1
  <2>3. a <= k /\ k < b
    BY <1>5
  <2> QED BY <2>1, <2>2, <2>3
<1>10. q[i - a + 1] = p /\ DOMAIN q = 1..(b - a + 1)
  <2>1. DOMAIN q = 1..(b - a + 1)
    BY <1>8 DEF Line
  <2>2. q[i - a + 1] = path[a + (i - a + 1) - 1]
    BY <1>8, <1>9
  <2> QED BY <1>2, <1>9, <2>1, <2>2
<1>11. p \in PointsOf(q)
  BY <1>9, <1>10 DEF PointsOf, Range
<1>12. ASSUME i \in StopsOn(path, cuts) PROVE p \in Ends(q)
  <2>1. i <= a \/ i >= b
    BY <1>5, <1>12 DEF NextTo
  <2>2. i = a \/ i = b
    BY <1>3, <1>5, <1>8, <2>1
  <2> QED BY <1>2, <1>8, <2>2 DEF Ends
<1> QED BY <1>2, <1>7, <1>11, <1>12

LEMMA SomePiece ==
  ASSUME NEW path, Line(path), NEW cuts
  PROVE  Pieces(path, cuts) # {}
<1>1. path[1] \in PointsOf(path)
  BY StopsAreOnTheLine DEF PointsOf, Range
<1> QED BY <1>1, PointIsOnAPiece

LEMMA EndsAreOnTheLine == ASSUME NEW path, Line(path) PROVE Ends(path) \subseteq PointsOf(path)
BY StopsAreOnTheLine DEF Ends, First, Final, PointsOf, Range

-----------------------------------------------------------------------------
(* What the edits name, and the lines they carry.                          *)
ScenarioFits(scenario) ==
  \A f \in scenario : f.edit \in {"n", "m", "d"} /\ Line(f.path)

(* A piece of a drawn line. *)
PieceOf(n, f) ==
  /\ n.did = f.id /\ n.original = f.feature /\ Line(n.path)
  /\ PointsOf(n.path) \subseteq PointsOf(f.path) /\ Segments(n.path) \subseteq Segments(f.path)

CutBy(scenario, f) == UNION {PointsOf(g.path) : g \in Drawn_features(scenario) \ {f}}

LEMMA DrawnIsALine ==
  ASSUME NEW scenario, ScenarioFits(scenario), NEW f \in Drawn_features(scenario)
  PROVE  f \in scenario /\ Line(f.path) /\ f.edit \in {"n", "m"}
BY DEF Drawn_features, ScenarioFits

LEMMA SplitPieces ==
  ASSUME NEW scenario, NEW n
  PROVE  n \in split_drawn_features(scenario) <=>
           \E f \in Drawn_features(scenario) : \E p \in Pieces(f.path, CutBy(scenario, f)) :
             n = [did |-> f.id, original |-> f.feature, path |-> p]
<1> DEFINE D == Drawn_features(scenario)
           PiecesOf(f) == {[did |-> f.id, original |-> f.feature, path |-> p] : p \in Pieces(f.path, CutBy(scenario, f))}
<1>1. split_drawn_features(scenario) = UNION {PiecesOf(f) : f \in D}
  BY DEF split_drawn_features, CutBy
<1>2. \A f : n \in PiecesOf(f) <=> \E p \in Pieces(f.path, CutBy(scenario, f)) :
                                    n = [did |-> f.id, original |-> f.feature, path |-> p]
  OBVIOUS
<1> HIDE DEF D, PiecesOf
<1>3. n \in split_drawn_features(scenario) <=> \E f \in D : n \in PiecesOf(f)
  BY <1>1
<1> QED BY <1>2, <1>3 DEF D

LEMMA NewPieces ==
  ASSUME NEW scenario, NEW n
  PROVE  n \in new_pieces(scenario) <=>
           /\ intersection_existing_network(scenario) # {}
           /\ \E m \in split_drawn_features(scenario) :
                \E p \in Pieces(m.path, intersection_existing_network(scenario)) : n = [m EXCEPT !.path = p]
BY DEF new_pieces

LEMMA SegmentsOfAPiece ==
  ASSUME NEW path, Line(path), NEW cuts, NEW q \in Pieces(path, cuts)
  PROVE  Segments(q) \subseteq Segments(path)
BY PiecesKeepSegments

(* Every new piece is one of a drawn line.                                 *)
LEMMA NewPieceIsOfALine ==
  ASSUME NEW scenario, ScenarioFits(scenario), NEW n \in new_pieces(scenario)
  PROVE  \E f \in Drawn_features(scenario) : PieceOf(n, f)
<1>1. PICK m \in split_drawn_features(scenario) :
        \E q \in Pieces(m.path, intersection_existing_network(scenario)) : n = [m EXCEPT !.path = q]
  BY NewPieces
<1>11. PICK q \in Pieces(m.path, intersection_existing_network(scenario)) : n = [m EXCEPT !.path = q]
  BY <1>1
<1>2. PICK f \in Drawn_features(scenario) :
        \E p \in Pieces(f.path, CutBy(scenario, f)) : m = [did |-> f.id, original |-> f.feature, path |-> p]
  BY SplitPieces
<1>22. PICK p \in Pieces(f.path, CutBy(scenario, f)) :
             m = [did |-> f.id, original |-> f.feature, path |-> p]
  BY <1>2
<1>3. m.path = p /\ n.did = f.id /\ n.original = f.feature /\ n.path = q
  BY <1>11, <1>22
<1>4. Line(f.path)
  BY DrawnIsALine
<1>5. Line(p) /\ PointsOf(p) \subseteq PointsOf(f.path) /\ Segments(p) \subseteq Segments(f.path)
  BY <1>4, PieceIsALine, SegmentsOfAPiece
<1>6. Line(q) /\ PointsOf(q) \subseteq PointsOf(p) /\ Segments(q) \subseteq Segments(p)
  BY <1>3, <1>5, PieceIsALine, SegmentsOfAPiece
<1> QED BY <1>3, <1>5, <1>6 DEF PieceOf

(* Every piece of a piece of a drawn line is a new piece.                  *)
LEMMA PieceOfAPiece ==
  ASSUME NEW scenario, intersection_existing_network(scenario) # {}, ScenarioFits(scenario),
         NEW f \in Drawn_features(scenario),
         NEW p \in Pieces(f.path, CutBy(scenario, f)),
         NEW q \in Pieces(p, intersection_existing_network(scenario))
  PROVE  \E n \in new_pieces(scenario) : n.path = q /\ PieceOf(n, f)
<1>1. PICK m : m = [did |-> f.id, original |-> f.feature, path |-> p]
  OBVIOUS
<1>2. m \in split_drawn_features(scenario) /\ m.path = p
  BY <1>1, SplitPieces
<1>3. PICK n : n = [m EXCEPT !.path = q]
  OBVIOUS
<1>4. n \in new_pieces(scenario)
  BY <1>2, <1>3, NewPieces
<1>5. n.did = f.id /\ n.original = f.feature /\ n.path = q
  BY <1>1, <1>3
<1>6. Line(f.path)
  BY DrawnIsALine
<1>7. Line(p) /\ PointsOf(p) \subseteq PointsOf(f.path) /\ Segments(p) \subseteq Segments(f.path)
  BY <1>6, PieceIsALine, SegmentsOfAPiece
<1>8. Line(q) /\ PointsOf(q) \subseteq PointsOf(p) /\ Segments(q) \subseteq Segments(p)
  BY <1>7, PieceIsALine, SegmentsOfAPiece
<1> QED BY <1>4, <1>5, <1>7, <1>8 DEF PieceOf

(* The new pieces of a line run along all of it, and end wherever a street *)
(* is cut.                                                                 *)
LEMMA LineIsInNewPieces ==
  ASSUME NEW scenario, intersection_existing_network(scenario) # {}, ScenarioFits(scenario),
         NEW f \in Drawn_features(scenario)
  PROVE  /\ \A g \in Segments(f.path) : \E n \in new_pieces(scenario) : PieceOf(n, f) /\ g \in Segments(n.path)
         /\ \A x \in PointsOf(f.path) \cap intersection_existing_network(scenario) :
              \E n \in new_pieces(scenario) : PieceOf(n, f) /\ x \in Ends(n.path)
         /\ \E n \in new_pieces(scenario) : PieceOf(n, f)
<1>1. Line(f.path)
  BY DrawnIsALine
<1>2. \A p \in Pieces(f.path, CutBy(scenario, f)) : Line(p)
  BY <1>1, PieceIsALine
<1>3. ASSUME NEW g \in Segments(f.path)
      PROVE  \E n \in new_pieces(scenario) : PieceOf(n, f) /\ g \in Segments(n.path)
  <2>1. PICK p \in Pieces(f.path, CutBy(scenario, f)) : g \in Segments(p)
    BY <1>1, PiecesKeepSegments
  <2>2. PICK q \in Pieces(p, intersection_existing_network(scenario)) : g \in Segments(q)
    BY <1>2, <2>1, PiecesKeepSegments
  <2> QED BY <2>2, PieceOfAPiece
<1>4. ASSUME NEW x \in PointsOf(f.path) \cap intersection_existing_network(scenario)
      PROVE  \E n \in new_pieces(scenario) : PieceOf(n, f) /\ x \in Ends(n.path)
  <2>1. PICK p \in Pieces(f.path, CutBy(scenario, f)) : x \in PointsOf(p)
    BY <1>1, PointIsOnAPiece
  <2>2. PICK q \in Pieces(p, intersection_existing_network(scenario)) : x \in Ends(q)
    BY <1>2, <2>1, PointIsOnAPiece
  <2> QED BY <2>2, PieceOfAPiece
<1>5. \E n \in new_pieces(scenario) : PieceOf(n, f)
  <2>1. PICK p \in Pieces(f.path, CutBy(scenario, f)) : TRUE
    BY <1>1, SomePiece
  <2>2. PICK q \in Pieces(p, intersection_existing_network(scenario)) : TRUE
    BY <1>2, <2>1, SomePiece
  <2> QED BY <2>2, PieceOfAPiece
<1> QED BY <1>3, <1>4, <1>5

-----------------------------------------------------------------------------
(* What is added and deleted.  The edge a piece becomes, and the node at   *)
(* the end of a piece of a street.                                         *)
EdgeOfPiece(scenario, n) ==
  [original |-> n.original, path |-> n.path,
   source |-> NodeOfPiece(scenario, n, First(n.path)),
   target |-> NodeOfPiece(scenario, n, Final(n.path))]

NodeOfCut(scenario, e, p) ==
  IF p \in new_vertices(scenario) THEN NewNode(p)
  ELSE IF p = First(e.path) THEN e.source ELSE e.target

EdgeOfCut(scenario, e, p) ==
  [original |-> e.id, path |-> p,
   source |-> NodeOfCut(scenario, e, First(p)), target |-> NodeOfCut(scenario, e, Final(p))]

IsCut(scenario, s) ==
  /\ s \in Streets /\ PointsOf(s.path) \cap intersection_existing_network(scenario) # {}
  /\ s.id \notin modified_attributes_only(scenario)

LEMMA NewNetwork ==
  ASSUME NEW scenario, NEW e
  PROVE  e \in new_network(scenario) <=> \E n \in new_pieces(scenario) : e = EdgeOfPiece(scenario, n)
BY DEF new_network, EdgeOfPiece

LEMMA ExistingNetwork ==
  ASSUME NEW scenario, NEW e
  PROVE  e \in existing_network(scenario) <=>
           \E s : IsCut(scenario, s) /\
             \E p \in Pieces(s.path, intersection_existing_network(scenario)) : e = EdgeOfCut(scenario, s, p)
<1> DEFINE I == intersection_existing_network(scenario)
           C == {s \in Streets : /\ PointsOf(s.path) \cap I # {}
                                 /\ s.id \notin modified_attributes_only(scenario)}
<1>1. existing_network(scenario) = UNION {{EdgeOfCut(scenario, s, p) : p \in Pieces(s.path, I)} : s \in C}
  BY DEF existing_network, EdgeOfCut, NodeOfCut
<1>2. \A s : IsCut(scenario, s) <=> s \in C
  BY DEF IsCut
<1> HIDE DEF C, I
<1>3. e \in existing_network(scenario) <=> \E s \in C : \E p \in Pieces(s.path, I) : e = EdgeOfCut(scenario, s, p)
  BY <1>1
<1> QED BY <1>2, <1>3 DEF I

LEMMA StreetIsALine ==
  ASSUME NEW s \in Streets
  PROVE  /\ s.id # Drawing /\ Line(s.path)
         /\ \A t \in Streets : t.id = s.id => t = s
BY StreetsAssumption

(* The ids that new edges replace are those of the drawn lines.            *)
LEMMA ReplacedAreDrawn ==
  ASSUME NEW scenario, ScenarioFits(scenario),
         \/ Drawn_features(scenario) = {} \/ intersection_existing_network(scenario) # {},
         NEW i
  PROVE  (\E n \in new_network(scenario) : n.original = i)
           <=> \E f \in Drawn_features(scenario) : f.feature = i
<1>1. ASSUME NEW e \in new_network(scenario), e.original = i
      PROVE  \E f \in Drawn_features(scenario) : f.feature = i
  <2>1. PICK n \in new_pieces(scenario) : e = EdgeOfPiece(scenario, n)
    BY NewNetwork
  <2>2. PICK f \in Drawn_features(scenario) : PieceOf(n, f)
    BY NewPieceIsOfALine
  <2> QED BY <1>1, <2>1, <2>2 DEF PieceOf, EdgeOfPiece
<1>2. ASSUME NEW f \in Drawn_features(scenario), f.feature = i
      PROVE  \E n \in new_network(scenario) : n.original = i
  <2>1. PICK n \in new_pieces(scenario) : PieceOf(n, f)
    BY LineIsInNewPieces
  <2>2. EdgeOfPiece(scenario, n) \in new_network(scenario)
    BY NewNetwork
  <2> QED BY <1>2, <2>1, <2>2 DEF PieceOf, EdgeOfPiece
<1> QED BY <1>1, <1>2

(* An edge is deleted when an edit names it or it is cut.                  *)
LEMMA DeletedAreNamedOrCut ==
  ASSUME NEW scenario, ScenarioFits(scenario),
         \/ Drawn_features(scenario) = {} \/ intersection_existing_network(scenario) # {},
         NEW s \in Streets
  PROVE  s.id \in Deletions(scenario)
           <=> (\E f \in scenario : f.feature = s.id) \/ IsCut(scenario, s)
<1>1. (\E f \in scenario : f.feature = s.id) <=>
        \/ s.id \in {f.feature : f \in {g \in scenario : g.edit = "d"}}
        \/ \E f \in Drawn_features(scenario) : f.feature = s.id
  BY DEF ScenarioFits, Drawn_features
<1>2. (\E f \in Drawn_features(scenario) : f.feature = s.id)
        <=> s.id \in {n.original : n \in new_network(scenario)} \ {Drawing}
  <2>1. (\E n \in new_network(scenario) : n.original = s.id)
          <=> \E f \in Drawn_features(scenario) : f.feature = s.id
    BY ReplacedAreDrawn
  <2>2. s.id # Drawing
    BY StreetIsALine
  <2> QED BY <2>1, <2>2
<1>3. IsCut(scenario, s) <=> s.id \in {e.original : e \in existing_network(scenario)}
  <2>1. ASSUME IsCut(scenario, s) PROVE \E e \in existing_network(scenario) : e.original = s.id
    <3>1. PICK p \in Pieces(s.path, intersection_existing_network(scenario)) : TRUE
      BY StreetIsALine, SomePiece
    <3>2. EdgeOfCut(scenario, s, p) \in existing_network(scenario)
      BY <2>1, <3>1, ExistingNetwork
    <3> QED BY <3>2 DEF EdgeOfCut
  <2>2. ASSUME NEW e \in existing_network(scenario), e.original = s.id PROVE IsCut(scenario, s)
    <3>1. PICK t : IsCut(scenario, t) /\
             \E p \in Pieces(t.path, intersection_existing_network(scenario)) : e = EdgeOfCut(scenario, t, p)
      BY ExistingNetwork
    <3>2. t \in Streets /\ t.id = s.id
      BY <2>2, <3>1 DEF EdgeOfCut, IsCut
    <3> QED BY <3>1, <3>2, StreetIsALine
  <2> QED BY <2>1, <2>2
<1> QED BY <1>1, <1>2, <1>3 DEF Deletions

-----------------------------------------------------------------------------
(* Where the network runs.  What is left: the streets no edit names, whole *)
(* or, when they are cut, in pieces.                                       *)
NamedBy(scenario, s) == \E f \in scenario : f.feature = s.id

Left(scenario) == {e \in Streets : ~NamedBy(scenario, e)}

Whole_streets(scenario) == {s \in Streets : s.id \notin Deletions(scenario)}

CutStreets(scenario) ==
  {e \in existing_network(scenario) : \A n \in new_network(scenario) : n.original # e.original}

LEMMA SegmentIsOf ==
  ASSUME NEW edges, NEW g
  PROVE  g \in SegmentsOf(edges) <=> \E e \in edges : g \in Segments(e.path)
BY DEF SegmentsOf

LEMMA NewNetworkRunsAlongLines ==
  ASSUME NEW scenario, ScenarioFits(scenario),
         \/ Drawn_features(scenario) = {} \/ intersection_existing_network(scenario) # {}
  PROVE  SegmentsOf(new_network(scenario)) = SegmentsOf(Drawn_features(scenario))
<1>1. ASSUME NEW g \in SegmentsOf(new_network(scenario)) PROVE g \in SegmentsOf(Drawn_features(scenario))
  <2>1. PICK e \in new_network(scenario) : g \in Segments(e.path)
    BY SegmentIsOf
  <2>2. PICK n \in new_pieces(scenario) : e = EdgeOfPiece(scenario, n)
    BY NewNetwork
  <2>3. PICK f \in Drawn_features(scenario) : PieceOf(n, f)
    BY NewPieceIsOfALine
  <2>4. g \in Segments(f.path)
    BY <2>1, <2>2, <2>3 DEF EdgeOfPiece, PieceOf
  <2> QED BY <2>4, SegmentIsOf
<1>2. ASSUME NEW g \in SegmentsOf(Drawn_features(scenario)) PROVE g \in SegmentsOf(new_network(scenario))
  <2>1. PICK f \in Drawn_features(scenario) : g \in Segments(f.path)
    BY SegmentIsOf
  <2>2. PICK n \in new_pieces(scenario) : g \in Segments(n.path)
    BY <2>1, LineIsInNewPieces
  <2>3. EdgeOfPiece(scenario, n) \in new_network(scenario) /\ EdgeOfPiece(scenario, n).path = n.path
    BY NewNetwork DEF EdgeOfPiece
  <2> QED BY <2>2, <2>3, SegmentIsOf
<1> QED BY <1>1, <1>2

(* A street that is cut and no drawn line replaces is named by no edit:    *)
(* nothing is drawn across a deleted one.                                  *)
LEMMA CutAreNotDeleted ==
  ASSUME NEW scenario, ScenarioFits(scenario), ~CrossesDeleted(scenario),
         NEW s, IsCut(scenario, s),
         \A f \in Drawn_features(scenario) : f.feature # s.id
  PROVE  ~NamedBy(scenario, s)
<1>1. SUFFICES ASSUME NEW d \in scenario, d.feature = s.id PROVE FALSE
  BY DEF NamedBy
<1>2. d.edit = "d"
  BY <1>1 DEF ScenarioFits, Drawn_features
<1>3. s \in Streets /\ StreetOf(d) = s
  BY <1>1, StreetIsALine DEF StreetOf, IsCut
<1>4. PICK x \in PointsOf(s.path) : x \in intersection_existing_network(scenario)
  BY DEF IsCut
<1>5. PICK f \in Drawn_features(scenario) : x \in PointsOf(f.path)
  BY <1>4 DEF intersection_existing_network
<1>6. CrossesDeleted(scenario)
  BY <1>2, <1>3, <1>4, <1>5 DEF CrossesDeleted
<1> QED BY <1>6

LEMMA WhatIsLeftRunsOn ==
  ASSUME NEW scenario, ScenarioFits(scenario), ~CrossesDeleted(scenario),
         \/ Drawn_features(scenario) = {} \/ intersection_existing_network(scenario) # {}
  PROVE  SegmentsOf(Whole_streets(scenario)) \cup SegmentsOf(CutStreets(scenario)) = SegmentsOf(Left(scenario))
<1>1. ASSUME NEW g \in SegmentsOf(Whole_streets(scenario)) PROVE g \in SegmentsOf(Left(scenario))
  <2>1. PICK s \in Whole_streets(scenario) : g \in Segments(s.path)
    BY SegmentIsOf
  <2>2. s \in Streets /\ ~NamedBy(scenario, s)
    BY DeletedAreNamedOrCut DEF Whole_streets, NamedBy
  <2>3. s \in Left(scenario)
    BY <2>2 DEF Left
  <2> QED BY <2>1, <2>3, SegmentIsOf
<1>2. ASSUME NEW g \in SegmentsOf(CutStreets(scenario)) PROVE g \in SegmentsOf(Left(scenario))
  <2>1. PICK e \in CutStreets(scenario) : g \in Segments(e.path)
    BY SegmentIsOf
  <2>2. e \in existing_network(scenario) /\ \A n \in new_network(scenario) : n.original # e.original
    BY DEF CutStreets
  <2>3. PICK s : IsCut(scenario, s) /\
          \E p \in Pieces(s.path, intersection_existing_network(scenario)) : e = EdgeOfCut(scenario, s, p)
    BY <2>2, ExistingNetwork
  <2>4. PICK p \in Pieces(s.path, intersection_existing_network(scenario)) : e = EdgeOfCut(scenario, s, p)
    BY <2>3
  <2>5. e.original = s.id /\ e.path = p /\ s \in Streets
    BY <2>3, <2>4 DEF EdgeOfCut, IsCut
  <2>6. \A f \in Drawn_features(scenario) : f.feature # s.id
    BY <2>2, <2>5, ReplacedAreDrawn
  <2>7. s \in Left(scenario)
    BY <2>3, <2>5, <2>6, CutAreNotDeleted DEF Left
  <2>8. g \in Segments(s.path)
    BY <2>1, <2>5, StreetIsALine, SegmentsOfAPiece
  <2> QED BY <2>7, <2>8, SegmentIsOf
<1>3. ASSUME NEW g \in SegmentsOf(Left(scenario))
      PROVE  g \in SegmentsOf(Whole_streets(scenario)) \cup SegmentsOf(CutStreets(scenario))
  <2>1. PICK s \in Left(scenario) : g \in Segments(s.path)
    BY SegmentIsOf
  <2>2. s \in Streets /\ ~NamedBy(scenario, s)
    BY DEF Left
  <2>3. CASE ~IsCut(scenario, s)
    <3>1. s \in Whole_streets(scenario)
      BY <2>2, <2>3, DeletedAreNamedOrCut DEF Whole_streets, NamedBy
    <3> QED BY <2>1, <3>1, SegmentIsOf
  <2>4. CASE IsCut(scenario, s)
    <3>1. PICK p \in Pieces(s.path, intersection_existing_network(scenario)) : g \in Segments(p)
      BY <2>1, <2>2, StreetIsALine, PiecesKeepSegments
    <3>2. PICK e : e = EdgeOfCut(scenario, s, p)
      OBVIOUS
    <3>3. e \in existing_network(scenario) /\ e.original = s.id /\ e.path = p
      <4>1. e.original = s.id /\ e.path = p
        BY <3>2 DEF EdgeOfCut
      <4>2. e \in existing_network(scenario)
        BY <2>4, <3>2, ExistingNetwork
      <4> QED BY <4>1, <4>2
    <3>4. \A f \in Drawn_features(scenario) : f.feature # s.id
      BY <2>2 DEF Drawn_features, NamedBy
    <3>5. \A n \in new_network(scenario) : n.original # s.id
      BY <3>4, ReplacedAreDrawn
    <3>6. e \in CutStreets(scenario)
      BY <3>3, <3>5 DEF CutStreets
    <3> QED BY <3>1, <3>3, <3>6, SegmentIsOf
  <2> QED BY <2>3, <2>4
<1> QED BY <1>1, <1>2, <1>3

LEMMA CombinedEdges ==
  ASSUME NEW scenario, NEW x
  PROVE  x \in Combined(scenario) <=>
           \/ \E s \in Whole_streets(scenario) :
                x = [original |-> s.id, path |-> s.path, source |-> s.source, target |-> s.target]
           \/ x \in CutStreets(scenario)
           \/ x \in new_network(scenario)
BY DEF Combined, Additions, Whole_streets, CutStreets

(* produce_network_modifications: the network runs along the streets the   *)
(* edits leave and along the lines they draw.                              *)
THEOREM AnyNetworkIsWhatWasDrawn ==
  ASSUME NEW scenario, ScenarioFits(scenario)
  PROVE  NetworkIsWhatWasDrawn(scenario)
<1>1. SUFFICES ASSUME ~CrossesDeleted(scenario),
                      \/ Drawn_features(scenario) = {} \/ intersection_existing_network(scenario) # {}
               PROVE  SegmentsOf(Combined(scenario)) = Wanted(scenario)
  BY DEF NetworkIsWhatWasDrawn
<1>2. \A g : g \in SegmentsOf(Combined(scenario)) <=>
        \/ g \in SegmentsOf(Whole_streets(scenario))
        \/ g \in SegmentsOf(CutStreets(scenario))
        \/ g \in SegmentsOf(new_network(scenario))
  <2> TAKE g
  <2>1. ASSUME NEW x \in Combined(scenario), g \in Segments(x.path)
        PROVE  \/ g \in SegmentsOf(Whole_streets(scenario))
               \/ g \in SegmentsOf(CutStreets(scenario))
               \/ g \in SegmentsOf(new_network(scenario))
    BY <2>1, CombinedEdges, SegmentIsOf
  <2>2. ASSUME NEW s \in Whole_streets(scenario), g \in Segments(s.path) PROVE g \in SegmentsOf(Combined(scenario))
    <3>1. PICK x : x = [original |-> s.id, path |-> s.path, source |-> s.source, target |-> s.target]
      OBVIOUS
    <3>2. x \in Combined(scenario) /\ x.path = s.path
      BY <3>1, CombinedEdges
    <3> QED BY <2>2, <3>2, SegmentIsOf
  <2>3. ASSUME NEW x, x \in CutStreets(scenario) \/ x \in new_network(scenario), g \in Segments(x.path)
        PROVE  g \in SegmentsOf(Combined(scenario))
    BY <2>3, CombinedEdges, SegmentIsOf
  <2> QED BY <2>1, <2>2, <2>3, SegmentIsOf
<1>3. \A g : g \in Wanted(scenario) <=> g \in SegmentsOf(Left(scenario)) \/ g \in SegmentsOf(Drawn_features(scenario))
  BY DEF Wanted, Left, NamedBy
<1> QED BY <1>1, <1>2, <1>3, WhatIsLeftRunsOn, NewNetworkRunsAlongLines

-----------------------------------------------------------------------------
(* Who meets at a point.  Its node: the network's, unless a new piece made *)
(* one there.                                                              *)
NodeThere(scenario, p) ==
  IF p \in new_vertices(scenario) THEN NewNode(p) ELSE NodeAt[p]

LEMMA PointsAreNumbers ==
  ASSUME NEW path, Line(path), NEW p \in PointsOf(path)
  PROVE  p \in Nat \ {0}
BY DEF Line, PointsOf, Range

LEMMA NewNodesAreNew ==
  ASSUME NEW p \in Nat \ {0}, NEW q \in Nat \ {0}
  PROVE  /\ NewNode(p) = NewNode(q) => p = q
         /\ q \in DOMAIN NodeAt => NewNode(p) # NodeAt[q]
<1>1. MaxNode \in Nat /\ (q \in DOMAIN NodeAt => NodeAt[q] \in 0..MaxNode)
  BY StreetsAssumption
<1> QED BY <1>1 DEF NewNode

LEMMA SnappedAreEndsOnNodes ==
  ASSUME NEW scenario, NEW p
  PROVE  p \in snapped_to_node(scenario) <=>
           p \in DOMAIN NodeAt /\ \E f \in Drawn_features(scenario) : p \in Ends(f.path)
BY DEF snapped_to_node

(* The end of a new piece gets a new node exactly when no drawn line ends  *)
(* at a node there.                                                        *)
LEMMA NodeOfNewPiece ==
  ASSUME NEW scenario, ScenarioFits(scenario), ~PassesSnapped(scenario),
         NEW n \in new_pieces(scenario), NEW p \in Ends(n.path)
  PROVE  /\ p \in Nat \ {0}
         /\ NodeOfPiece(scenario, n, p) = IF p \in snapped_to_node(scenario) THEN NodeAt[p] ELSE NewNode(p)
<1>1. PICK f \in Drawn_features(scenario) : PieceOf(n, f)
  BY NewPieceIsOfALine
<1>2. p \in PointsOf(n.path) /\ p \in PointsOf(f.path) /\ Line(n.path)
  BY <1>1, EndsAreOnTheLine DEF PieceOf
<1>3. p \in Nat \ {0}
  BY <1>2, PointsAreNumbers
<1>4. ASSUME p \in snapped_to_node(scenario)
      PROVE  p \in DOMAIN NodeAt /\ \E h \in Drawn_features(scenario) : h.id = n.did /\ p \in Ends(h.path)
  <2>1. p \in DOMAIN NodeAt
    BY <1>4, SnappedAreEndsOnNodes
  <2>2. PICK g \in Drawn_features(scenario) : p \in Ends(g.path)
    BY <1>4, SnappedAreEndsOnNodes
  <2>3. p \in Ends(f.path)
    BY <1>2, <2>1, <2>2 DEF PassesSnapped
  <2> QED BY <1>1, <2>1, <2>3 DEF PieceOf
<1>5. ASSUME p \in DOMAIN NodeAt, NEW h \in Drawn_features(scenario), p \in Ends(h.path)
      PROVE  p \in snapped_to_node(scenario)
  BY <1>5, SnappedAreEndsOnNodes
<1> QED BY <1>3, <1>4, <1>5 DEF NodeOfPiece

LEMMA NewVertex ==
  ASSUME NEW scenario, ScenarioFits(scenario), ~PassesSnapped(scenario), NEW p
  PROVE  p \in new_vertices(scenario) <=>
           p \notin snapped_to_node(scenario) /\ \E n \in new_pieces(scenario) : p \in Ends(n.path)
<1>1. ASSUME p \in new_vertices(scenario)
      PROVE  p \notin snapped_to_node(scenario) /\ \E n \in new_pieces(scenario) : p \in Ends(n.path)
  <2>1. PICK m \in new_pieces(scenario) : p \in Ends(m.path)
    BY <1>1 DEF new_vertices
  <2>2. PICK e \in new_network(scenario) : NewNode(p) \in {e.source, e.target}
    BY <1>1 DEF new_vertices
  <2>3. PICK n \in new_pieces(scenario) : e = EdgeOfPiece(scenario, n)
    BY NewNetwork
  <2>4. PICK q \in Ends(n.path) : NewNode(p) = NodeOfPiece(scenario, n, q)
    BY <2>2, <2>3 DEF EdgeOfPiece, Ends
  <2>5. p \in Nat \ {0} /\ q \in Nat \ {0}
    BY <2>1, <2>4, NodeOfNewPiece
  <2>6. NewNode(p) = IF q \in snapped_to_node(scenario) THEN NodeAt[q] ELSE NewNode(q)
    BY <2>4, NodeOfNewPiece
  <2>7. q \in snapped_to_node(scenario) => q \in DOMAIN NodeAt
    BY SnappedAreEndsOnNodes
  <2>8. q \notin snapped_to_node(scenario) /\ p = q
    BY <2>5, <2>6, <2>7, NewNodesAreNew
  <2> QED BY <2>1, <2>8
<1>2. ASSUME p \notin snapped_to_node(scenario), NEW n \in new_pieces(scenario), p \in Ends(n.path)
      PROVE  p \in new_vertices(scenario)
  <2>1. NodeOfPiece(scenario, n, p) = NewNode(p)
    BY <1>2, NodeOfNewPiece
  <2>2. PICK e : e = EdgeOfPiece(scenario, n)
    OBVIOUS
  <2>3. e \in new_network(scenario)
    BY <2>2, NewNetwork
  <2>4. NewNode(p) \in {e.source, e.target}
    BY <1>2, <2>1, <2>2 DEF EdgeOfPiece, Ends
  <2>5. p \in UNION {Ends(m.path) : m \in new_pieces(scenario)}
    BY <1>2
  <2> QED BY <2>3, <2>4, <2>5 DEF new_vertices
<1> QED BY <1>1, <1>2

LEMMA WhereStreetsAreCut ==
  ASSUME NEW scenario, NEW p
  PROVE  p \in intersection_existing_network(scenario) <=>
           /\ p \notin snapped_to_node(scenario)
           /\ \E f \in Drawn_features(scenario), s \in Streets :
                s.id \notin Replaced(scenario) /\ p \in PointsOf(s.path) /\ p \in PointsOf(f.path)
<1> DEFINE D == Drawn_features(scenario)
           T == {s \in Streets : s.id \notin Replaced(scenario)}
           Common(f, e) == PointsOf(f.path) \cap PointsOf(e.path)
           Met == UNION {Common(f, e) : f \in D, e \in T}
<1>1. intersection_existing_network(scenario) = Met \ snapped_to_node(scenario)
  BY DEF intersection_existing_network
<1>2. \A f, e : p \in Common(f, e) <=> p \in PointsOf(f.path) /\ p \in PointsOf(e.path)
  OBVIOUS
<1> HIDE DEF D, Common
<1>3. ASSUME NEW f \in D, NEW e \in T, p \in Common(f, e) PROVE p \in Met
  BY <1>3
<1>4. ASSUME p \in Met PROVE \E f \in D : \E e \in T : p \in Common(f, e)
  BY <1>4
<1> HIDE DEF Met
<1>5. p \in Met <=> \E f \in D, s \in T : p \in PointsOf(s.path) /\ p \in PointsOf(f.path)
  BY <1>2, <1>3, <1>4
<1> QED BY <1>1, <1>5 DEF D

(* At each end of each edge lies the node of that point.                   *)
LEMMA NewEdgeEndsAtItsNodes ==
  ASSUME NEW scenario, ScenarioFits(scenario), ~PassesSnapped(scenario),
         NEW e \in new_network(scenario)
  PROVE  e.source = NodeThere(scenario, First(e.path)) /\ e.target = NodeThere(scenario, Final(e.path))
<1>1. PICK n \in new_pieces(scenario) : e = EdgeOfPiece(scenario, n)
  BY NewNetwork
<1>2. ASSUME NEW p \in Ends(n.path) PROVE NodeOfPiece(scenario, n, p) = NodeThere(scenario, p)
  <2>1. NodeOfPiece(scenario, n, p) = IF p \in snapped_to_node(scenario) THEN NodeAt[p] ELSE NewNode(p)
    BY NodeOfNewPiece
  <2>2. p \in new_vertices(scenario) <=> p \notin snapped_to_node(scenario)
    BY NewVertex
  <2> QED BY <2>1, <2>2 DEF NodeThere
<1> QED BY <1>1, <1>2 DEF EdgeOfPiece, Ends

LEMMA CutEdgeEndsAtItsNodes ==
  ASSUME NEW scenario, ScenarioFits(scenario), ~PassesSnapped(scenario),
         NEW e \in existing_network(scenario)
  PROVE  e.source = NodeThere(scenario, First(e.path)) /\ e.target = NodeThere(scenario, Final(e.path))
<1>1. PICK s : IsCut(scenario, s) /\
        \E p \in Pieces(s.path, intersection_existing_network(scenario)) : e = EdgeOfCut(scenario, s, p)
  BY ExistingNetwork
<1>2. PICK q \in Pieces(s.path, intersection_existing_network(scenario)) : e = EdgeOfCut(scenario, s, q)
  BY <1>1
<1>3. s \in Streets /\ Line(s.path)
  BY <1>1, StreetIsALine DEF IsCut
<1>4. ASSUME NEW p \in Ends(q) PROVE NodeOfCut(scenario, s, p) = NodeThere(scenario, p)
  <2>1. CASE p \in new_vertices(scenario)
    BY <2>1 DEF NodeOfCut, NodeThere
  <2>2. CASE p \notin new_vertices(scenario)
    <3>1. p \notin intersection_existing_network(scenario)
      <4>1. SUFFICES ASSUME p \in intersection_existing_network(scenario) PROVE p \in new_vertices(scenario)
        BY <2>2
      <4>2. PICK f \in Drawn_features(scenario) : p \in PointsOf(f.path)
        BY <4>1, WhereStreetsAreCut
      <4>3. \E n \in new_pieces(scenario) : p \in Ends(n.path)
        BY <4>1, <4>2, LineIsInNewPieces
      <4>4. p \notin snapped_to_node(scenario)
        BY <4>1, WhereStreetsAreCut
      <4> QED BY <4>3, <4>4, NewVertex
    <3>2. p \in Ends(s.path)
      BY <1>3, <3>1, PieceIsALine
    <3>3. s.source = NodeAt[First(s.path)] /\ s.target = NodeAt[Final(s.path)]
      BY <1>3, StreetsAssumption
    <3> QED BY <2>2, <3>2, <3>3 DEF NodeOfCut, NodeThere, Ends
  <2> QED BY <2>1, <2>2
<1> QED BY <1>2, <1>4 DEF EdgeOfCut, Ends

LEMMA WholeStreetEndsAtItsNodes ==
  ASSUME NEW scenario, ScenarioFits(scenario), ~PassesSnapped(scenario),
         NEW s \in Whole_streets(scenario)
  PROVE  s.source = NodeThere(scenario, First(s.path)) /\ s.target = NodeThere(scenario, Final(s.path))
<1>1. s \in Streets /\ s.id \notin Deletions(scenario) /\ Line(s.path)
  BY StreetIsALine DEF Whole_streets
<1>2. ASSUME NEW p \in Ends(s.path), p \in new_vertices(scenario) PROVE FALSE
  <2>1. p \notin snapped_to_node(scenario)
    BY <1>2, NewVertex
  <2>2. PICK n \in new_pieces(scenario) : p \in Ends(n.path)
    BY <1>2, NewVertex
  <2>3. PICK f \in Drawn_features(scenario) : PieceOf(n, f)
    BY NewPieceIsOfALine
  <2>4. p \in PointsOf(f.path)
    BY <2>2, <2>3, EndsAreOnTheLine DEF PieceOf
  <2>5. p \in PointsOf(s.path)
    BY <1>1, <1>2, EndsAreOnTheLine
  <2>6. intersection_existing_network(scenario) # {}
    BY <2>2, NewPieces
  <2>7. ~(\E h \in scenario : h.feature = s.id) /\ ~IsCut(scenario, s)
    BY <1>1, <2>6, DeletedAreNamedOrCut
  <2>8. s.id \notin Replaced(scenario) /\ s.id \notin modified_attributes_only(scenario)
    BY <2>7 DEF Replaced, modified_attributes_only, Drawn_features
  <2>9. p \in intersection_existing_network(scenario)
    BY <1>1, <2>1, <2>4, <2>5, <2>8, WhereStreetsAreCut
  <2>10. IsCut(scenario, s)
    BY <1>1, <2>5, <2>8, <2>9 DEF IsCut
  <2> QED BY <2>7, <2>10
<1>3. s.source = NodeAt[First(s.path)] /\ s.target = NodeAt[Final(s.path)]
  BY <1>1, StreetsAssumption
<1> QED BY <1>2, <1>3 DEF NodeThere, Ends

(* produce_network_modifications: edges that meet share their node.        *)
THEOREM AnyNetworkIsConnected ==
  ASSUME NEW scenario, ScenarioFits(scenario)
  PROVE  NetworkIsConnected(scenario)
<1>1. SUFFICES ASSUME ~PassesSnapped(scenario)
               PROVE  \A a \in EndNodes(Combined(scenario)) : a[2] = NodeThere(scenario, a[1]) /\ a = <<a[1], a[2]>>
  <2>1. ASSUME NEW a, NEW b, a = <<a[1], a[2]>>, b = <<b[1], b[2]>>, a[1] = b[1], a[2] = b[2] PROVE a = b
    BY <2>1
  <2> QED BY <2>1 DEF NetworkIsConnected
<1>2. ASSUME NEW x \in Combined(scenario)
      PROVE  x.source = NodeThere(scenario, First(x.path)) /\ x.target = NodeThere(scenario, Final(x.path))
  <2>1. ASSUME NEW s \in Whole_streets(scenario),
               x = [original |-> s.id, path |-> s.path, source |-> s.source, target |-> s.target]
        PROVE  x.source = NodeThere(scenario, First(x.path)) /\ x.target = NodeThere(scenario, Final(x.path))
    BY <1>1, <2>1, WholeStreetEndsAtItsNodes
  <2>2. x \in CutStreets(scenario) => x \in existing_network(scenario)
    BY DEF CutStreets
  <2> QED BY <1>1, <2>1, <2>2, CombinedEdges, CutEdgeEndsAtItsNodes, NewEdgeEndsAtItsNodes
<1>3. ASSUME NEW a \in EndNodes(Combined(scenario))
      PROVE  \E x \in Combined(scenario) : a = <<First(x.path), x.source>> \/ a = <<Final(x.path), x.target>>
  BY DEF EndNodes
<1> QED BY <1>2, <1>3
-----------------------------------------------------------------------------
(* Counting.  A finite set of at most one element has no two.              *)
LEMMA AtMostOne ==
  ASSUME NEW S, IsFiniteSet(S), Cardinality(S) <= 1, NEW x \in S, NEW y \in S
  PROVE  x = y
<1>1. IsFiniteSet(S \ {x}) /\ Cardinality(S \ {x}) = Cardinality(S) - 1
  BY FS_RemoveElement
<1>2. Cardinality(S) \in Nat /\ Cardinality(S \ {x}) \in Nat
  BY <1>1, FS_CardinalityType
<1>3. Cardinality(S \ {x}) = 0
  BY <1>1, <1>2
<1>4. S \ {x} = {}
  BY <1>1, <1>3, FS_EmptySet
<1> QED BY <1>4

(* A set has as many elements as its image under a function that is one to *)
(* one on it.                                                              *)
LEMMA AsMany ==
  ASSUME NEW S, IsFiniteSet(S), NEW f, \A x, y \in S : f[x] = f[y] => x = y
  PROVE  IsFiniteSet({f[x] : x \in S}) /\ Cardinality({f[x] : x \in S}) = Cardinality(S)
<1> DEFINE T == {f[x] : x \in S}
           g == [x \in S |-> f[x]]
<1>1. g \in Bijection(S, T)
  BY DEF Bijection, Injection, Surjection, IsInjective
<1>2. ExistsBijection(S, T)
  BY <1>1 DEF ExistsBijection
<1> QED BY <1>2, FS_Bijection

(* Images and small sets are finite.                                      *)
LEMMA ImageIsFinite == ASSUME NEW S, IsFiniteSet(S), NEW f PROVE IsFiniteSet({f[x] : x \in S})
<1> DEFINE T == {f[x] : x \in S}
           g == [x \in S |-> f[x]]
<1>1. g \in Surjection(S, T)
  BY DEF Surjection
<1> HIDE DEF g, T
<1>2. IsFiniteSet(T)
  BY <1>1, FS_Surjection
<1> QED BY <1>2 DEF T

LEMMA TwoAreFinite == ASSUME NEW x, NEW y PROVE IsFiniteSet({x, y})
<1>1. IsFiniteSet({x} \cup {y})
  BY FS_Singleton, FS_AddElement, Zenon
<1>2. {x, y} = {x} \cup {y}
  OBVIOUS
<1> QED BY <1>1, <1>2

LEMMA ThreeAreFinite == ASSUME NEW x, NEW y, NEW z PROVE IsFiniteSet({x, y, z})
<1>1. IsFiniteSet({x, y} \cup {z})
  BY TwoAreFinite, FS_AddElement, Zenon
<1>2. {x, y, z} = {x, y} \cup {z}
  OBVIOUS
<1> QED BY <1>1, <1>2

-----------------------------------------------------------------------------
(* Finite sets: what holds of a set whenever it holds of all its proper    *)
(* subsets holds of every finite set.                                      *)
LEMMA BySmaller ==
  ASSUME NEW S, IsFiniteSet(S), NEW Good,
         \A s \in SUBSET S : (\A t \in SUBSET s : t # s => t \in Good) => s \in Good
  PROVE  \A s \in SUBSET S : s \in Good
<1> DEFINE Bad == {s \in SUBSET S : s \notin Good}
           Sizes == {Cardinality(s) : s \in Bad}
<1>1. SUFFICES ASSUME Bad # {} PROVE FALSE
  OBVIOUS
<1>2. \A s \in SUBSET S : IsFiniteSet(s) /\ Cardinality(s) \in Nat
  BY FS_Subset, FS_CardinalityType
<1>3. Sizes \in SUBSET Nat /\ Sizes # {}
  BY <1>1, <1>2
<1>5. PICK n \in Sizes : \A m \in Sizes : n <= m
  <2> HIDE DEF Sizes
  <2> QED BY <1>3, LeastExists
<1>6. PICK s \in Bad : Cardinality(s) = n
  BY <1>5
<1>7. ASSUME NEW t \in SUBSET s, t # s PROVE t \in Good
  <2>1. Cardinality(t) < Cardinality(s) /\ t \in SUBSET S
    BY <1>2, <1>6, <1>7, FS_Subset
  <2>2. Cardinality(t) \in Nat /\ n \in Nat
    BY <1>2, <1>6, <2>1
  <2>3. Cardinality(t) \notin Sizes
    BY <1>5, <1>6, <2>1, <2>2
  <2> QED BY <2>1, <2>3
<1> QED BY <1>6, <1>7

-----------------------------------------------------------------------------
(* Sums.  MapThenSumSet picks the elements one by one.                     *)
Picked(s) == CHOOSE x \in s : TRUE

Rest(s) == s \ {Picked(s)}

Summing(g, S, sum) == sum = [s \in SUBSET S |-> IF s = {} THEN 0 ELSE g[Picked(s)] + sum[Rest(s)]]

SumOver(g, S) == MapThenSumSet(LAMBDA x : g[x], S)

LEMMA RestIsSmaller ==
  ASSUME NEW s, s # {}
  PROVE  Picked(s) \in s /\ Rest(s) \in SUBSET s /\ Rest(s) # s
BY DEF Picked, Rest

(* Two ways of summing agree where both are defined.                       *)
LEMMA SummingIsUnique ==
  ASSUME NEW g, NEW S, NEW T \in SUBSET S, IsFiniteSet(T), NEW sum, NEW total,
         Summing(g, S, sum), Summing(g, T, total)
  PROVE  \A s \in SUBSET T : sum[s] = total[s]
<1> DEFINE Good == {s \in SUBSET T : sum[s] = total[s]}
<1>1. ASSUME NEW s \in SUBSET T, \A t \in SUBSET s : t # s => t \in Good
      PROVE  s \in Good
  <2>0. s \in SUBSET S
    OBVIOUS
  <2>1. /\ sum[s] = IF s = {} THEN 0 ELSE g[Picked(s)] + sum[Rest(s)]
        /\ total[s] = IF s = {} THEN 0 ELSE g[Picked(s)] + total[Rest(s)]
    BY <2>0 DEF Summing
  <2>2. CASE s = {}
    BY <2>1, <2>2
  <2>3. CASE s # {}
    <3>1. Rest(s) \in Good
      BY <1>1, <2>3, RestIsSmaller
    <3>2. sum[Rest(s)] = total[Rest(s)]
      BY <3>1
    <3> QED BY <2>1, <2>3, <3>2
  <2> QED BY <2>2, <2>3
<1>2. \A s \in SUBSET T : s \in Good
  <2> HIDE DEF Good
  <2> QED BY <1>1, BySmaller
<1> QED BY <1>2

(* There is a way to sum over the subsets of any finite set.               *)
LEMMA SummingExists ==
  ASSUME NEW g, NEW S, IsFiniteSet(S)
  PROVE  \E sum : Summing(g, S, sum)
<1> DEFINE Good == {s \in SUBSET S : \E sum : Summing(g, s, sum)}
<1>1. ASSUME NEW s \in SUBSET S, \A t \in SUBSET s : t # s => t \in Good
      PROVE  s \in Good
  <2>1. IsFiniteSet(s)
    BY FS_Subset
  <2> DEFINE of(t) == CHOOSE sum : Summing(g, t, sum)
             val(t) == IF t = {} THEN 0 ELSE g[Picked(t)] + of(Rest(t))[Rest(t)]
             sum == [t \in SUBSET s |-> val(t)]
  <2>2. ASSUME NEW t \in SUBSET s, t # s PROVE Summing(g, t, of(t))
    <3>1. \E sm : Summing(g, t, sm)
      BY <1>1, <2>2
    <3> QED BY <3>1
  <2>3. ASSUME NEW t \in SUBSET s, t # {} PROVE sum[Rest(t)] = of(Rest(t))[Rest(t)]
    <3>1. Rest(t) \in SUBSET s /\ Rest(t) # s /\ Rest(t) \in SUBSET t
      BY <2>3, RestIsSmaller
    <3>2. Summing(g, Rest(t), of(Rest(t)))
      BY <2>2, <3>1
    <3>3. of(Rest(t))[Rest(t)] = IF Rest(t) = {} THEN 0 ELSE g[Picked(Rest(t))] + of(Rest(t))[Rest(Rest(t))]
      <4> HIDE DEF of
      <4> QED BY <3>2 DEF Summing
    <3>4. sum[Rest(t)] = val(Rest(t))
      BY <3>1
    <3>5. CASE Rest(t) = {}
      BY <3>3, <3>4, <3>5
    <3>6. CASE Rest(t) # {}
      <4> DEFINE r == Rest(t)
                 q == Rest(r)
      <4>1. q \in SUBSET r /\ q \in SUBSET s /\ q # s
        BY <3>1, <3>6, RestIsSmaller
      <4>2. Summing(g, q, of(q)) /\ Summing(g, r, of(r)) /\ IsFiniteSet(q)
        BY <2>1, <2>2, <3>2, <4>1, FS_Subset
      <4>3. of(r)[q] = of(q)[q]
        <5> HIDE DEF of, q, r
        <5> QED BY <4>1, <4>2, SummingIsUnique
      <4> QED BY <3>3, <3>4, <3>6, <4>3
    <3> QED BY <3>5, <3>6
  <2>4. Summing(g, s, sum)
    <3>1. ASSUME NEW t \in SUBSET s PROVE val(t) = IF t = {} THEN 0 ELSE g[Picked(t)] + sum[Rest(t)]
      <4> HIDE DEF sum
      <4> QED BY <2>3
    <3>2. sum = [t \in SUBSET s |-> val(t)]
      OBVIOUS
    <3> HIDE DEF sum, val
    <3> QED BY <3>1, <3>2 DEF Summing
  <2> HIDE DEF sum
  <2> QED BY <2>4
<1>2. \A s \in SUBSET S : s \in Good
  <2> HIDE DEF Good
  <2> QED BY <1>1, BySmaller
<1> QED BY <1>2

LEMMA SumIsSumming ==
  ASSUME NEW g, NEW S, IsFiniteSet(S)
  PROVE  \E sum : Summing(g, S, sum) /\ SumOver(g, S) = sum[S]
<1> DEFINE sum == CHOOSE sm : sm = [s \in SUBSET S |-> IF s = {} THEN 0 ELSE g[Picked(s)] + sm[Rest(s)]]
<1>1. Summing(g, S, sum)
  BY SummingExists DEF Summing
<1>2. SumOver(g, S) = sum[S]
  BY Zenon DEF SumOver, MapThenSumSet, MapThenFoldSet, Picked, Rest
<1> QED BY <1>1, <1>2

(* What is summed of a subset is what summing the whole makes of it.       *)
LEMMA SumOfSubset ==
  ASSUME NEW g, NEW S, IsFiniteSet(S), NEW sum, Summing(g, S, sum), NEW T \in SUBSET S
  PROVE  SumOver(g, T) = sum[T]
<1>1. IsFiniteSet(T)
  BY FS_Subset
<1>2. PICK total : Summing(g, T, total) /\ SumOver(g, T) = total[T]
  BY <1>1, SumIsSumming
<1> QED BY <1>1, <1>2, SummingIsUnique

LEMMA SumOfNothing == ASSUME NEW g PROVE SumOver(g, {}) = 0
<1>1. IsFiniteSet({})
  BY FS_EmptySet
<1>2. PICK sum : Summing(g, {}, sum) /\ SumOver(g, {}) = sum[{}]
  BY <1>1, SumIsSumming
<1> QED BY <1>2 DEF Summing

LEMMA SumPicks ==
  ASSUME NEW g, NEW S, IsFiniteSet(S), S # {}
  PROVE  SumOver(g, S) = g[Picked(S)] + SumOver(g, Rest(S))
<1>1. PICK sum : Summing(g, S, sum) /\ SumOver(g, S) = sum[S]
  BY SumIsSumming
<1>2. SumOver(g, Rest(S)) = sum[Rest(S)]
  BY <1>1, SumOfSubset, RestIsSmaller
<1> QED BY <1>1, <1>2 DEF Summing

(* A sum of integers is one, and a sum of naturals. *)
LEMMA SumIsNumber ==
  ASSUME NEW g, NEW S, IsFiniteSet(S), NEW N \in {Nat, Int}, \A x \in S : g[x] \in N
  PROVE  SumOver(g, S) \in N
<1> DEFINE Good == {s \in SUBSET S : SumOver(g, s) \in N}
<1>1. ASSUME NEW s \in SUBSET S, \A t \in SUBSET s : t # s => t \in Good
      PROVE  s \in Good
  <2>1. CASE s = {}
    BY <2>1, SumOfNothing
  <2>2. CASE s # {}
    <3>1. Picked(s) \in s /\ Rest(s) \in Good /\ IsFiniteSet(s)
      BY <1>1, <2>2, RestIsSmaller, FS_Subset
    <3>2. SumOver(g, s) = g[Picked(s)] + SumOver(g, Rest(s))
      BY <2>2, <3>1, SumPicks
    <3>3. g[Picked(s)] \in N /\ SumOver(g, Rest(s)) \in N
      BY <3>1
    <3> QED BY <3>2, <3>3
  <2> QED BY <2>1, <2>2
<1>2. \A s \in SUBSET S : s \in Good
  <2> HIDE DEF Good
  <2> QED BY <1>1, BySmaller
<1> QED BY <1>2

(* The order of summing does not matter: any element can go first.         *)
LEMMA SumOfOne ==
  ASSUME NEW g, NEW S, IsFiniteSet(S), \A x \in S : g[x] \in Int
  PROVE  \A x \in S : SumOver(g, S) = g[x] + SumOver(g, S \ {x})
<1> DEFINE Good == {s \in SUBSET S : \A x \in s : SumOver(g, s) = g[x] + SumOver(g, s \ {x})}
<1>1. ASSUME NEW s \in SUBSET S, \A t \in SUBSET s : t # s => t \in Good, NEW x \in s
      PROVE  SumOver(g, s) = g[x] + SumOver(g, s \ {x})
  <2> DEFINE p == Picked(s)
             both == s \ {x, p}
  <2>1. p \in s /\ Rest(s) \in SUBSET s /\ Rest(s) # s /\ IsFiniteSet(s) /\ Rest(s) = s \ {p}
    BY RestIsSmaller, FS_Subset DEF Rest
  <2>2. SumOver(g, s) = g[p] + SumOver(g, s \ {p})
    BY <2>1, SumPicks
  <2>3. CASE x = p
    BY <2>2, <2>3
  <2>4. CASE x # p
    <3>1. /\ s \ {p} \in Good /\ x \in s \ {p} /\ (s \ {p}) \ {x} = both
          /\ s \ {x} \in Good /\ p \in s \ {x} /\ (s \ {x}) \ {p} = both
      BY <1>1, <2>1, <2>4
    <3>2. SumOver(g, s \ {p}) = g[x] + SumOver(g, both) /\ SumOver(g, s \ {x}) = g[p] + SumOver(g, both)
      BY <3>1
    <3>3. g[x] \in Int /\ g[p] \in Int /\ SumOver(g, both) \in Int
      <4>1. IsFiniteSet(both) /\ \A y \in both : g[y] \in Int
        BY <2>1, FS_Subset
      <4> QED BY <2>1, <4>1, SumIsNumber
    <3> HIDE DEF both, p
    <3> QED BY <2>2, <3>2, <3>3
  <2> QED BY <2>3, <2>4
<1>2. \A s \in SUBSET S : s \in Good
  <2>1. ASSUME NEW s \in SUBSET S, \A t \in SUBSET s : t # s => t \in Good
        PROVE  s \in Good
    BY <1>1, <2>1
  <2> HIDE DEF Good
  <2> QED BY <2>1, BySmaller
<1> QED BY <1>2

(* Sums of equal values are equal, and sums of greater values greater.     *)
LEMMA SumGrows ==
  ASSUME NEW g, NEW h, NEW S, IsFiniteSet(S),
         \A x \in S : g[x] \in Int /\ h[x] \in Int /\ g[x] <= h[x]
  PROVE  SumOver(g, S) <= SumOver(h, S)
<1> DEFINE Good == {s \in SUBSET S : SumOver(g, s) <= SumOver(h, s)}
<1>1. ASSUME NEW s \in SUBSET S, \A t \in SUBSET s : t # s => t \in Good
      PROVE  s \in Good
  <2>1. CASE s = {}
    BY <2>1, SumOfNothing
  <2>2. CASE s # {}
    <3>1. Picked(s) \in s /\ Rest(s) \in Good /\ Rest(s) \in SUBSET S /\ IsFiniteSet(s) /\ IsFiniteSet(Rest(s))
      BY <1>1, <2>2, RestIsSmaller, FS_Subset
    <3>2. SumOver(g, s) = g[Picked(s)] + SumOver(g, Rest(s)) /\ SumOver(h, s) = h[Picked(s)] + SumOver(h, Rest(s))
      BY <2>2, <3>1, SumPicks
    <3>3. SumOver(g, Rest(s)) \in Int /\ SumOver(h, Rest(s)) \in Int
      BY <3>1, SumIsNumber
    <3>4. /\ g[Picked(s)] \in Int /\ h[Picked(s)] \in Int /\ g[Picked(s)] <= h[Picked(s)]
          /\ SumOver(g, Rest(s)) <= SumOver(h, Rest(s))
      BY <3>1
    <3> QED BY <3>2, <3>3, <3>4
  <2> QED BY <2>1, <2>2
<1>2. \A s \in SUBSET S : s \in Good
  <2> HIDE DEF Good
  <2> QED BY <1>1, BySmaller
<1> QED BY <1>2

LEMMA SumAgrees ==
  ASSUME NEW g, NEW h, NEW S, IsFiniteSet(S), \A x \in S : g[x] = h[x]
  PROVE  SumOver(g, S) = SumOver(h, S)
<1> DEFINE Good == {s \in SUBSET S : SumOver(g, s) = SumOver(h, s)}
<1>1. ASSUME NEW s \in SUBSET S, \A t \in SUBSET s : t # s => t \in Good
      PROVE  s \in Good
  <2>1. CASE s = {}
    BY <2>1, SumOfNothing
  <2>2. CASE s # {}
    <3>1. Picked(s) \in s /\ Rest(s) \in Good /\ IsFiniteSet(s)
      BY <1>1, <2>2, RestIsSmaller, FS_Subset
    <3>2. SumOver(g, s) = g[Picked(s)] + SumOver(g, Rest(s)) /\ SumOver(h, s) = h[Picked(s)] + SumOver(h, Rest(s))
      BY <2>2, <3>1, SumPicks
    <3>3. g[Picked(s)] = h[Picked(s)] /\ SumOver(g, Rest(s)) = SumOver(h, Rest(s))
      BY <3>1
    <3> QED BY <3>2, <3>3
  <2> QED BY <2>1, <2>2
<1>2. \A s \in SUBSET S : s \in Good
  <2> HIDE DEF Good
  <2> QED BY <1>1, BySmaller
<1> QED BY <1>2

(* What lies apart is summed apart.                                        *)
LEMMA SumOfUnion ==
  ASSUME NEW g, NEW S, NEW T, IsFiniteSet(S), IsFiniteSet(T), S \cap T = {},
         \A x \in S \cup T : g[x] \in Int
  PROVE  SumOver(g, S \cup T) = SumOver(g, S) + SumOver(g, T)
<1> DEFINE Good == {s \in SUBSET T : SumOver(g, S \cup s) = SumOver(g, S) + SumOver(g, s)}
<1>1. ASSUME NEW s \in SUBSET T, \A t \in SUBSET s : t # s => t \in Good
      PROVE  s \in Good
  <2>1. SumOver(g, S) \in Int
    BY SumIsNumber
  <2>2. CASE s = {}
    <3>1. S \cup s = S
      BY <2>2
    <3> QED BY <2>1, <2>2, <3>1, SumOfNothing
  <2>3. CASE s # {}
    <3> DEFINE p == Picked(s)
               r == Rest(s)
    <3>1. /\ p \in s /\ r \in Good /\ r \in SUBSET T /\ r = s \ {p}
      BY <1>1, <2>3, RestIsSmaller DEF Rest
    <3>2. /\ IsFiniteSet(s) /\ IsFiniteSet(r) /\ IsFiniteSet(S \cup s)
          /\ p \in S \cup s /\ (S \cup s) \ {p} = S \cup r
      BY <3>1, FS_Subset, FS_Union
    <3>3. SumOver(g, S \cup s) = g[p] + SumOver(g, S \cup r)
      <4>1. \A x \in S \cup s : g[x] \in Int
        OBVIOUS
      <4> HIDE DEF p, r
      <4> QED BY <3>2, <4>1, SumOfOne
    <3>4. SumOver(g, s) = g[p] + SumOver(g, r)
      BY <2>3, <3>2, SumPicks
    <3>5. g[p] \in Int /\ SumOver(g, r) \in Int /\ SumOver(g, S \cup r) = SumOver(g, S) + SumOver(g, r)
      <4>1. \A x \in r : g[x] \in Int
        BY <3>1
      <4> HIDE DEF p, r
      <4> QED BY <3>1, <3>2, <4>1, SumIsNumber
    <3> HIDE DEF p, r
    <3> QED BY <2>1, <3>3, <3>4, <3>5
  <2> QED BY <2>2, <2>3
<1>2. \A s \in SUBSET T : s \in Good
  <2> HIDE DEF Good
  <2> QED BY <1>1, BySmaller
<1> QED BY <1>2

(* A part sums up to no more than the whole.                               *)
LEMMA SumOfPart ==
  ASSUME NEW g, NEW S, IsFiniteSet(S), NEW T \in SUBSET S, \A x \in S : g[x] \in Nat
  PROVE  SumOver(g, T) <= SumOver(g, S) /\ SumOver(g, S) = SumOver(g, T) + SumOver(g, S \ T)
<1>1. /\ IsFiniteSet(T) /\ IsFiniteSet(S \ T) /\ T \cap (S \ T) = {} /\ T \cup (S \ T) = S
      /\ \A x \in T \cup (S \ T) : g[x] \in Int
  BY FS_Subset
<1>2. SumOver(g, S) = SumOver(g, T) + SumOver(g, S \ T)
  BY <1>1, SumOfUnion
<1>3. SumOver(g, T) \in Nat /\ SumOver(g, S \ T) \in Nat
  BY <1>1, SumIsNumber
<1> QED BY <1>2, <1>3

(* A sum of ones counts.                                                   *)
LEMMA SumOfOnes ==
  ASSUME NEW g, NEW S, IsFiniteSet(S), \A x \in S : g[x] = 1
  PROVE  SumOver(g, S) = Cardinality(S)
<1> DEFINE Good == {s \in SUBSET S : SumOver(g, s) = Cardinality(s)}
<1>1. ASSUME NEW s \in SUBSET S, \A t \in SUBSET s : t # s => t \in Good
      PROVE  s \in Good
  <2>1. CASE s = {}
    BY <2>1, SumOfNothing, FS_EmptySet
  <2>2. CASE s # {}
    <3>1. Picked(s) \in s /\ Rest(s) \in Good /\ IsFiniteSet(s) /\ Rest(s) = s \ {Picked(s)}
      BY <1>1, <2>2, RestIsSmaller, FS_Subset DEF Rest
    <3>2. SumOver(g, s) = g[Picked(s)] + SumOver(g, Rest(s))
      BY <2>2, <3>1, SumPicks
    <3>3. Cardinality(Rest(s)) = Cardinality(s) - 1 /\ Cardinality(s) \in Nat
      BY <3>1, FS_RemoveElement, FS_CardinalityType
    <3>4. g[Picked(s)] = 1 /\ SumOver(g, Rest(s)) = Cardinality(Rest(s))
      BY <3>1
    <3> QED BY <3>2, <3>3, <3>4
  <2> QED BY <2>1, <2>2
<1>2. \A s \in SUBSET S : s \in Good
  <2> HIDE DEF Good
  <2> QED BY <1>1, BySmaller
<1> QED BY <1>2

(* What is summed can be named differently.                                *)
LEMMA SumOfImage ==
  ASSUME NEW g, NEW h, NEW f, NEW S, IsFiniteSet(S), \A x \in S : g[x] = h[f[x]] /\ g[x] \in Int,
         \A x, y \in S : f[x] = f[y] => x = y
  PROVE  SumOver(h, {f[x] : x \in S}) = SumOver(g, S)
<1> DEFINE Image(s) == {f[x] : x \in s}
           Good == {s \in SUBSET S : SumOver(h, Image(s)) = SumOver(g, s)}
<1>1. ASSUME NEW s \in SUBSET S, \A t \in SUBSET s : t # s => t \in Good
      PROVE  s \in Good
  <2>1. CASE s = {}
    <3>1. Image(s) = {}
      BY <2>1
    <3> QED BY <2>1, <3>1, SumOfNothing
  <2>2. CASE s # {}
    <3> DEFINE p == Picked(s)
               r == Rest(s)
    <3>1. /\ p \in s /\ r \in Good /\ r = s \ {p}
      BY <1>1, <2>2, RestIsSmaller DEF Rest
    <3>2. IsFiniteSet(s) /\ IsFiniteSet(Image(s))
      BY FS_Subset, AsMany
    <3>3. f[p] \in Image(s) /\ Image(s) \ {f[p]} = Image(r)
      BY <3>1
    <3>4. \A y \in Image(s) : h[y] \in Int
      OBVIOUS
    <3>5. SumOver(h, Image(s)) = h[f[p]] + SumOver(h, Image(r))
      <4> HIDE DEF p, r, Image
      <4> QED BY <3>2, <3>3, <3>4, SumOfOne
    <3>6. SumOver(g, s) = g[p] + SumOver(g, r)
      BY <2>2, <3>2, SumPicks
    <3>7. g[p] = h[f[p]] /\ SumOver(h, Image(r)) = SumOver(g, r)
      BY <3>1
    <3> HIDE DEF p, r, Image
    <3> QED BY <3>5, <3>6, <3>7
  <2> QED BY <2>1, <2>2
<1>2. \A s \in SUBSET S : s \in Good
  <2> HIDE DEF Good
  <2> QED BY <1>1, BySmaller
<1> QED BY <1>2

(* The sums of the parts make up the sum of the whole.                     *)
PartOf(S, kind, k) == {x \in S : kind[x] = k}

LEMMA SumOfParts ==
  ASSUME NEW g, NEW S, IsFiniteSet(S), \A x \in S : g[x] \in Int,
         NEW K, IsFiniteSet(K), NEW kind, \A x \in S : kind[x] \in K,
         NEW portion, \A k \in K : portion[k] = SumOver(g, PartOf(S, kind, k))
  PROVE  SumOver(portion, K) = SumOver(g, S)
<1> DEFINE Of(ks) == {x \in S : kind[x] \in ks}
           Good == {ks \in SUBSET K : SumOver(portion, ks) = SumOver(g, Of(ks))}
<1>1. ASSUME NEW ks \in SUBSET K, \A t \in SUBSET ks : t # ks => t \in Good
      PROVE  ks \in Good
  <2>1. CASE ks = {}
    <3>1. Of(ks) = {}
      BY <2>1
    <3> QED BY <2>1, <3>1, SumOfNothing
  <2>2. CASE ks # {}
    <3> DEFINE p == Picked(ks)
               r == Rest(ks)
               own == PartOf(S, kind, p)
    <3> USE DEF PartOf
    <3>1. p \in ks /\ r \in Good /\ r = ks \ {p} /\ IsFiniteSet(ks)
      BY <1>1, <2>2, RestIsSmaller, FS_Subset DEF Rest
    <3>2. /\ IsFiniteSet(own) /\ IsFiniteSet(Of(r)) /\ Of(r) \cap own = {} /\ Of(ks) = Of(r) \cup own
          /\ \A x \in Of(r) \cup own : g[x] \in Int
      BY <3>1, FS_Subset
    <3>3. SumOver(g, Of(ks)) = SumOver(g, Of(r)) + SumOver(g, own)
      <4> HIDE DEF own, Of, r, p
      <4> QED BY <3>2, SumOfUnion
    <3>4. SumOver(portion, ks) = portion[p] + SumOver(portion, r)
      BY <2>2, <3>1, SumPicks
    <3>5. portion[p] = SumOver(g, own) /\ SumOver(portion, r) = SumOver(g, Of(r))
      BY <3>1
    <3>6. SumOver(g, own) \in Int /\ SumOver(g, Of(r)) \in Int
      <4>1. (\A x \in own : g[x] \in Int) /\ \A x \in Of(r) : g[x] \in Int
        OBVIOUS
      <4> HIDE DEF own, Of, r, p
      <4> QED BY <3>2, <4>1, SumIsNumber
    <3> HIDE DEF own, Of, r, p
    <3> QED BY <3>3, <3>4, <3>5, <3>6
  <2> QED BY <2>1, <2>2
<1>2. \A ks \in SUBSET K : ks \in Good
  <2> HIDE DEF Good
  <2> QED BY <1>1, BySmaller
<1>3. Of(K) = S
  OBVIOUS
<1> QED BY <1>2, <1>3
-----------------------------------------------------------------------------
(* Lists of contents.  For a user: the rows of the query, <<content, link  *)
(* to a team, to an organization>>.                                        *)
Mine(contents, r) ==
  {c \in {d \in contents : r.catalog \in {NotGiven, d.catalog}} :
     c.user = r.user /\ (r.folder = NotGiven \/ c.folder = r.folder)}

LinksOf(c, ties) == {l \in ties : l.content = c.id}

LEMMA MineIsChosen ==
  ASSUME NEW contents, NEW r, r.team = NotGiven, r.organization = NotGiven
  PROVE  Filtered(contents, r) = Mine(contents, r)
BY DEF Filtered, Mine

LEMMA SomeRowJoins ==
  ASSUME NEW c, NEW ties
  PROVE  /\ OuterJoined(c, ties) # {}
         /\ LinksOf(c, ties) # {} => OuterJoined(c, ties) = LinksOf(c, ties)
         /\ LinksOf(c, ties) = {} => OuterJoined(c, ties) = {NoLink}
BY DEF OuterJoined, LinksOf

LEMMA RowsOfMine ==
  ASSUME NEW contents, NEW teams, NEW organizations, NEW r,
         r.team = NotGiven, r.organization = NotGiven
  PROVE  /\ \A row \in create_query_shared_content(contents, teams, organizations, r) :
              /\ row = <<row[1], row[2], row[3]>>
              /\ row[1] \in Mine(contents, r)
              /\ row[2] \in OuterJoined(row[1], teams)
              /\ row[3] \in OuterJoined(row[1], organizations)
         /\ \A c \in Mine(contents, r) : \A t \in OuterJoined(c, teams), o \in OuterJoined(c, organizations) :
              <<c, t, o>> \in create_query_shared_content(contents, teams, organizations, r)
<1> DEFINE mine == Mine(contents, r)
           joins == UNION {{c} \X OuterJoined(c, teams) \X OuterJoined(c, organizations) : c \in mine}
<1>1. create_query_shared_content(contents, teams, organizations, r) = joins
  BY MineIsChosen DEF create_query_shared_content
<1>2. ASSUME NEW row \in joins
      PROVE  /\ row = <<row[1], row[2], row[3]>>
             /\ row[1] \in mine
             /\ row[2] \in OuterJoined(row[1], teams)
             /\ row[3] \in OuterJoined(row[1], organizations)
  <2>1. PICK c \in mine : row \in {c} \X OuterJoined(c, teams) \X OuterJoined(c, organizations)
    BY <1>2
  <2>2. PICK t \in OuterJoined(c, teams), o \in OuterJoined(c, organizations) : row = <<c, t, o>>
    BY <2>1
  <2> QED BY <2>2
<1>3. ASSUME NEW c \in mine, NEW t \in OuterJoined(c, teams), NEW o \in OuterJoined(c, organizations)
      PROVE  <<c, t, o>> \in joins
  <2>1. <<c, t, o>> \in {c} \X OuterJoined(c, teams) \X OuterJoined(c, organizations)
    OBVIOUS
  <2> QED BY <2>1
<1> HIDE DEF joins
<1> QED BY <1>1, <1>2, <1>3

Item(c, role, teams, organizations) ==
  [content |-> c.id, owned_by |-> c.user, role |-> role,
   teams |-> With_whom(LinksOf(c, teams)), organizations |-> With_whom(LinksOf(c, organizations))]

LEMMA ItemsOfMine ==
  ASSUME NEW contents, NEW teams, NEW organizations, NEW r,
         r.team = NotGiven, r.organization = NotGiven
  PROVE  get_contents(contents, teams, organizations, r).items =
           {Item(row[1], row[2].role, teams, organizations) :
              row \in create_query_shared_content(contents, teams, organizations, r)}
BY DEF get_contents, build_shared_with_object, RoleOf, Item, LinksOf

LEMMA MineIsListed ==
  ASSUME NEW contents, NEW teams, NEW organizations, NEW r,
         r.team = NotGiven, r.organization = NotGiven
  PROVE  {<<i.content, i.owned_by, i.teams, i.organizations>> :
            i \in get_contents(contents, teams, organizations, r).items}
         = {<<c.id, c.user, With_whom(LinksOf(c, teams)), With_whom(LinksOf(c, organizations))>> :
              c \in Mine(contents, r)}
<1> DEFINE joins == create_query_shared_content(contents, teams, organizations, r)
           items == get_contents(contents, teams, organizations, r).items
           told(i) == <<i.content, i.owned_by, i.teams, i.organizations>>
           said(c) == <<c.id, c.user, With_whom(LinksOf(c, teams)), With_whom(LinksOf(c, organizations))>>
           mine == Mine(contents, r)
<1>1. ASSUME NEW i \in items PROVE \E c \in mine : told(i) = said(c)
  <2>1. PICK row \in joins : i = Item(row[1], row[2].role, teams, organizations)
    BY <1>1, ItemsOfMine
  <2>2. row[1] \in mine
    BY <2>1, RowsOfMine
  <2>3. told(i) = said(row[1])
    BY <2>1 DEF Item
  <2> QED BY <2>2, <2>3
<1>2. ASSUME NEW c \in mine PROVE \E i \in items : told(i) = said(c)
  <2>1. PICK t \in OuterJoined(c, teams), o \in OuterJoined(c, organizations) : TRUE
    BY SomeRowJoins
  <2>2. <<c, t, o>> \in joins
    BY <1>2, <2>1, RowsOfMine
  <2> DEFINE i == Item(<<c, t, o>>[1], <<c, t, o>>[2].role, teams, organizations)
  <2>3. i \in items
    BY <2>2, ItemsOfMine
  <2>4. told(i) = said(c)
    BY DEF Item
  <2> QED BY <2>3, <2>4
<1>3. {told(i) : i \in items} = {said(c) : c \in mine}
  <2> HIDE DEF joins, items, mine, told, said
  <2> QED BY <1>1, <1>2
<1> QED BY <1>3

LEMMA MineIsListedOnce ==
  ASSUME NEW contents, NEW teams, NEW organizations, NEW r, IsFiniteSet(teams),
         r.team = NotGiven, r.organization = NotGiven,
         NEW c \in Mine(contents, r), Cardinality({l.role : l \in LinksOf(c, teams)}) <= 1
  PROVE  Cardinality({i \in get_contents(contents, teams, organizations, r).items : i.content = c.id}) = 1
<1> DEFINE joins == create_query_shared_content(contents, teams, organizations, r)
           items == get_contents(contents, teams, organizations, r).items
           roles == {l.role : l \in LinksOf(c, teams)}
           same == {i \in items : i.content = c.id}
<1>1. PICK t \in OuterJoined(c, teams), o \in OuterJoined(c, organizations) : TRUE
  BY SomeRowJoins
<1> DEFINE it == Item(c, t.role, teams, organizations)
<1>2. it \in same
  <2>1. <<c, t, o>> \in joins
    BY <1>1, RowsOfMine
  <2>2. it = Item(<<c, t, o>>[1], <<c, t, o>>[2].role, teams, organizations)
    OBVIOUS
  <2>3. it \in items
    BY <2>1, <2>2, ItemsOfMine
  <2> QED BY <2>3 DEF Item
<1>3. ASSUME NEW u \in OuterJoined(c, teams) PROVE u.role = t.role
  <2>1. CASE LinksOf(c, teams) = {}
    BY <1>1, <1>3, <2>1, SomeRowJoins
  <2>2. CASE LinksOf(c, teams) # {}
    <3> DEFINE role == [l \in LinksOf(c, teams) |-> l.role]
    <3>1. IsFiniteSet(roles)
      <4>1. IsFiniteSet(LinksOf(c, teams))
        BY FS_Subset DEF LinksOf
      <4>2. role \in Surjection(LinksOf(c, teams), roles)
        BY DEF Surjection
      <4> QED BY <4>1, <4>2, FS_Surjection
    <3>2. u.role \in roles /\ t.role \in roles
      BY <1>1, <1>3, <2>2, SomeRowJoins
    <3> HIDE DEF roles
    <3> QED BY <3>1, <3>2, AtMostOne DEF roles
  <2> QED BY <2>1, <2>2
<1>4. ASSUME NEW i \in same PROVE i = it
  <2>1. PICK row \in joins : i = Item(row[1], row[2].role, teams, organizations)
    BY <1>4, ItemsOfMine
  <2>2. /\ row[1] \in Mine(contents, r) /\ row[2] \in OuterJoined(row[1], teams)
        /\ row[1].id = c.id
    BY <1>4, <2>1, RowsOfMine DEF Item
  <2>3. row[1].user = c.user
    BY <2>2 DEF Mine
  <2>4. LinksOf(row[1], teams) = LinksOf(c, teams) /\ LinksOf(row[1], organizations) = LinksOf(c, organizations)
    BY <2>2 DEF LinksOf
  <2>5. OuterJoined(row[1], teams) = OuterJoined(c, teams)
    BY <2>2 DEF OuterJoined
  <2>6. row[2].role = t.role
    BY <1>3, <2>2, <2>5
  <2> QED BY <2>1, <2>2, <2>3, <2>4, <2>6 DEF Item
<1>5. same = {it}
  <2> HIDE DEF same, it
  <2> QED BY <1>2, <1>4
<1> QED BY <1>5, FS_Singleton

LEMMA MineIsCounted ==
  ASSUME NEW contents, NEW teams, NEW organizations, NEW r,
         IsFiniteSet(contents), IsFiniteSet(teams), IsFiniteSet(organizations),
         r.team = NotGiven, r.organization = NotGiven,
         \A c \in Mine(contents, r) :
           /\ Cardinality(LinksOf(c, teams)) <= 1
           /\ Cardinality(LinksOf(c, organizations)) <= 1
  PROVE  get_contents(contents, teams, organizations, r).total = Cardinality(Mine(contents, r))
<1> DEFINE joins == create_query_shared_content(contents, teams, organizations, r)
           mine == Mine(contents, r)
           the(c, ties) == CHOOSE l \in OuterJoined(c, ties) : TRUE
           f == [c \in mine |-> <<c, the(c, teams), the(c, organizations)>>]
<1>1. ASSUME NEW c \in mine, NEW ties \in {teams, organizations}, NEW l \in OuterJoined(c, ties)
      PROVE  l = the(c, ties)
  <2>1. the(c, ties) \in OuterJoined(c, ties)
    BY SomeRowJoins
  <2>2. CASE LinksOf(c, ties) = {}
    BY <1>1, <2>1, <2>2, SomeRowJoins
  <2>3. CASE LinksOf(c, ties) # {}
    <3>1. l \in LinksOf(c, ties) /\ the(c, ties) \in LinksOf(c, ties)
      BY <1>1, <2>1, <2>3, SomeRowJoins
    <3>2. IsFiniteSet(LinksOf(c, ties)) /\ Cardinality(LinksOf(c, ties)) <= 1
      BY <1>1, FS_Subset DEF LinksOf
    <3> HIDE DEF the
    <3> QED BY <3>1, <3>2, AtMostOne
  <2> QED BY <2>2, <2>3
<1>2. joins = {f[c] : c \in mine}
  <2>1. ASSUME NEW row \in joins PROVE \E c \in mine : row = f[c]
    <3>1. /\ row = <<row[1], row[2], row[3]>> /\ row[1] \in mine
          /\ row[2] \in OuterJoined(row[1], teams)
          /\ row[3] \in OuterJoined(row[1], organizations)
      BY <2>1, RowsOfMine
    <3>2. row[2] = the(row[1], teams) /\ row[3] = the(row[1], organizations)
      BY <1>1, <3>1
    <3> HIDE DEF the
    <3> QED BY <3>1, <3>2
  <2>2. ASSUME NEW c \in mine PROVE f[c] \in joins
    <3>1. the(c, teams) \in OuterJoined(c, teams) /\ the(c, organizations) \in OuterJoined(c, organizations)
      BY SomeRowJoins
    <3> HIDE DEF the
    <3> QED BY <3>1, RowsOfMine
  <2> HIDE DEF joins, mine, f
  <2> QED BY <2>1, <2>2
<1>3. IsFiniteSet(mine)
  BY FS_Subset DEF Mine
<1>4. \A c, d \in mine : f[c] = f[d] => c = d
  <2> HIDE DEF mine, the
  <2> QED OBVIOUS
<1>5. Cardinality({f[c] : c \in mine}) = Cardinality(mine)
  <2> HIDE DEF mine, f
  <2> QED BY <1>3, <1>4, AsMany
<1>6. get_contents(contents, teams, organizations, r).total = Cardinality(joins)
  BY DEF get_contents
<1> QED BY <1>2, <1>5, <1>6

(* For a team or an organization: what it was given.                       *)
Given(contents, ties, to, r) ==
  {x \in {c \in contents : r.catalog \in {NotGiven, c.catalog}} \X ties :
     x[2].content = x[1].id /\ x[2].to = to}

LEMMA GivenIsListed ==
  ASSUME NEW contents, NEW teams, NEW organizations, NEW r,
         IsFiniteSet(contents), IsFiniteSet(teams), IsFiniteSet(organizations),
         ~(r.team = NotGiven /\ r.organization = NotGiven), NEW given,
         given = Given(contents, IF r.team # NotGiven THEN teams ELSE organizations,
                       IF r.team # NotGiven THEN r.team ELSE r.organization, r)
  PROVE  /\ {<<i.content, i.owned_by, i.role>> : i \in get_contents(contents, teams, organizations, r).items}
              = {<<x[1].id, x[1].user, x[2].role>> : x \in given}
         /\ get_contents(contents, teams, organizations, r).total = Cardinality(given)
<1> DEFINE joins == create_query_shared_content(contents, teams, organizations, r)
           items == get_contents(contents, teams, organizations, r).items
           ties == IF r.team # NotGiven THEN teams ELSE organizations
           f == [x \in given |-> IF r.team # NotGiven THEN <<x[1], x[2], NoLink>> ELSE <<x[1], NoLink, x[2]>>]
<1>1. Filtered(contents, r) = {c \in contents : r.catalog \in {NotGiven, c.catalog}}
  BY DEF Filtered
<1>2. joins = {f[x] : x \in given}
  <2>1. CASE r.team # NotGiven
    <3>1. given = {y \in Filtered(contents, r) \X teams : y[2].content = y[1].id /\ y[2].to = r.team}
      BY <1>1, <2>1 DEF Given
    <3>2. joins = {<<x[1], x[2], NoLink>> : x \in given}
      BY <2>1, <3>1 DEF create_query_shared_content
    <3>3. \A x \in given : f[x] = <<x[1], x[2], NoLink>>
      BY <2>1
    <3> HIDE DEF joins, f
    <3> QED BY <3>2, <3>3
  <2>2. CASE r.team = NotGiven
    <3>1. given = {y \in Filtered(contents, r) \X organizations :
                     y[2].content = y[1].id /\ y[2].to = r.organization}
      BY <1>1, <2>2 DEF Given
    <3>2. joins = {<<x[1], NoLink, x[2]>> : x \in given}
      BY <2>2, <3>1 DEF create_query_shared_content
    <3>3. \A x \in given : f[x] = <<x[1], NoLink, x[2]>>
      BY <2>2
    <3> HIDE DEF joins, f
    <3> QED BY <3>2, <3>3
  <2> QED BY <2>1, <2>2
<1>3. ASSUME NEW x \in given PROVE RoleOf(f[x], r) = x[2].role /\ f[x][1] = x[1]
  BY DEF RoleOf
<1>4. {<<i.content, i.owned_by, i.role>> : i \in items} = {<<row[1].id, row[1].user, RoleOf(row, r)>> : row \in joins}
  <2> DEFINE given_to(row, ls, kind) ==
               IF kind THEN {[to |-> row[1].user, role |-> RoleOf(row, r)]}
               ELSE {}
             item(row) == [content |-> row[1].id, owned_by |-> row[1].user, role |-> RoleOf(row, r),
                           teams |-> given_to(row, teams, r.team # NotGiven),
                           organizations |-> given_to(row, organizations, r.team = NotGiven)]
  <2>1. items = {item(row) : row \in joins}
    BY DEF get_contents, build_shared_with_object
  <2>2. \A row \in joins : <<item(row).content, item(row).owned_by, item(row).role>>
                              = <<row[1].id, row[1].user, RoleOf(row, r)>>
    OBVIOUS
  <2> HIDE DEF items, joins, item
  <2> QED BY <2>1, <2>2
<1>5. {<<row[1].id, row[1].user, RoleOf(row, r)>> : row \in joins} = {<<x[1].id, x[1].user, x[2].role>> : x \in given}
  <2> HIDE DEF joins, f
  <2> QED BY <1>2, <1>3
<1>6. IsFiniteSet(given)
  <2>1. IsFiniteSet({c \in contents : r.catalog \in {NotGiven, c.catalog}}) /\ IsFiniteSet(ties)
    BY FS_Subset
  <2>2. IsFiniteSet({c \in contents : r.catalog \in {NotGiven, c.catalog}} \X ties)
    BY <2>1, FS_Product
  <2> QED BY <2>2, FS_Subset DEF Given
<1>7. \A x, y \in given : f[x] = f[y] => x = y
  BY DEF Given
<1>8. Cardinality({f[x] : x \in given}) = Cardinality(given)
  <2> HIDE DEF f
  <2> QED BY <1>6, <1>7, AsMany
<1>9. get_contents(contents, teams, organizations, r).total = Cardinality(joins)
  BY DEF get_contents
<1> QED BY <1>2, <1>4, <1>5, <1>8, <1>9

(* Whatever there is, however it is shared and whatever is asked for       *)
(* (create_query_shared_content, build_shared_with_object): the list holds *)
(* exactly what it should.                                                 *)
THEOREM AnyListIsExact ==
  ASSUME NEW contents, NEW teams, NEW organizations, NEW r,
         IsFiniteSet(contents), IsFiniteSet(teams), IsFiniteSet(organizations)
  PROVE  SharedListsAreExact(contents, teams, organizations, r)
<1>1. CASE r.team = NotGiven /\ r.organization = NotGiven
  <2>1. /\ {<<i.content, i.owned_by, i.teams, i.organizations>> :
              i \in get_contents(contents, teams, organizations, r).items}
             = {<<c.id, c.user, With_whom(LinksOf(c, teams)), With_whom(LinksOf(c, organizations))>> :
                  c \in Mine(contents, r)}
        /\ \A c \in Mine(contents, r) : Cardinality({l.role : l \in LinksOf(c, teams)}) <= 1 =>
             Cardinality({i \in get_contents(contents, teams, organizations, r).items : i.content = c.id}) = 1
        /\ (\A c \in Mine(contents, r) : /\ Cardinality(LinksOf(c, teams)) <= 1
                                         /\ Cardinality(LinksOf(c, organizations)) <= 1)
             => get_contents(contents, teams, organizations, r).total = Cardinality(Mine(contents, r))
    BY <1>1, MineIsListed, MineIsListedOnce, MineIsCounted
  <2> QED BY Zenon, <1>1, <2>1 DEF SharedListsAreExact, Mine, LinksOf
<1>2. CASE ~(r.team = NotGiven /\ r.organization = NotGiven)
  <2> DEFINE given == Given(contents, IF r.team # NotGiven THEN teams ELSE organizations,
                            IF r.team # NotGiven THEN r.team ELSE r.organization, r)
  <2>1. /\ {<<i.content, i.owned_by, i.role>> : i \in get_contents(contents, teams, organizations, r).items}
             = {<<x[1].id, x[1].user, x[2].role>> : x \in given}
        /\ get_contents(contents, teams, organizations, r).total = Cardinality(given)
    <3> HIDE DEF given
    <3> QED BY <1>2, GivenIsListed DEF given
  <2> QED BY Zenon, <1>2, <2>1 DEF SharedListsAreExact, Given
<1> QED BY <1>1, <1>2
-----------------------------------------------------------------------------
(* Classes of places.  What areas offer a place: the classes of those that *)
(* cover it.                                                               *)
ClassesAt(areas, p) == {a.pt_class : a \in {b \in areas : p \in b.at}}

Painted(a) == a = [pt_class |-> a.pt_class, at |-> a.at]

LEMMA UnitedOffersTheSame ==
  ASSUME NEW areas, NEW p
  PROVE  /\ ClassesAt(United(areas), p) = ClassesAt(areas, p)
         /\ \A a \in United(areas) : Painted(a)
<1> DEFINE of(k) == UNION {b.at : b \in {c \in areas : c.pt_class = k}}
<1>1. United(areas) = {[pt_class |-> a.pt_class, at |-> of(a.pt_class)] : a \in areas}
  BY DEF United
<1>2. ASSUME NEW k \in ClassesAt(areas, p) PROVE k \in ClassesAt(United(areas), p)
  <2>1. PICK a \in areas : p \in a.at /\ k = a.pt_class
    BY <1>2 DEF ClassesAt
  <2> DEFINE u == [pt_class |-> k, at |-> of(k)]
  <2>2. u \in United(areas)
    BY <1>1, <2>1
  <2>3. p \in of(k)
    BY <2>1
  <2> QED BY <2>2, <2>3 DEF ClassesAt
<1>3. ASSUME NEW k \in ClassesAt(United(areas), p) PROVE k \in ClassesAt(areas, p)
  <2>1. PICK u \in United(areas) : p \in u.at /\ k = u.pt_class
    BY <1>3 DEF ClassesAt
  <2>2. PICK a \in areas : u = [pt_class |-> a.pt_class, at |-> of(a.pt_class)]
    BY <1>1, <2>1
  <2>3. p \in of(k) /\ a.pt_class = k
    BY <2>1, <2>2
  <2>4. PICK b \in areas : b.pt_class = k /\ p \in b.at
    BY <2>3
  <2> QED BY <2>4 DEF ClassesAt
<1>4. \A a \in United(areas) : Painted(a)
  BY <1>1 DEF Painted
<1> QED BY <1>2, <1>3, <1>4

(* Cutting the better classes out of the worse leaves the best.            *)
LEMMA DifferenceKeepsTheBest ==
  ASSUME NEW united, NEW p, \A a \in united : Painted(a) /\ a.pt_class \in Nat
  PROVE  ClassesAt(create_difference_between_steps(united), p) =
           {k \in ClassesAt(united, p) : \A m \in ClassesAt(united, p) : k <= m}
<1> DEFINE better(a) == UNION {b.at : b \in {c \in united : a.pt_class > c.pt_class}}
           cut(a) == [pt_class |-> a.pt_class, at |-> a.at \ better(a)]
           offered == ClassesAt(united, p)
           best == {k \in offered : \A m \in offered : k <= m}
<1>1. create_difference_between_steps(united) = {cut(a) : a \in united}
  <2>1. ASSUME NEW a \in united PROVE [a EXCEPT !.at = @ \ better(a)] = cut(a)
    <3>1. PICK k, t : a = [pt_class |-> k, at |-> t]
      BY DEF Painted
    <3>2. a.pt_class = k /\ a.at = t
      BY <3>1
    <3>3. \A q, o, u : [[pt_class |-> q, at |-> o] EXCEPT !.at = u] = [pt_class |-> q, at |-> u]
      OBVIOUS
    <3>4. \A u : [a EXCEPT !.at = u] = [pt_class |-> k, at |-> u]
      BY Zenon, <3>1, <3>3
    <3>5. cut(a) = [pt_class |-> k, at |-> a.at \ better(a)]
      BY <3>2
    <3> HIDE DEF better, cut
    <3> QED BY Zenon, <3>4, <3>5
  <2>2. create_difference_between_steps(united) = {[a EXCEPT !.at = @ \ better(a)] : a \in united}
    BY DEF create_difference_between_steps
  <2> HIDE DEF cut, better
  <2> QED BY <2>1, <2>2
<1>2. ASSUME NEW a \in united, p \in a.at
      PROVE  p \notin better(a) <=> \A m \in offered : a.pt_class <= m
  <2>1. p \in better(a) <=> \E b \in united : a.pt_class > b.pt_class /\ p \in b.at
    OBVIOUS
  <2>2. (\E b \in united : a.pt_class > b.pt_class /\ p \in b.at) <=> \E m \in offered : a.pt_class > m
    BY DEF ClassesAt
  <2>3. offered \in SUBSET Nat /\ a.pt_class \in Nat
    BY DEF ClassesAt
  <2>4. (\E m \in offered : a.pt_class > m) <=> ~\A m \in offered : a.pt_class <= m
    <3>1. \A m \in offered : a.pt_class > m <=> ~(a.pt_class <= m)
      <4> HIDE DEF offered
      <4> QED BY ONLY <2>3
    <3> HIDE DEF offered
    <3> QED BY ONLY <3>1, Zenon
  <2> HIDE DEF offered, better
  <2> QED BY ONLY <2>1, <2>2, <2>4, Zenon
<1>3. ASSUME NEW k \in best PROVE k \in ClassesAt({cut(a) : a \in united}, p)
  <2>1. PICK a \in united : p \in a.at /\ a.pt_class = k
    BY <1>3 DEF ClassesAt
  <2>2. p \notin better(a)
    BY <1>2, <1>3, <2>1
  <2>3. cut(a) \in {cut(b) : b \in united} /\ p \in cut(a).at /\ cut(a).pt_class = k
    BY <2>1, <2>2
  <2> HIDE DEF cut
  <2> QED BY <2>3 DEF ClassesAt
<1>4. ASSUME NEW k \in ClassesAt({cut(a) : a \in united}, p) PROVE k \in best
  <2>1. PICK a \in united : p \in cut(a).at /\ cut(a).pt_class = k
    <3> HIDE DEF cut
    <3> QED BY <1>4 DEF ClassesAt
  <2>2. p \in a.at /\ p \notin better(a) /\ a.pt_class = k
    BY <2>1
  <2>3. k \in offered
    BY <2>2 DEF ClassesAt
  <2>4. \A m \in offered : k <= m
    BY <1>2, <2>2
  <2> QED BY <2>3, <2>4
<1> HIDE DEF cut, best
<1> QED BY <1>1, <1>3, <1>4 DEF best

LEMMA OnlyOneIsBest ==
  ASSUME NEW S \in SUBSET Nat
  PROVE  {k \in S : \A m \in S : k <= m} = IF S = {} THEN {} ELSE {Min(S)}
<1>1. CASE S # {}
  <2>1. \E x \in S : \A y \in S : x <= y
    BY <1>1, LeastExists
  <2>2. Min(S) \in S /\ \A y \in S : Min(S) <= y
    BY <2>1 DEF Min
  <2>3. ASSUME NEW k \in S, \A m \in S : k <= m PROVE k = Min(S)
    <3>1. k <= Min(S) /\ Min(S) <= k /\ k \in Nat /\ Min(S) \in Nat
      BY <2>2, <2>3
    <3> QED BY <3>1
  <2> HIDE DEF Min
  <2> QED BY <1>1, <2>2, <2>3
<1> QED BY <1>1

(* Near and far are the same to both.                                      *)
LEMMA NearIsNotFar ==
  ASSUME StepWidth \in Nat, NEW p \in Int, NEW at \in Int, NEW d \in Int
  PROVE  (p - at) * StepWidth \in -d..d
           <=> StepWidth * (IF p < at THEN at - p ELSE p - at) <= d
<1>1. CASE p < at
  <2>1. PICK n \in Nat : n = at - p /\ p - at = -n
    BY <1>1
  <2>2. n * StepWidth \in Nat /\ (p - at) * StepWidth = -(n * StepWidth) /\ StepWidth * (at - p) = n * StepWidth
    BY <2>1
  <2> QED BY <1>1, <2>2
<1>2. CASE ~(p < at)
  <2>1. PICK n \in Nat : n = p - at
    BY <1>2
  <2>2. n * StepWidth \in Nat /\ (p - at) * StepWidth = n * StepWidth /\ StepWidth * (p - at) = n * StepWidth
    BY <2>1
  <2> QED BY <1>2, <2>2
<1> QED BY <1>1, <1>2

(* Whatever the stations and the classification (crud_oev_gueteklasse.py): *)
(* a place has the best class offered to it and no other.                  *)
THEOREM AnyPlaceGetsItsBestClass ==
  ASSUME StepWidth \in Nat, Places \in SUBSET Int,
         NEW stations, \A s \in stations : s.at \in Int,
         NEW config, NEW catchment,
         \A c \in DOMAIN config.classification :
           \A d \in DOMAIN config.classification[c] : d \in Int /\ config.classification[c][d] \in Nat
  PROVE  PlacesGetTheirBestClass(stations, config, catchment)
<1> DEFINE kinds == config.classification
           far(p, s) == StepWidth * (IF p < s.at THEN s.at - p ELSE p - s.at)
           served == {x \in stations : x.class \in DOMAIN kinds}
           offers(p) == UNION {{kinds[s.class][d] : d \in {e \in DOMAIN kinds[s.class] : far(p, s) <= e}} : s \in served}
           areas == compute_station_areas(stations, config, catchment)
           classes == oev_gueteklasse_run(stations, config, catchment)
<1>1. SUFFICES ASSUME \A c \in DOMAIN kinds : Rings(c, config, catchment) = DOMAIN kinds[c],
                      NEW p \in Places
               PROVE  ClassesAt(classes, p) = IF offers(p) = {} THEN {} ELSE {Min(offers(p))}
  BY Zenon DEF PlacesGetTheirBestClass, ClassesAt
<1>2. areas = UNION {{[pt_class |-> kinds[s.class][d], at |-> Near(s, d)] : d \in DOMAIN kinds[s.class]} : s \in served}
  BY <1>1 DEF compute_station_areas
<1>3. ASSUME NEW s \in served, NEW d \in DOMAIN kinds[s.class]
      PROVE  p \in Near(s, d) <=> far(p, s) <= d
  <2>1. p \in Int /\ s.at \in Int /\ d \in Int
    BY <1>1, <1>3
  <2>2. p \in Near(s, d) <=> (p - s.at) * StepWidth \in -d..d
    BY <1>1 DEF Near
  <2> HIDE DEF served, kinds
  <2> QED BY <2>1, <2>2, NearIsNotFar
<1>4. ClassesAt(areas, p) = offers(p)
  <2>1. ASSUME NEW k \in offers(p) PROVE k \in ClassesAt(areas, p)
    <3>1. PICK s \in served : \E d \in DOMAIN kinds[s.class] : far(p, s) <= d /\ k = kinds[s.class][d]
      BY <2>1
    <3>2. PICK d \in DOMAIN kinds[s.class] : far(p, s) <= d /\ k = kinds[s.class][d]
      BY <3>1
    <3> DEFINE a == [pt_class |-> kinds[s.class][d], at |-> Near(s, d)]
    <3>3. a \in areas
      BY <1>2, <3>2
    <3>4. p \in a.at /\ a.pt_class = k
      BY <1>3, <3>2
    <3> HIDE DEF a
    <3> QED BY <3>3, <3>4 DEF ClassesAt
  <2>2. ASSUME NEW k \in ClassesAt(areas, p) PROVE k \in offers(p)
    <3>1. PICK a \in areas : p \in a.at /\ a.pt_class = k
      BY <2>2 DEF ClassesAt
    <3>2. PICK s \in served : a \in {[pt_class |-> kinds[s.class][d], at |-> Near(s, d)] : d \in DOMAIN kinds[s.class]}
      BY <1>2, <3>1
    <3>3. PICK d \in DOMAIN kinds[s.class] : a = [pt_class |-> kinds[s.class][d], at |-> Near(s, d)]
      BY <3>2
    <3>4. far(p, s) <= d /\ k = kinds[s.class][d]
      BY <1>3, <3>1, <3>3
    <3> QED BY <3>4
  <2> HIDE DEF areas, offers
  <2> QED BY <2>1, <2>2
<1>5. \A k \in offers(p) : k \in Nat
  OBVIOUS
<1>6. \A a \in United(areas) : Painted(a) /\ a.pt_class \in Nat
  <2>1. \A a \in areas : a.pt_class \in Nat
    BY <1>2
  <2>2. \A a \in United(areas) : a.pt_class \in Nat
    <3> HIDE DEF areas
    <3> QED BY <2>1 DEF United
  <2> QED BY <2>2, UnitedOffersTheSame
<1>7. ClassesAt(classes, p) = {k \in offers(p) : \A m \in offers(p) : k <= m}
  <2>1. classes = create_difference_between_steps(United(areas))
    BY DEF oev_gueteklasse_run
  <2>2. ClassesAt(United(areas), p) = offers(p)
    BY <1>4, UnitedOffersTheSame
  <2> HIDE DEF areas, classes, offers
  <2> QED BY <1>6, <2>1, <2>2, DifferenceKeepsTheBest
<1> HIDE DEF classes, offers
<1> QED BY <1>5, <1>7, OnlyOneIsBest
-----------------------------------------------------------------------------
(* Joins and flows.  Whatever the tables (crud_data_management.py): a      *)
(* target has the statistic of its partners, where no two look the same.   *)
THEOREM AnyJoinIsExact ==
  ASSUME NEW targets, NEW joined, NEW op
  PROVE  JoinIsExact(targets, joined, op)
<1> DEFINE pairs == {x \in targets \X joined : x[1].key = x[2].key}
           alike(l) == {x \in pairs : x[1].look = l}
           mine(t) == {<<t, j>> : j \in {i \in joined : i.key = t.key}}
           row(l, s) == [look |-> l, value |-> get_statistics_sql(op, s)]
           partners == {s \in targets : \E j \in joined : j.key = s.key}
           looks == {x[1].look : x \in pairs}
<1>1. SUFFICES ASSUME \A s, t \in targets : s.look = t.look => s = t
               PROVE  {row(l, alike(l)) : l \in looks} = {row(t.look, mine(t)) : t \in partners}
  BY Zenon DEF JoinIsExact, join
<1>2. ASSUME NEW t \in targets PROVE alike(t.look) = mine(t)
  <2>1. ASSUME NEW x \in alike(t.look) PROVE x \in mine(t)
    <3>1. x[1] = t /\ x = <<x[1], x[2]>> /\ x[2] \in joined /\ x[2].key = t.key
      BY <1>1, <2>1
    <3> QED BY <3>1
  <2>2. ASSUME NEW x \in mine(t) PROVE x \in alike(t.look)
    BY <2>2
  <2> HIDE DEF alike, mine
  <2> QED BY <2>1, <2>2
<1>3. ASSUME NEW l \in looks PROVE \E t \in partners : l = t.look
  BY <1>3
<1>4. ASSUME NEW t \in partners PROVE t.look \in looks
  <2>1. PICK j \in joined : j.key = t.key
    BY <1>4
  <2>2. <<t, j>> \in pairs /\ <<t, j>>[1].look = t.look
    BY <1>4, <2>1
  <2> HIDE DEF pairs
  <2> QED BY <2>2
<1>5. \A t \in partners : t.look \in looks /\ row(t.look, mine(t)) = row(t.look, alike(t.look))
  BY <1>2, <1>4
<1> HIDE DEF alike, mine, partners, row, looks
<1> QED BY <1>3, <1>5

LEMMA WeightIsSum ==
  ASSUME NEW S, IsFiniteSet(S)
  PROVE  Weight(S) = SumOver([x \in S |-> x[2].weight], S)
<1> DEFINE g == [x \in S |-> x[2].weight]
           it == CHOOSE sm : sm = [s \in SUBSET S |-> IF s = {} THEN 0 ELSE Picked(s)[2].weight + sm[Rest(s)]]
<1>1. ASSUME NEW sm
      PROVE  Summing(g, S, sm) <=> sm = [s \in SUBSET S |-> IF s = {} THEN 0 ELSE Picked(s)[2].weight + sm[Rest(s)]]
  <2>1. \A s \in SUBSET S : s # {} => g[Picked(s)] = Picked(s)[2].weight
    BY RestIsSmaller
  <2> HIDE DEF g
  <2> QED BY <2>1 DEF Summing
<1>2. Summing(g, S, it)
  BY <1>1, SummingExists
<1>3. Weight(S) = it[S]
  BY Zenon DEF Weight, MapThenSumSet, MapThenFoldSet, Picked, Rest
<1> HIDE DEF g, it
<1> QED BY <1>2, <1>3, SumOfSubset DEF g

Weighing(s) == MapThenSumSet(LAMBDA m : m.weight, s)

LEMMA MatrixWeightIsSum ==
  ASSUME NEW S, IsFiniteSet(S)
  PROVE  Weighing(S) = SumOver([m \in S |-> m.weight], S)
<1> DEFINE g == [m \in S |-> m.weight]
           it == CHOOSE sm : sm = [s \in SUBSET S |-> IF s = {} THEN 0 ELSE Picked(s).weight + sm[Rest(s)]]
<1>1. ASSUME NEW sm
      PROVE  Summing(g, S, sm) <=> sm = [s \in SUBSET S |-> IF s = {} THEN 0 ELSE Picked(s).weight + sm[Rest(s)]]
  <2>1. \A s \in SUBSET S : s # {} => g[Picked(s)] = Picked(s).weight
    BY RestIsSmaller
  <2> HIDE DEF g
  <2> QED BY <2>1 DEF Summing
<1>2. Summing(g, S, it)
  BY <1>1, SummingExists
<1>3. Weighing(S) = it[S]
  BY Zenon DEF Weighing, MapThenSumSet, MapThenFoldSet, Picked, Rest
<1> HIDE DEF g, it
<1> QED BY <1>2, <1>3, SumOfSubset DEF g

(* Rows joined to each row of a part of the matrix once weigh what the     *)
(* part says.                                                              *)
LEMMA JoinedOnceWeighTheSame ==
  ASSUME NEW joins, IsFiniteSet(joins), NEW portion, \A x \in joins : x[2].weight \in Int,
         portion = {x[2] : x \in joins}, \A x, y \in joins : x[2] = y[2] => x = y
  PROVE  Weight(joins) = Weighing(portion)
<1> DEFINE f == [x \in joins |-> x[2]]
           g == [x \in joins |-> x[2].weight]
           h == [m \in portion |-> m.weight]
<1>1. {f[x] : x \in joins} = portion /\ \A x, y \in joins : f[x] = f[y] => x = y
  OBVIOUS
<1>2. IsFiniteSet(portion)
  <2>1. IsFiniteSet({f[x] : x \in joins})
    <3> HIDE DEF f
    <3> QED BY <1>1, AsMany
  <2> QED BY <1>1, <2>1
<1>3. \A x \in joins : g[x] = h[f[x]] /\ g[x] \in Int
  OBVIOUS
<1>4. SumOver(h, portion) = SumOver(g, joins)
  <2>1. SumOver(h, {f[x] : x \in joins}) = SumOver(g, joins)
    <3> HIDE DEF f, g, h
    <3>1. \A x, y \in joins : f[x] = f[y] => x = y
      BY <1>1
    <3> QED BY ONLY IsFiniteSet(joins), <1>3, <3>1, SumOfImage, SMTT(60)
  <2> QED BY <1>1, <2>1
<1> QED BY <1>2, <1>4, WeightIsSum, MatrixWeightIsSum

(* The rows of the tool: geometries joined to the matrix.                  *)
Related(geometries, matrix) ==
  {x \in (geometries \X geometries) \X matrix : x[1][1].id = x[2].from /\ x[1][2].id = x[2].to}

Arriving(geometries, matrix) == {x \in geometries \X matrix : x[1].id = x[2].to}

(* What the matrix says of every pair, and what it says arrives.           *)
FlowsWanted(geometries, matrix) ==
  {[from |-> m.from, to |-> m.to, weight |-> Weighing({n \in matrix : n.from = m.from /\ n.to = m.to})] :
     m \in {n \in matrix : {n.from, n.to} \subseteq {g.id : g \in geometries}}}

PointsWanted(geometries, matrix) ==
  {[at |-> g.row, weight |-> Weighing({m \in matrix : m.to = g.id})] :
     g \in {h \in geometries : \E m \in matrix : m.to = h.id}}

LEMMA RelationsAreExact ==
  ASSUME NEW geometries, NEW matrix, IsFiniteSet(geometries), IsFiniteSet(matrix),
         \A m \in matrix : m.weight \in Int,
         \A g, h \in geometries : g.id = h.id => g = h
  PROVE  relations(geometries, matrix) = FlowsWanted(geometries, matrix)
<1> DEFINE joins == Related(geometries, matrix)
           of(m) == {x \in joins : x[2].from = m.from /\ x[2].to = m.to}
           alike(m) == {n \in matrix : n.from = m.from /\ n.to = m.to}
           known == {n \in matrix : {n.from, n.to} \subseteq {g.id : g \in geometries}}
           sum(s) == Weighing(s)
<1>1. relations(geometries, matrix) = {[from |-> m.from, to |-> m.to, weight |-> Weight(of(m))] : m \in {x[2] : x \in joins}}
  BY DEF relations, Related
<1>2. {x[2] : x \in joins} = known
  <2>1. ASSUME NEW m \in known PROVE m \in {x[2] : x \in joins}
    <3>1. PICK g \in geometries, h \in geometries : g.id = m.from /\ h.id = m.to
      BY <2>1
    <3>2. <<<<g, h>>, m>> \in joins /\ <<<<g, h>>, m>>[2] = m
      BY <2>1, <3>1 DEF Related
    <3> HIDE DEF joins
    <3> QED BY <3>2
  <2>2. ASSUME NEW x \in joins PROVE x[2] \in known
    BY <2>2 DEF Related
  <2> HIDE DEF joins, known
  <2> QED BY <2>1, <2>2
<1>3. IsFiniteSet(joins)
  BY FS_Product, FS_Subset DEF Related
<1>4. ASSUME NEW x \in joins, NEW y \in joins, x[2] = y[2] PROVE x = y
  BY <1>4 DEF Related
<1>5. ASSUME NEW m \in known PROVE Weight(of(m)) = sum(alike(m))
  <2>1. alike(m) = {x[2] : x \in of(m)}
    <3>1. ASSUME NEW n \in alike(m) PROVE \E x \in of(m) : n = x[2]
      <4>1. n \in known
        BY <1>5, <3>1
      <4>2. n \in {x[2] : x \in joins}
        BY <1>2, <4>1
      <4>3. PICK x \in joins : n = x[2]
        BY <4>2
      <4> QED BY <3>1, <4>3
    <3>2. ASSUME NEW x \in of(m) PROVE x[2] \in alike(m)
      BY <3>2 DEF Related
    <3> HIDE DEF of, alike
    <3> QED BY <3>1, <3>2
  <2>2. IsFiniteSet(of(m))
    BY <1>3, FS_Subset
  <2>3. \A x \in of(m) : x[2].weight \in Int
    BY DEF Related
  <2>4. \A x, y \in of(m) : x[2] = y[2] => x = y
    BY <1>4
  <2> HIDE DEF of, alike
  <2> QED BY <2>1, <2>2, <2>3, <2>4, JoinedOnceWeighTheSame
<1>6. relations(geometries, matrix) = {[from |-> m.from, to |-> m.to, weight |-> sum(alike(m))] : m \in known}
  <2> HIDE DEF joins, of, alike, known, sum
  <2> QED BY <1>1, <1>2, <1>5
<1> QED BY Zenon, <1>6 DEF FlowsWanted

LEMMA ArrivalsAreExact ==
  ASSUME NEW geometries, NEW matrix, IsFiniteSet(geometries), IsFiniteSet(matrix),
         \A m \in matrix : m.weight \in Int,
         \A g, h \in geometries : g.id = h.id => g = h, NEW g \in geometries
  PROVE  Weight({x \in Arriving(geometries, matrix) : x[1].id = g.id}) =
           Weighing({m \in matrix : m.to = g.id})
<1> DEFINE joins == {x \in Arriving(geometries, matrix) : x[1].id = g.id}
           portion == {m \in matrix : m.to = g.id}
<1>1. portion = {x[2] : x \in joins}
  <2>1. ASSUME NEW m \in portion PROVE \E x \in joins : m = x[2]
    <3>1. <<g, m>> \in joins /\ <<g, m>>[2] = m
      BY <2>1 DEF Arriving
    <3> HIDE DEF joins
    <3> QED BY <3>1
  <2>2. ASSUME NEW x \in joins PROVE x[2] \in portion
    BY <2>2 DEF Arriving
  <2> HIDE DEF joins, portion
  <2> QED BY <2>1, <2>2
<1>2. IsFiniteSet(joins)
  BY FS_Product, FS_Subset DEF Arriving
<1>3. \A x \in joins : x[2].weight \in Int
  BY DEF Arriving
<1>4. \A x, y \in joins : x[2] = y[2] => x = y
  BY DEF Arriving
<1> HIDE DEF joins, portion
<1> QED BY <1>1, <1>2, <1>3, <1>4, JoinedOnceWeighTheSame DEF joins, portion

LEMMA PointsAreExact ==
  ASSUME NEW geometries, NEW matrix, IsFiniteSet(geometries), IsFiniteSet(matrix),
         \A m \in matrix : m.weight \in Int,
         \A g, h \in geometries : g.id = h.id => g = h,
         \A g, h \in geometries : g.text_attr2 = h.text_attr2 => g = h
  PROVE  points(geometries, matrix) = PointsWanted(geometries, matrix)
<1> DEFINE joins == Arriving(geometries, matrix)
           total(i) == Weight({x \in joins : x[1].id = i})
           sum(g) == Weighing({m \in matrix : m.to = g.id})
           reached == {h \in geometries : \E m \in matrix : m.to = h.id}
           grouped == {[id |-> i, weight |-> total(i)] : i \in {x[1].id : x \in joins}}
           both == {x \in geometries \X grouped : x[1].id = x[2].id}
           keys == {<<x[1].text_attr2, x[2].weight>> : x \in both}
           the(k) == CHOOSE x \in both : x[1].text_attr2 = k[1] /\ x[2].weight = k[2]
           pair(g) == <<g, [id |-> g.id, weight |-> total(g.id)]>>
<1>1. points(geometries, matrix) = {[at |-> the(k)[1].row, weight |-> k[2]] : k \in keys}
  BY Zenon DEF points, Arriving
<1>2. ASSUME NEW g \in reached PROVE pair(g) \in both
  <2>1. PICK m \in matrix : m.to = g.id
    BY <1>2
  <2>2. <<g, m>> \in joins /\ <<g, m>>[1].id = g.id
    BY <1>2, <2>1 DEF Arriving
  <2>3. g.id \in {x[1].id : x \in joins}
    <3> HIDE DEF joins
    <3> QED BY <2>2
  <2>4. [id |-> g.id, weight |-> total(g.id)] \in grouped
    <3> HIDE DEF joins, total
    <3> QED BY <2>3
  <2> HIDE DEF grouped, total
  <2> QED BY <1>2, <2>4
<1>3. ASSUME NEW x \in both PROVE x[1] \in reached /\ x = pair(x[1])
  <2>1. x[1] \in geometries /\ x[2] \in grouped /\ x = <<x[1], x[2]>> /\ x[1].id = x[2].id
    <3> HIDE DEF grouped
    <3> QED BY <1>3
  <2>2. PICK i \in {y[1].id : y \in joins} : x[2] = [id |-> i, weight |-> total(i)]
    <3> HIDE DEF joins, total
    <3> QED BY <2>1
  <2>3. PICK y \in joins : i = y[1].id
    BY <2>2
  <2>4. y[2] \in matrix /\ y[2].to = i
    BY <2>3 DEF Arriving
  <2>5. i = x[1].id
    <3> HIDE DEF joins, total
    <3> QED BY <2>1, <2>2
  <2>6. x[1] \in reached
    BY <2>1, <2>4, <2>5
  <2> HIDE DEF joins, total, grouped, reached
  <2> QED BY <2>1, <2>2, <2>5, <2>6
<1>4. ASSUME NEW g \in reached PROVE total(g.id) = sum(g)
  BY <1>4, ArrivalsAreExact
<1>5. ASSUME NEW g \in reached PROVE <<g.text_attr2, total(g.id)>> \in keys /\ the(<<g.text_attr2, total(g.id)>>)[1] = g
  <2> DEFINE k == <<g.text_attr2, total(g.id)>>
  <2>1. pair(g) \in both /\ pair(g)[1] = g /\ pair(g)[2].weight = total(g.id)
    <3> HIDE DEF both, total
    <3> QED BY <1>2, <1>5
  <2>2. k \in keys
    <3> HIDE DEF both, total, pair
    <3> QED BY <2>1
  <2>3. \E x \in both : x[1].text_attr2 = k[1] /\ x[2].weight = k[2]
    <3> HIDE DEF both, total, pair
    <3> QED BY <2>1
  <2>4. the(k) \in both /\ the(k)[1].text_attr2 = g.text_attr2
    <3>1. the(k) \in both /\ the(k)[1].text_attr2 = k[1]
      <4> HIDE DEF both, k
      <4> QED BY <2>3
    <3> HIDE DEF both, the, total
    <3> QED BY <3>1
  <2>5. the(k)[1] \in geometries /\ g \in geometries
    <3>1. the(k)[1] \in reached
      <4> HIDE DEF both, the, k, reached
      <4> QED BY <1>3, <2>4
    <3> HIDE DEF the, k
    <3> QED BY <1>5, <3>1
  <2> HIDE DEF the, keys, both, total
  <2> QED BY <2>2, <2>4, <2>5
<1>6. ASSUME NEW k \in keys PROVE \E g \in reached : k = <<g.text_attr2, total(g.id)>>
  <2>1. PICK x \in both : k = <<x[1].text_attr2, x[2].weight>>
    <3> HIDE DEF both
    <3> QED BY <1>6
  <2>2. x[1] \in reached /\ x = pair(x[1])
    BY <1>3, <2>1
  <2>3. x[2].weight = total(x[1].id)
    <3> HIDE DEF total, reached
    <3> QED BY <2>2
  <2> HIDE DEF total, reached
  <2> QED BY <2>1, <2>2, <2>3
<1> DEFINE point(k) == [at |-> the(k)[1].row, weight |-> k[2]]
           drawn(g) == [at |-> g.row, weight |-> sum(g)]
<1>7. ASSUME NEW g \in reached PROVE point(<<g.text_attr2, total(g.id)>>) = drawn(g)
  <2> HIDE DEF the, total, sum, reached
  <2> QED BY <1>4, <1>5, <1>7
<1>8. {point(k) : k \in keys} = {drawn(g) : g \in reached}
  <2>1. ASSUME NEW k \in keys PROVE \E g \in reached : point(k) = drawn(g)
    <3> HIDE DEF point, drawn, keys, reached, total
    <3> QED BY <1>6, <1>7, <2>1
  <2>2. ASSUME NEW g \in reached PROVE \E k \in keys : point(k) = drawn(g)
    <3> HIDE DEF point, drawn, keys, reached, total
    <3> QED BY <1>5, <1>7, <2>2
  <2> HIDE DEF point, drawn, keys, reached
  <2> QED BY <2>1, <2>2
<1> QED BY Zenon, <1>1, <1>8 DEF PointsWanted

(* Whatever the geometries and the matrix (the origin-destination tool):   *)
(* flows are what the matrix says of each pair, where ids are unique.      *)
THEOREM AnyFlowIsExact ==
  ASSUME NEW geometries, NEW matrix, IsFiniteSet(geometries), IsFiniteSet(matrix),
         \A m \in matrix : m.weight \in Int
  PROVE  FlowsAreExact(geometries, matrix)
<1> SUFFICES ASSUME \A g, h \in geometries : g.id = h.id => g = h
             PROVE  /\ relations(geometries, matrix) = FlowsWanted(geometries, matrix)
                    /\ (\A g, h \in geometries : g.text_attr2 = h.text_attr2 => g = h) =>
                         points(geometries, matrix) = PointsWanted(geometries, matrix)
  BY Zenon DEF FlowsAreExact, FlowsWanted, PointsWanted, Weighing
<1> QED BY RelationsAreExact, PointsAreExact
-----------------------------------------------------------------------------
(* Trips.  Every trip is of one type, every type of one mode: counting by  *)
(* either counts each trip once.                                           *)
LEMMA TripsByTypeAreAll ==
  ASSUME NEW trips, IsFiniteSet(trips)
  PROVE  /\ IsFiniteSet(DOMAIN trip_cnt(trips))
         /\ \A t \in DOMAIN trip_cnt(trips) : trip_cnt(trips)[t] \in Nat
         /\ SumOver(trip_cnt(trips), DOMAIN trip_cnt(trips)) = Cardinality(trips)
<1> DEFINE cnt == trip_cnt(trips)
           types == {d.type : d \in trips}
           one == [d \in trips |-> 1]
           kind == [d \in trips |-> d.type]
<1>1. DOMAIN cnt = types /\ \A t \in types : cnt[t] = Cardinality({d \in trips : d.type = t})
  BY DEF trip_cnt
<1>2. IsFiniteSet(types)
  <2>1. kind \in Surjection(trips, types)
    BY DEF Surjection
  <2> QED BY <2>1, FS_Surjection
<1>3. ASSUME NEW t \in types
      PROVE  /\ cnt[t] \in Nat
             /\ cnt[t] = SumOver(one, {d \in trips : kind[d] = t})
  <2>1. IsFiniteSet({d \in trips : d.type = t}) /\ {d \in trips : kind[d] = t} = {d \in trips : d.type = t}
    BY FS_Subset
  <2>2. \A d \in {d \in trips : d.type = t} : one[d] = 1
    OBVIOUS
  <2>3. SumOver(one, {d \in trips : d.type = t}) = Cardinality({d \in trips : d.type = t})
    <3> HIDE DEF one
    <3> QED BY <2>1, <2>2, SumOfOnes
  <2> HIDE DEF one, types, cnt, kind
  <2> QED BY <1>1, <2>1, <2>3, FS_CardinalityType
<1>4. SumOver(one, trips) = Cardinality(trips)
  <2>1. \A d \in trips : one[d] = 1
    OBVIOUS
  <2> HIDE DEF one
  <2> QED BY <2>1, SumOfOnes
<1>5. (\A d \in trips : one[d] \in Int) /\ \A d \in trips : kind[d] \in types
  OBVIOUS
<1>6. SumOver(cnt, types) = SumOver(one, trips)
  <2> HIDE DEF one, types, cnt, kind
  <2>1. \A t \in types : cnt[t] = SumOver(one, PartOf(trips, kind, t))
    BY <1>3 DEF PartOf
  <2> QED BY <1>2, <1>5, <2>1, SumOfParts
<1> HIDE DEF one, types, cnt, kind
<1> QED BY <1>1, <1>2, <1>3, <1>4, <1>6 DEF cnt

LEMMA TripsByModeAreAll ==
  ASSUME NEW trips, IsFiniteSet(DOMAIN trips), \A t \in DOMAIN trips : trips[t] \in Nat,
         IsFiniteSet(ModeSet), \A t \in DOMAIN trips : Mode(t) \in ModeSet, Missing \notin ModeSet
  PROVE  /\ summarize_trip_count(trips) =
              [m \in ModeSet |-> SumOver(trips, {t \in DOMAIN trips : Mode(t) = m})]
         /\ SumOver(summarize_trip_count(trips), ModeSet) = SumOver(trips, DOMAIN trips)
<1> DEFINE types == DOMAIN trips
           modes == [m \in ModeSet |-> SumOver(trips, {t \in types : Mode(t) = m})]
           kind == [t \in types |-> Mode(t)]
<1>1. summarize_trip_count(trips) = modes
  BY Zenon DEF summarize_trip_count, SumOver
<1>2. ASSUME NEW m \in ModeSet PROVE modes[m] = SumOver(trips, {t \in types : kind[t] = m})
  <2>1. {t \in types : kind[t] = m} = {t \in types : Mode(t) = m}
    OBVIOUS
  <2> QED BY <2>1
<1>3. /\ IsFiniteSet(types) /\ \A t \in types : trips[t] \in Int
      /\ \A t \in types : kind[t] \in ModeSet
  OBVIOUS
<1>4. SumOver(modes, ModeSet) = SumOver(trips, types)
  <2>1. \A m \in ModeSet : modes[m] = SumOver(trips, PartOf(types, kind, m))
    BY <1>2 DEF PartOf
  <2> HIDE DEF modes, kind, types
  <2>2. /\ IsFiniteSet(types) /\ IsFiniteSet(ModeSet)
        /\ \A t \in types : trips[t] \in Int
        /\ \A t \in types : kind[t] \in ModeSet
    BY <1>3
  <2> QED BY ONLY <2>1, <2>2, SumOfParts
<1> QED BY <1>1, <1>4

LEMMA TotalIsTheNumberOfTrips ==
  ASSUME NEW trips, IsFiniteSet(trips), NEW modes, modes = summarize_trip_count(trip_cnt(trips))
  PROVE  (IF modes = Missing THEN Missing ELSE SumOver(modes, ModeSet))
           = IF \E d \in trips : Mode(d.type) = Missing THEN Missing ELSE Cardinality(trips)
<1> DEFINE cnt == trip_cnt(trips)
<1>1. DOMAIN cnt = {d.type : d \in trips}
  BY DEF trip_cnt
<1>2. CASE \E d \in trips : Mode(d.type) = Missing
  <2>1. \E t \in DOMAIN cnt : Mode(t) = Missing
    <3> HIDE DEF cnt
    <3> QED BY <1>1, <1>2
  <2> QED BY <1>2, <2>1 DEF summarize_trip_count
<1>3. CASE ~\E d \in trips : Mode(d.type) = Missing
  <2>1. \A t \in DOMAIN cnt : Mode(t) \in ModeSet
    <3> HIDE DEF cnt
    <3> QED BY <1>1, <1>3, StationsAssumption DEF Mode
  <2>2. IsFiniteSet(ModeSet) /\ Missing \notin ModeSet /\ Missing \notin [ModeSet -> Nat]
    <3> DEFINE mode == [i \in DOMAIN PTModes |-> PTModes[i]]
    <3>1. mode \in Surjection(DOMAIN PTModes, ModeSet)
      BY DEF Surjection, ModeSet
    <3> HIDE DEF mode
    <3> QED BY <3>1, StationsAssumption, FS_Surjection
  <2>3. /\ IsFiniteSet(DOMAIN cnt) /\ \A t \in DOMAIN cnt : cnt[t] \in Nat
        /\ SumOver(cnt, DOMAIN cnt) = Cardinality(trips)
    BY TripsByTypeAreAll
  <2>4. /\ modes = [m \in ModeSet |-> SumOver(cnt, {t \in DOMAIN cnt : Mode(t) = m})]
        /\ SumOver(modes, ModeSet) = Cardinality(trips)
    <3> HIDE DEF cnt
    <3> QED BY <2>1, <2>2, <2>3, TripsByModeAreAll DEF cnt
  <2>5. modes # Missing
    <3>1. ASSUME NEW m \in ModeSet PROVE SumOver(cnt, {t \in DOMAIN cnt : Mode(t) = m}) \in Nat
      <4>1. IsFiniteSet({t \in DOMAIN cnt : Mode(t) = m})
        BY <2>3, FS_Subset
      <4> HIDE DEF cnt
      <4> QED BY <2>3, <4>1, SumIsNumber
    <3>2. modes \in [ModeSet -> Nat]
      BY <2>4, <3>1
    <3> QED BY <2>2, <3>2
  <2> QED BY <1>3, <2>4, <2>5
<1> QED BY <1>2, <1>3

LEMMA RoundedTwice ==
  ASSUME NEW n \in Nat, n # 0
  PROVE  2 * (((240 + n) \div (2 * n)) * n - 120) \in -n..n
<1> DEFINE q == (240 + n) \div (2 * n)
           b == 2 * n
<1>1. b \in Nat /\ b > 0 /\ 240 + n \in Int
  OBVIOUS
<1>2. q \in Int /\ b * q <= 240 + n /\ 240 + n < b * q + b
  <2>1. \A a \in Int, c \in Nat : c > 0 => a \div c \in Int /\ c * (a \div c) <= a /\ a < c * (a \div c) + c
    BY Z3
  <2> QED BY <1>1, <2>1
<1>3. PICK p \in Int : p = q * n /\ b * q = 2 * p
  BY <1>2
<1> HIDE DEF q
<1>4. 2 * (p - 120) <= n /\ -n <= 2 * (p - 120)
  BY <1>2, <1>3
<1> QED BY <1>3, <1>4 DEF q

Departing(s, departures, w) ==
  {d \in departures : d.stop = s.id /\ d.time >= w.from /\ d.time <= w.to /\ w.weekday \in d.days}

Figure(s, departures, w) ==
  IF \E d \in Departing(s, departures, w) : Mode(d.type) = Missing THEN Missing
  ELSE Cardinality(Departing(s, departures, w))

Rounded(frequency, n) == 2 * (frequency * n - 120) \in -n..n

LEMMA ServedAreAt ==
  ASSUME NEW s, NEW departures, NEW w, w.from \in Int, w.to \in Int,
         \A d \in departures : d.time \in Int
  PROVE  Served(s, departures, w) = Departing(s, departures, w)
BY DEF Served, Departing

LEMMA StopsAreCounted ==
  ASSUME NEW area, NEW stops, NEW departures, NEW w, w.from \in Int, w.to \in Int,
         IsFiniteSet(departures), \A d \in departures : d.time \in Int,
         NEW counted, counted = trip_count(area, stops, departures, w),
         NEW there, there = {s \in stops : s.is_stop /\ s.at \in area}
  PROVE  /\ \A r \in counted : r.stop \in {s \in there : Departing(s, departures, w) # {}}
         /\ \A s \in there : Departing(s, departures, w) # {} =>
              \E r \in counted :
                /\ r.stop = s
                /\ r.total = Figure(s, departures, w)
<1> DEFINE at(s) == Departing(s, departures, w)
           modes(c) == summarize_trip_count(c.trip_cnt)
           row(c) == [stop |-> c.stop, modes |-> modes(c),
                      total |-> IF modes(c) = Missing THEN Missing ELSE SumOver(modes(c), ModeSet)]
           count(s) == [stop |-> s, trip_cnt |-> trip_cnt(Served(s, departures, w))]
           served == {s \in there : at(s) # {}}
           counts == count_public_transport_services_station(area, stops, departures, w)
<1>1. counts = {count(s) : s \in served}
  <2>1. {s \in {x \in stops : x.is_stop /\ x.at \in area /\ Served(x, departures, w) # {}} : TRUE} = served
    BY ServedAreAt
  <2>2. served = {x \in stops : x.is_stop /\ x.at \in area /\ Served(x, departures, w) # {}}
    BY ServedAreAt
  <2> HIDE DEF served
  <2> QED BY Zenon, <2>2 DEF count_public_transport_services_station
<1>2. counted = {row(c) : c \in counts}
  BY Zenon DEF trip_count, SumOver
<1>3. ASSUME NEW r \in counted PROVE r.stop \in served
  <2>1. PICK c \in counts : r = row(c)
    <3> HIDE DEF counts, row
    <3> QED BY <1>2, <1>3
  <2>2. PICK s \in served : c = count(s)
    <3> HIDE DEF counts, count, served
    <3> QED BY <1>1, <2>1
  <2> HIDE DEF served
  <2> QED BY <2>1, <2>2
<1>4. ASSUME NEW s \in served PROVE row(count(s)) \in counted
  <2> HIDE DEF counts, row, count, served
  <2> QED BY <1>1, <1>2, <1>4
<1>5. ASSUME NEW s \in served
      PROVE  /\ row(count(s)).stop = s
             /\ row(count(s)).total = Figure(s, departures, w)
  <2> DEFINE m == summarize_trip_count(trip_cnt(at(s)))
  <2>1. IsFiniteSet(at(s)) /\ Served(s, departures, w) = at(s)
    BY FS_Subset, ServedAreAt DEF Departing
  <2>2. row(count(s)).stop = s /\ row(count(s)).total = IF m = Missing THEN Missing ELSE SumOver(m, ModeSet)
    BY <2>1
  <2> HIDE DEF row, count, served, at
  <2> QED BY <2>1, <2>2, TotalIsTheNumberOfTrips DEF Figure, at
<1> HIDE DEF row, count
<1> QED BY <1>3, <1>4, <1>5

Asked(s, departures, w, modes) == {d \in Departing(s, departures, w) : Mode(d.type) \in modes}

LEMMA NearbyStopsAreListed ==
  ASSUME NEW area, NEW stops, NEW departures, NEW w, w.from \in Int, w.to \in Int,
         IsFiniteSet(departures), \A d \in departures : d.time \in Int,
         NEW modes, NEW routes, \A d \in departures : d.route \in routes,
         NEW there, there = {s \in stops : s.is_stop /\ s.at \in area},
         NEW nearby,
         nearby = nearby_station_access({[at |-> area, access |-> 1]}, stops, departures, w, modes, routes)
  PROVE  /\ \A r \in nearby : \E s \in there : r.stop = s.id /\ Asked(s, departures, w, modes) # {}
         /\ \A s \in there : Asked(s, departures, w, modes) # {} => \E r \in nearby : r.stop = s.id
         /\ \A r \in nearby, s \in there :
              s.id = r.stop => Rounded(r.agg_frequency, Cardinality(Asked(s, departures, w, modes)))
<1> DEFINE wished(s) == Asked(s, departures, w, modes)
           running(s) == {d \in Served(s, departures, w) : Mode(d.type) \in modes /\ d.route \in routes}
           n(s) == Cardinality(running(s))
           row(s, access) ==
             [stop |-> s.id, access |-> access, agg_frequency |-> (240 + n(s)) \div (2 * n(s)),
              mode |-> identify_dominant_mode({d.type : d \in running(s)}),
              routes |-> {<<d.route, (w.to - w.from) \div
                               Cardinality({e \in running(s) : e.route = d.route /\ e.type = d.type})>> :
                            d \in running(s)}]
           listed(p) == {x \in stops : x.is_stop /\ x.at \in p.at /\ running(x) # {}}
           polygon == [at |-> area, access |-> 1]
           near == {x \in there : wished(x) # {}}
           joins(p) == {row(s, p.access) : s \in listed(p)}
<1>1. \A s : running(s) = wished(s)
  <2> TAKE s
  <2> QED BY ServedAreAt DEF Asked, Departing
<1>2. nearby = UNION {joins(p) : p \in {polygon}}
  BY Zenon DEF nearby_station_access
<1>3. listed(polygon) = near
  <2> HIDE DEF running
  <2> QED BY <1>1
<1>4. \A r : r \in nearby <=> \E s \in near : r = row(s, 1)
  <2>1. polygon.access = 1
    OBVIOUS
  <2>2. \A r : r \in nearby <=> \E s \in listed(polygon) : r = row(s, polygon.access)
    <3>1. nearby = joins(polygon)
      <4> HIDE DEF joins
      <4> QED BY <1>2
    <3> HIDE DEF row, listed, polygon, near
    <3> QED BY <3>1
  <2> HIDE DEF row, listed, polygon, near
  <2> QED BY <1>3, <2>1, <2>2
<1>5. \A s : row(s, 1).stop = s.id /\ row(s, 1).agg_frequency = (240 + n(s)) \div (2 * n(s))
  <2> HIDE DEF n, running
  <2> QED OBVIOUS
<1>6. /\ \A r \in nearby : \E s \in near : r.stop = s.id
      /\ \A s \in near : \E r \in nearby : r.stop = s.id
  <2> HIDE DEF row, near, n
  <2> QED BY <1>4, <1>5
<1>7. ASSUME NEW r \in nearby, NEW s \in there, s.id = r.stop
      PROVE  Rounded(r.agg_frequency, Cardinality(wished(s)))
  <2>1. PICK x \in near : r = row(x, 1)
    <3> HIDE DEF row, near
    <3> QED BY <1>4, <1>7
  <2>2. x.id = s.id /\ r.agg_frequency = (240 + n(x)) \div (2 * n(x))
    <3> HIDE DEF row, near
    <3> QED BY <1>5, <1>7, <2>1
  <2>3. wished(x) = wished(s)
    BY <2>2 DEF Asked, Departing
  <2>4. IsFiniteSet(wished(s)) /\ wished(s) # {}
    BY <2>1, <2>3, FS_Subset DEF Asked, Departing
  <2>5. Cardinality(wished(s)) \in Nat /\ Cardinality(wished(s)) # 0
    BY <2>4, FS_EmptySet, FS_CardinalityType
  <2>6. n(x) = Cardinality(wished(s))
    <3> HIDE DEF running, wished
    <3> QED BY <1>1, <2>3
  <2> HIDE DEF n, wished, near, row
  <2> QED BY <2>2, <2>5, <2>6, RoundedTwice DEF Rounded
<1> HIDE DEF near
<1> QED BY <1>6, <1>7 DEF near

(* Whatever the stops and the timetable (crud_trip_count_station.py,       *)
(* crud_nearby_station_access.py): every departure of the window counts    *)
(* once, at its stop, by whatever modes.                                   *)
THEOREM AnyTripIsCounted ==
  ASSUME NEW area, NEW stops, NEW departures, NEW w, w.from \in Int, w.to \in Int,
         IsFiniteSet(departures), \A d \in departures : d.time \in Int, NEW modes, NEW routes
  PROVE  TripsAreCounted(area, stops, departures, w, modes, routes)
<1> DEFINE there == {s \in stops : s.is_stop /\ s.at \in area}
           counted == trip_count(area, stops, departures, w)
           nearby == nearby_station_access({[at |-> area, access |-> 1]}, stops, departures, w, modes, routes)
           wished(s) == Asked(s, departures, w, modes)
<1>1. /\ \A r \in counted : r.stop \in {s \in there : Departing(s, departures, w) # {}}
      /\ \A s \in there : Departing(s, departures, w) # {} =>
           \E r \in counted : r.stop = s /\ r.total = Figure(s, departures, w)
  <2>1. counted = trip_count(area, stops, departures, w) /\ there = {s \in stops : s.is_stop /\ s.at \in area}
    OBVIOUS
  <2>2. w.from \in Int /\ w.to \in Int /\ IsFiniteSet(departures) /\ \A d \in departures : d.time \in Int
    OBVIOUS
  <2> HIDE DEF counted, there
  <2> QED BY ONLY <2>1, <2>2, StopsAreCounted, SMTT(60)
<1>2. counted = {r \in counted : r.stop \in {s \in there : Departing(s, departures, w) # {}}}
  <2> HIDE DEF counted, there
  <2> QED BY <1>1
<1>3. ASSUME \A d \in departures : d.route \in routes
      PROVE  /\ {r.stop : r \in nearby} = {s.id : s \in {x \in there : wished(x) # {}}}
             /\ \A r \in nearby, s \in there :
                  s.id = r.stop => Rounded(r.agg_frequency, Cardinality(wished(s)))
  <2>1. /\ \A r \in nearby : \E s \in there : r.stop = s.id /\ Asked(s, departures, w, modes) # {}
        /\ \A s \in there : Asked(s, departures, w, modes) # {} => \E r \in nearby : r.stop = s.id
        /\ \A r \in nearby, s \in there :
             s.id = r.stop => Rounded(r.agg_frequency, Cardinality(Asked(s, departures, w, modes)))
    BY <1>3, NearbyStopsAreListed
  <2> HIDE DEF nearby, there
  <2> QED BY <2>1
<1> QED BY Zenon, <1>1, <1>2, <1>3 DEF TripsAreCounted, Departing, Asked, Figure, Rounded
-----------------------------------------------------------------------------
(* Classes of stations.                                                    *)
ConfigIsNumbers(config) ==
  /\ IsFiniteSet(DOMAIN config.groups) /\ \A t \in DOMAIN config.groups : config.groups[t] \in Nat
  /\ DOMAIN config.time_frequency \in SUBSET Nat
  /\ \A i \in DOMAIN config.time_frequency : config.time_frequency[i] \in Nat /\ i \in DOMAIN config.categories
  /\ \A i \in DOMAIN config.categories : \A g \in DOMAIN config.categories[i] :
       config.categories[i][g] \in 0..Worst

Value(config, i, g) == IF g \in DOMAIN config.categories[i] THEN config.categories[i][g] ELSE Worst

Met(station, config) == {x \in station \X DOMAIN config.groups : x[2] \in DOMAIN x[1].trip_cnt}

GroupsMet(partners, config) == {config.groups[x[2]] : x \in partners}

AllTrips(partners) == MapThenSumSet(LAMBDA x : x[1].trip_cnt[x[2]], partners)

Ways(station) == IF Cardinality(station) # 1 THEN 2 ELSE 1

Frequent(station, config, w) ==
  {i \in DOMAIN config.time_frequency :
     (w.to - w.from) * Ways(station) < config.time_frequency[i] * AllTrips(Met(station, config))}

LEMMA ClassIsValue ==
  ASSUME NEW station, NEW config, NEW w
  PROVE  oev_gueteklasse_station_category(station, config, w) =
           IF Met(station, config) = {} \/ Frequent(station, config, w) = {} THEN Worst
           ELSE Value(config, Min(Frequent(station, config, w)), Min(GroupsMet(Met(station, config), config)))
BY Zenon DEF oev_gueteklasse_station_category, Met, Frequent, Value, AllTrips, Ways, GroupsMet

LEMMA CountIsSum ==
  ASSUME NEW S, IsFiniteSet(S)
  PROVE  AllTrips(S) = SumOver([x \in S |-> x[1].trip_cnt[x[2]]], S)
<1> DEFINE g == [x \in S |-> x[1].trip_cnt[x[2]]]
           it == CHOOSE sm : sm = [s \in SUBSET S |-> IF s = {} THEN 0
                                                      ELSE Picked(s)[1].trip_cnt[Picked(s)[2]] + sm[Rest(s)]]
<1>1. ASSUME NEW sm
      PROVE  Summing(g, S, sm) <=> sm = [s \in SUBSET S |-> IF s = {} THEN 0
                                                            ELSE Picked(s)[1].trip_cnt[Picked(s)[2]] + sm[Rest(s)]]
  <2>1. \A s \in SUBSET S : s # {} => g[Picked(s)] = Picked(s)[1].trip_cnt[Picked(s)[2]]
    BY RestIsSmaller
  <2> HIDE DEF g
  <2> QED BY <2>1 DEF Summing
<1>2. Summing(g, S, it)
  BY <1>1, SummingExists
<1>3. AllTrips(S) = it[S]
  BY Zenon DEF AllTrips, MapThenSumSet, MapThenFoldSet, Picked, Rest
<1> HIDE DEF g, it
<1> QED BY <1>2, <1>3, SumOfSubset DEF g

LEMMA LeastOfMore ==
  ASSUME NEW S \in SUBSET Nat, NEW T \in SUBSET S, T # {}
  PROVE  Min(S) \in S /\ Min(T) \in T /\ Min(S) <= Min(T)
<1>1. (\E x \in S : \A y \in S : x <= y) /\ \E x \in T : \A y \in T : x <= y
  BY LeastExists
<1> QED BY <1>1 DEF Min

(* The trips of one station grow to those of another.                      *)
Grows(few, many, more) ==
  /\ IsFiniteSet(few) /\ IsFiniteSet(many)
  /\ {more[b] : b \in few} = many /\ \A b, c \in few : more[b] = more[c] => b = c
  /\ \A b \in few :
       /\ DOMAIN b.trip_cnt \subseteq DOMAIN more[b].trip_cnt
       /\ \A t \in DOMAIN b.trip_cnt : b.trip_cnt[t] <= more[b].trip_cnt[t]
  /\ \A b \in few \cup many : \A t \in DOMAIN b.trip_cnt : b.trip_cnt[t] \in Nat

LEMMA MoreAreCounted ==
  ASSUME NEW few, NEW many, NEW more, Grows(few, many, more),
         NEW config, IsFiniteSet(DOMAIN config.groups)
  PROVE  /\ AllTrips(Met(few, config)) <= AllTrips(Met(many, config))
         /\ AllTrips(Met(few, config)) \in Nat /\ AllTrips(Met(many, config)) \in Nat
         /\ \A x \in Met(few, config) : <<more[x[1]], x[2]>> \in Met(many, config)
<1> DEFINE F == Met(few, config)
           M == Met(many, config)
           f == [x \in F |-> <<more[x[1]], x[2]>>]
           g == [x \in F |-> x[1].trip_cnt[x[2]]]
           h == [x \in M |-> x[1].trip_cnt[x[2]]]
           k == [x \in F |-> h[f[x]]]
           image == {f[x] : x \in F}
<1>1. IsFiniteSet(F) /\ IsFiniteSet(M)
  BY FS_Product, FS_Subset DEF Grows, Met
<1>2. ASSUME NEW x \in F PROVE f[x] \in M /\ f[x] = <<more[x[1]], x[2]>> /\ g[x] <= h[f[x]] /\ g[x] \in Nat
  <2>1. x[1] \in few /\ x[2] \in DOMAIN config.groups /\ x[2] \in DOMAIN x[1].trip_cnt
    BY DEF Met
  <2>2. more[x[1]] \in many /\ x[2] \in DOMAIN more[x[1]].trip_cnt
    BY <2>1 DEF Grows
  <2>3. <<more[x[1]], x[2]>> \in M
    BY <2>1, <2>2 DEF Met
  <2>4. x[1].trip_cnt[x[2]] <= more[x[1]].trip_cnt[x[2]] /\ x[1].trip_cnt[x[2]] \in Nat
    BY <2>1 DEF Grows
  <2> HIDE DEF M
  <2> QED BY <2>3, <2>4
<1>3. ASSUME NEW x \in M PROVE h[x] \in Nat
  <2>1. x[1] \in many /\ x[2] \in DOMAIN x[1].trip_cnt
    BY DEF Met
  <2> HIDE DEF M
  <2> QED BY <2>1 DEF Grows
<1>4. \A x, y \in F : f[x] = f[y] => x = y
  <2>1. ASSUME NEW x \in F, NEW y \in F, f[x] = f[y] PROVE x = y
    <3>1. x[1] \in few /\ y[1] \in few /\ x = <<x[1], x[2]>> /\ y = <<y[1], y[2]>>
      BY DEF Met
    <3>2. more[x[1]] = more[y[1]] /\ x[2] = y[2]
      <4> HIDE DEF F
      <4> QED BY <2>1
    <3> QED BY <3>1, <3>2 DEF Grows
  <2> QED BY <2>1
<1>5. SumOver(g, F) <= SumOver(k, F)
  <2>1. \A x \in F : k[x] = h[f[x]]
    OBVIOUS
  <2>2. \A x \in F : g[x] \in Int /\ k[x] \in Int /\ g[x] <= k[x]
    <3> HIDE DEF F, M, f, g, h, k
    <3> QED BY <1>2, <1>3, <2>1
  <2> HIDE DEF F, g, k
  <2> QED BY <1>1, <2>2, SumGrows
<1>6. SumOver(h, image) = SumOver(k, F)
  <2>1. \A x \in F : k[x] = h[f[x]] /\ k[x] \in Int
    <3>1. \A x \in F : k[x] = h[f[x]]
      OBVIOUS
    <3> HIDE DEF F, M, f, g, h, k
    <3> QED BY <1>2, <1>3, <3>1
  <2>2. SumOver(h, {f[x] : x \in F}) = SumOver(k, F)
    <3> HIDE DEF F, M, f, h, k
    <3> QED BY <1>1, <1>4, <2>1, SumOfImage
  <2> QED BY <2>2
<1>7. SumOver(h, image) <= SumOver(h, M)
  <2>1. image \in SUBSET M
    <3> HIDE DEF F, M, f
    <3> QED BY <1>2
  <2> HIDE DEF image, M, h
  <2> QED BY <1>1, <1>3, <2>1, SumOfPart
<1>8. SumOver(g, F) \in Nat /\ SumOver(h, M) \in Nat /\ SumOver(k, F) \in Int
  <2>1. \A x \in F : k[x] \in Nat
    <3>1. \A x \in F : k[x] = h[f[x]]
      OBVIOUS
    <3> HIDE DEF F, M, f, g, h, k
    <3> QED BY <1>2, <1>3, <3>1
  <2>2. \A x \in F : g[x] \in Nat
    BY <1>2
  <2>3. SumOver(k, F) \in Nat
    <3> HIDE DEF F, k
    <3> QED BY <1>1, <2>1, SumIsNumber
  <2>4. SumOver(g, F) \in Nat
    <3> HIDE DEF F, g
    <3> QED BY <1>1, <2>2, SumIsNumber
  <2>5. SumOver(h, M) \in Nat
    <3> HIDE DEF M, h
    <3> QED BY <1>1, <1>3, SumIsNumber
  <2> HIDE DEF F, M, g, h, k
  <2> QED BY <2>3, <2>4, <2>5
<1>9. AllTrips(F) = SumOver(g, F) /\ AllTrips(M) = SumOver(h, M)
  BY <1>1, CountIsSum
<1>10. \A x \in F : <<more[x[1]], x[2]>> \in M
  BY <1>2
<1> HIDE DEF F, M, f, g, h, k, image
<1> QED BY <1>5, <1>6, <1>7, <1>8, <1>9, <1>10 DEF F, M

LEMMA ClassesAreOrdered ==
  ASSUME NEW config, Ordered(config),
         NEW i \in DOMAIN config.time_frequency, NEW j \in DOMAIN config.time_frequency,
         NEW g \in {config.groups[t] : t \in DOMAIN config.groups},
         NEW q \in {config.groups[t] : t \in DOMAIN config.groups}, i <= j, g <= q
  PROVE  Value(config, i, g) <= Value(config, j, q)
<1> DEFINE groups == (UNION {DOMAIN config.categories[n] : n \in DOMAIN config.categories})
                       \cup {config.groups[t] : t \in DOMAIN config.groups}
<1>1. \A m, n \in DOMAIN config.time_frequency, a, b \in groups :
        m <= n /\ a <= b => Value(config, m, a) <= Value(config, n, b)
  BY Zenon DEF Ordered, Value
<1>2. g \in groups /\ q \in groups
  OBVIOUS
<1> HIDE DEF groups
<1> QED BY <1>1, <1>2

LEMMA MoreIsNoWorse ==
  ASSUME NEW few, NEW many, NEW more, Grows(few, many, more),
         NEW config, ConfigIsNumbers(config), Ordered(config), NEW w, w.from \in Int, w.to \in Int
  PROVE  oev_gueteklasse_station_category(many, config, w)
           <= oev_gueteklasse_station_category(few, config, w)
<1> DEFINE F == Met(few, config)
           M == Met(many, config)
           often == Frequent(few, config, w)
           oftener == Frequent(many, config, w)
           seldom(s) == oev_gueteklasse_station_category(s, config, w)
<1>1. \A i, g : i \in DOMAIN config.time_frequency => Value(config, i, g) \in 0..Worst
  <2> SUFFICES ASSUME NEW i, NEW g, i \in DOMAIN config.time_frequency PROVE Value(config, i, g) \in 0..Worst
    OBVIOUS
  <2>1. i \in DOMAIN config.categories /\ Worst \in 0..Worst
    BY DEF ConfigIsNumbers, Worst
  <2>2. g \in DOMAIN config.categories[i] => config.categories[i][g] \in 0..Worst
    BY <2>1 DEF ConfigIsNumbers
  <2> QED BY <2>1, <2>2 DEF Value
<1>2. Ways(few) = Ways(many)
  <2>1. Cardinality({more[b] : b \in few}) = Cardinality(few)
    BY AsMany DEF Grows
  <2> QED BY <2>1 DEF Ways, Grows
<1>3. /\ AllTrips(F) <= AllTrips(M) /\ AllTrips(F) \in Nat /\ AllTrips(M) \in Nat
      /\ \A x \in F : <<more[x[1]], x[2]>> \in M
  BY MoreAreCounted DEF ConfigIsNumbers
<1>4. often \subseteq oftener /\ oftener \in SUBSET DOMAIN config.time_frequency /\ oftener \in SUBSET Nat
  <2>1. ASSUME NEW i \in often PROVE i \in oftener
    <3> DEFINE tf == config.time_frequency[i]
               long == (w.to - w.from) * Ways(few)
    <3>1. i \in DOMAIN config.time_frequency /\ long < tf * AllTrips(F) /\ tf \in Nat
      BY <2>1 DEF Frequent, ConfigIsNumbers
    <3>2. long \in Int
      BY DEF Ways
    <3>3. tf * AllTrips(F) <= tf * AllTrips(M) /\ tf * AllTrips(F) \in Int /\ tf * AllTrips(M) \in Int
      <4>1. \A a, b, c \in Nat : b <= c => a * b <= a * c /\ a * b \in Int /\ a * c \in Int
        BY Z3
      <4> HIDE DEF tf, F, M
      <4> QED BY <1>3, <3>1, <4>1
    <3>4. long < tf * AllTrips(M)
      <4> HIDE DEF tf, long, F, M
      <4> QED BY <3>1, <3>2, <3>3
    <3> QED BY <1>2, <3>1, <3>4 DEF Frequent
  <2>2. oftener \in SUBSET DOMAIN config.time_frequency /\ DOMAIN config.time_frequency \in SUBSET Nat
    BY DEF Frequent, ConfigIsNumbers
  <2> HIDE DEF often, oftener
  <2> QED BY <2>1, <2>2
<1> DEFINE low == GroupsMet(F, config)
           high == GroupsMet(M, config)
<1>5. low \subseteq high /\ high \in SUBSET Nat /\ (low = {} <=> F = {}) /\ (high = {} <=> M = {})
  <2>1. ASSUME NEW x \in F PROVE config.groups[x[2]] \in high
    <3>1. <<more[x[1]], x[2]>> \in M /\ <<more[x[1]], x[2]>>[2] = x[2]
      BY <1>3
    <3> HIDE DEF M
    <3> QED BY <3>1 DEF GroupsMet
  <2>2. ASSUME NEW x \in M PROVE config.groups[x[2]] \in Nat
    BY DEF Met, ConfigIsNumbers
  <2> HIDE DEF F, M
  <2> QED BY <2>1, <2>2 DEF GroupsMet
<1>6. CASE F = {} \/ often = {}
  <2>1. seldom(few) = Worst
    BY <1>6, ClassIsValue
  <2>2. seldom(many) \in 0..Worst
    <3>1. CASE M = {} \/ oftener = {}
      BY <3>1, ClassIsValue DEF Worst
    <3>2. CASE ~(M = {} \/ oftener = {})
      <4>1. Min(oftener) \in oftener
        <5> HIDE DEF oftener
        <5> QED BY <1>4, <3>2, LeastOfMore
      <4>2. seldom(many) = Value(config, Min(oftener), Min(high))
        BY <3>2, ClassIsValue
      <4> HIDE DEF oftener, high, seldom
      <4> QED BY <1>1, <1>4, <4>1, <4>2
    <3> QED BY <3>1, <3>2
  <2> HIDE DEF seldom
  <2>3. seldom(many) <= seldom(few)
    BY <2>1, <2>2 DEF Worst
  <2> QED BY <2>3 DEF seldom
<1>7. CASE ~(F = {} \/ often = {})
  <2>1. M # {} /\ oftener # {} /\ low # {}
    <3> HIDE DEF F, M, often, oftener, low, high
    <3> QED BY <1>4, <1>5, <1>7
  <2> DEFINE i == Min(oftener)
             j == Min(often)
             g == Min(high)
             q == Min(low)
  <2>2. i \in oftener /\ j \in often /\ i <= j /\ g \in high /\ q \in low /\ g <= q
    <3> HIDE DEF often, oftener, low, high
    <3> QED BY <1>4, <1>5, <1>7, <2>1, LeastOfMore
  <2>3. seldom(few) = Value(config, j, q) /\ seldom(many) = Value(config, i, g)
    BY <1>7, <2>1, ClassIsValue
  <2>4. i \in DOMAIN config.time_frequency /\ j \in DOMAIN config.time_frequency
    <3> HIDE DEF i, j, often, oftener
    <3> QED BY <1>4, <2>2
  <2>5. \A n \in high : n \in {config.groups[t] : t \in DOMAIN config.groups}
    BY DEF GroupsMet, Met
  <2>6. g \in {config.groups[t] : t \in DOMAIN config.groups} /\ q \in {config.groups[t] : t \in DOMAIN config.groups}
    <3> HIDE DEF g, q, low, high
    <3> QED BY <1>5, <2>2, <2>5
  <2>7. Value(config, i, g) <= Value(config, j, q)
    <3> HIDE DEF i, j, g, q, often, oftener, low, high
    <3> QED BY <2>2, <2>4, <2>6, ClassesAreOrdered
  <2> HIDE DEF i, j, g, q
  <2> QED BY <2>3, <2>7
<1> QED BY <1>6, <1>7

(* The stations of the timetable and of one that lacks a trip.             *)
WithTrips(s, ds, w) == [stop |-> s, trip_cnt |-> trip_cnt(Served(s, ds, w))]

Held(area, stops, ds, w) == {s \in stops : s.is_stop /\ s.at \in area /\ Served(s, ds, w) # {}}

Together(id, area, stops, ds, w) ==
  {WithTrips(s, ds, w) : s \in {x \in Held(area, stops, ds, w) : x.parent = id}}

StopsAreApart(stops) ==
  /\ \A p \in stops : p.id # Missing
  /\ \A p, c \in stops : c.parent = p.id => ~p.is_stop

IsStation(s, area, stops, ds, w, config) ==
  \/ \E p \in stops :
       /\ Together(p.id, area, stops, ds, w) # {} /\ s.id = p.id
       /\ s.class = oev_gueteklasse_station_category(Together(p.id, area, stops, ds, w), config, w)
  \/ \E c \in Held(area, stops, ds, w) :
       /\ c.parent = Missing /\ s.id = c.id
       /\ s.class = oev_gueteklasse_station_category({WithTrips(c, ds, w)}, config, w)

(* Another trip is left at the stop. *)
StillServed(d, fewer, w) == \E e \in fewer : e.stop = d.stop /\ e \in Served([id |-> e.stop], fewer, w)

LEMMA StationsAre ==
  ASSUME NEW area, NEW stops, NEW ds, NEW w, NEW config,
         NEW s \in get_oev_gueteklasse_station_category(area, stops, ds, w, config)
  PROVE  IsStation(s, area, stops, ds, w, config)
<1> DEFINE child_stops == count_public_transport_services_station(area, stops, ds, w)
           grouped(p) == {c \in child_stops : c.stop.parent = p.id}
           class(station) == oev_gueteklasse_station_category(station, config, w)
           parents == {[at |-> p.at, id |-> p.id, class |-> class(grouped(p))] : p \in {q \in stops : grouped(q) # {}}}
           lone == {[at |-> c.stop.at, id |-> c.stop.id, class |-> class({c})] :
                      c \in {d \in child_stops : d.stop.parent = Missing}}
<1>1. child_stops = {WithTrips(x, ds, w) : x \in Held(area, stops, ds, w)}
  BY Zenon DEF count_public_transport_services_station, WithTrips, Held
<1>2. \A x : WithTrips(x, ds, w).stop = x
  BY DEF WithTrips
<1>3. \A p : grouped(p) = Together(p.id, area, stops, ds, w)
  <2> HIDE DEF child_stops
  <2> QED BY <1>1, <1>2 DEF Together
<1>4. s \in parents \cup lone
  BY Zenon DEF get_oev_gueteklasse_station_category
<1>5. CASE s \in parents
  <2>1. PICK p \in stops : grouped(p) # {} /\ s = [at |-> p.at, id |-> p.id, class |-> class(grouped(p))]
    <3> HIDE DEF grouped, class
    <3> QED BY <1>5
  <2>2. s.id = p.id /\ s.class = class(grouped(p))
    <3> HIDE DEF grouped, class
    <3> QED BY <2>1
  <2> HIDE DEF grouped, class
  <2>3. s.class = class(Together(p.id, area, stops, ds, w)) /\ Together(p.id, area, stops, ds, w) # {}
    BY <1>3, <2>1, <2>2
  <2> QED BY <2>2, <2>3 DEF class, IsStation
<1>6. CASE s \in lone
  <2>1. PICK c \in child_stops : c.stop.parent = Missing /\ s = [at |-> c.stop.at, id |-> c.stop.id, class |-> class({c})]
    <3> HIDE DEF child_stops, class
    <3> QED BY <1>6
  <2>2. PICK x \in Held(area, stops, ds, w) : c = WithTrips(x, ds, w) /\ c.stop = x
    <3> HIDE DEF child_stops, class
    <3> QED BY <1>1, <1>2, <2>1
  <2>3. s.id = x.id /\ s.class = class({WithTrips(x, ds, w)}) /\ x.parent = Missing
    <3> HIDE DEF child_stops, class
    <3> QED BY <2>1, <2>2
  <2> QED BY <2>3 DEF class, IsStation
<1> QED BY <1>4, <1>5, <1>6

LEMMA TripsGrow ==
  ASSUME NEW fewer, NEW ds, IsFiniteSet(ds), fewer \subseteq ds, NEW w, NEW s, NEW x, s.id = x.id
  PROVE  LET few == WithTrips(s, fewer, w).trip_cnt
             many == WithTrips(x, ds, w).trip_cnt
         IN /\ DOMAIN few \subseteq DOMAIN many
            /\ \A t \in DOMAIN few : few[t] <= many[t] /\ few[t] \in Nat
            /\ \A t \in DOMAIN many : many[t] \in Nat
<1> DEFINE S == Served(s, fewer, w)
           X == Served(x, ds, w)
           of(A, t) == {d \in A : d.type = t}
           few == trip_cnt(S)
           many == trip_cnt(X)
<1>1. S \subseteq X /\ IsFiniteSet(X)
  BY FS_Subset DEF Served
<1>2. /\ DOMAIN few = {d.type : d \in S} /\ \A t \in DOMAIN few : few[t] = Cardinality(of(S, t))
      /\ DOMAIN many = {d.type : d \in X} /\ \A t \in DOMAIN many : many[t] = Cardinality(of(X, t))
  BY DEF trip_cnt
<1>3. \A t : of(S, t) \subseteq of(X, t) /\ IsFiniteSet(of(X, t))
  <2> HIDE DEF S, X
  <2> QED BY <1>1, FS_Subset
<1>4. \A t : /\ Cardinality(of(S, t)) <= Cardinality(of(X, t))
             /\ Cardinality(of(S, t)) \in Nat /\ Cardinality(of(X, t)) \in Nat
  <2> HIDE DEF of
  <2> QED BY <1>3, FS_Subset, FS_CardinalityType
<1>5. DOMAIN few \subseteq DOMAIN many
  <2> HIDE DEF S, X, few, many
  <2> QED BY <1>1, <1>2
<1>6. WithTrips(s, fewer, w).trip_cnt = few /\ WithTrips(x, ds, w).trip_cnt = many
  BY DEF WithTrips
<1> HIDE DEF few, many, of
<1> QED BY <1>2, <1>4, <1>5, <1>6

LEMMA TheSameStopsAreHeld ==
  ASSUME NEW ds, NEW d \in ds, NEW fewer, fewer = ds \ {d}, NEW w,
         StillServed(d, fewer, w), NEW area, NEW stops
  PROVE  Held(area, stops, fewer, w) = Held(area, stops, ds, w)
<1>1. PICK e \in fewer : e.stop = d.stop /\ e \in Served([id |-> e.stop], fewer, w)
  BY DEF StillServed
<1>2. e.time \in w.from..w.to /\ w.weekday \in e.days
  BY <1>1 DEF Served
<1>3. ASSUME NEW s PROVE Served(s, fewer, w) = {} <=> Served(s, ds, w) = {}
  <2>1. CASE s.id = d.stop
    <3>1. e \in Served(s, fewer, w) /\ e \in Served(s, ds, w)
      BY <1>1, <1>2, <2>1 DEF Served
    <3> QED BY <3>1
  <2>2. CASE s.id # d.stop
    BY <2>2 DEF Served
  <2> QED BY <2>1, <2>2
<1> QED BY <1>3 DEF Held

(* Whatever the timetable (crud_oev_gueteklasse.py): where numbers of the  *)
(* configuration are ordered, stations are no stops and no more is changed *)
(* than a further trip, no class gets worse.                               *)
THEOREM AnyMoreTripsNeverHurt ==
  ASSUME NEW area, NEW stops, IsFiniteSet(stops), StopsAreApart(stops),
         NEW departures, IsFiniteSet(departures), NEW w, w.from \in Int, w.to \in Int,
         NEW config, ConfigIsNumbers(config)
  PROVE  MoreTripsNeverHurt(area, stops, departures, w, config)
<1> DEFINE stations(ds) == get_oev_gueteklasse_station_category(area, stops, ds, w, config)
           class(station) == oev_gueteklasse_station_category(station, config, w)
<1>1. SUFFICES ASSUME Ordered(config), NEW d \in departures, NEW fewer, fewer = departures \ {d},
                      StillServed(d, fewer, w),
                      NEW s \in stations(departures), NEW r \in stations(fewer), s.id = r.id
               PROVE  s.class <= r.class
  BY Zenon DEF MoreTripsNeverHurt, StillServed
<1> DEFINE held == Held(area, stops, departures, w)
           few(x) == WithTrips(x, fewer, w)
           many(x) == WithTrips(x, departures, w)
<1>2. Held(area, stops, fewer, w) = held /\ held \subseteq stops /\ IsFiniteSet(held) /\ fewer \subseteq departures
  <2>1. held \subseteq stops
    BY DEF Held
  <2>2. Held(area, stops, fewer, w) = held
    BY ONLY <1>1, TheSameStopsAreHeld
  <2>3. IsFiniteSet(held)
    <3> HIDE DEF held
    <3> QED BY <2>1, FS_Subset
  <2> QED BY <1>1, <2>1, <2>2, <2>3
<1>3. ASSUME NEW x, NEW y, x.id = y.id
      PROVE  /\ DOMAIN few(x).trip_cnt \subseteq DOMAIN many(y).trip_cnt
             /\ \A t \in DOMAIN few(x).trip_cnt : /\ few(x).trip_cnt[t] <= many(y).trip_cnt[t]
                                                  /\ few(x).trip_cnt[t] \in Nat
             /\ \A t \in DOMAIN many(y).trip_cnt : many(y).trip_cnt[t] \in Nat
  BY <1>2, <1>3, TripsGrow
<1>4. \A x : few(x).stop = x /\ many(x).stop = x
  BY DEF WithTrips
<1>5. CASE /\ \E p \in stops : /\ Together(p.id, area, stops, departures, w) # {} /\ s.id = p.id
                               /\ s.class = class(Together(p.id, area, stops, departures, w))
           /\ \E p \in stops : /\ Together(p.id, area, stops, fewer, w) # {} /\ r.id = p.id
                               /\ r.class = class(Together(p.id, area, stops, fewer, w))
  <2> DEFINE A == Together(s.id, area, stops, departures, w)
             B == Together(s.id, area, stops, fewer, w)
             more == [b \in B |-> many(b.stop)]
             of == {x \in held : x.parent = s.id}
  <2>1. s.class = class(A) /\ r.class = class(B)
    BY <1>1, <1>5
  <2>2. A = {many(x) : x \in of} /\ B = {few(x) : x \in of}
    BY <1>2 DEF Together
  <2>3. IsFiniteSet(A) /\ IsFiniteSet(B)
    <3>1. IsFiniteSet(of)
      BY <1>2, FS_Subset
    <3> DEFINE f == [x \in of |-> few(x)]
               g == [x \in of |-> many(x)]
    <3>2. \A x, y \in of : (f[x] = f[y] => x = y) /\ (g[x] = g[y] => x = y)
      <4>1. \A x \in of : f[x].stop = x /\ g[x].stop = x
        <5> HIDE DEF few, many, of
        <5> QED BY <1>4
      <4> HIDE DEF f, g
      <4> QED BY <4>1
    <3>3. IsFiniteSet({f[x] : x \in of}) /\ IsFiniteSet({g[x] : x \in of})
      <4> HIDE DEF f, g, of
      <4> QED BY <3>1, <3>2, AsMany
    <3>4. {f[x] : x \in of} = B /\ {g[x] : x \in of} = A
      <4> HIDE DEF few, many, A, B, of
      <4> QED BY <2>2
    <3> QED BY <3>3, <3>4
  <2>4. \A b \in B : b.stop \in of /\ b = few(b.stop) /\ more[b] = many(b.stop)
    <3> HIDE DEF few, many, of, B
    <3> QED BY <1>4, <2>2
  <2>5. {more[b] : b \in B} = A
    <3>1. \A x \in of : few(x) \in B /\ more[few(x)] = many(x)
      <4> HIDE DEF few, many, of, B
      <4> QED BY <1>4, <2>2
    <3> HIDE DEF few, many, of, A, B, more
    <3> QED BY <2>2, <2>4, <3>1
  <2>6. \A b, c \in B : more[b] = more[c] => b = c
    <3>1. \A b \in B : more[b].stop = b.stop
      <4> HIDE DEF few, many, of, B, more
      <4> QED BY <1>4, <2>4
    <3> HIDE DEF few, many, of, B, more
    <3> QED BY <2>4, <3>1
  <2>7. \A b \in B :
          /\ DOMAIN b.trip_cnt \subseteq DOMAIN more[b].trip_cnt
          /\ \A t \in DOMAIN b.trip_cnt : b.trip_cnt[t] <= more[b].trip_cnt[t] /\ b.trip_cnt[t] \in Nat
    <3> HIDE DEF few, many, of, B, more
    <3> QED BY <1>3, <2>4
  <2>8. \A b \in A : \A t \in DOMAIN b.trip_cnt : b.trip_cnt[t] \in Nat
    <3> HIDE DEF few, many, of, A
    <3> QED BY <1>3, <2>2
  <2>9. Grows(B, A, more)
    <3> HIDE DEF A, B, more
    <3> QED BY <2>3, <2>5, <2>6, <2>7, <2>8 DEF Grows
  <2> HIDE DEF A, B, more
  <2> QED BY <1>1, <2>1, <2>9, MoreIsNoWorse
<1>6. CASE /\ \E c \in held : /\ c.parent = Missing /\ s.id = c.id
                              /\ s.class = class({many(c)})
           /\ \E c \in Held(area, stops, fewer, w) : /\ c.parent = Missing /\ r.id = c.id
                                                     /\ r.class = class({few(c)})
  <2>1. PICK x \in held : s.id = x.id /\ s.class = class({many(x)})
    BY <1>6
  <2>2. PICK y \in held : r.id = y.id /\ r.class = class({few(y)})
    BY <1>2, <1>6
  <2> DEFINE more == [b \in {few(y)} |-> many(x)]
  <2>3. IsFiniteSet({few(y)}) /\ IsFiniteSet({many(x)}) /\ more[few(y)] = many(x)
    BY FS_Singleton
  <2>4. {more[b] : b \in {few(y)}} = {many(x)} /\ \A b, c \in {few(y)} : b = c
    <3> HIDE DEF few, many, more
    <3> QED BY <2>3
  <2>5. Grows({few(y)}, {many(x)}, more)
    <3>1. y.id = x.id
      BY <1>1, <2>1, <2>2
    <3> HIDE DEF few, many, more
    <3> QED BY <1>3, <2>3, <2>4, <3>1 DEF Grows
  <2> HIDE DEF few, many, more
  <2> QED BY <1>1, <2>1, <2>2, <2>5, MoreIsNoWorse
<1>7. ASSUME NEW p \in stops, NEW ds \in {departures, fewer}, Together(p.id, area, stops, ds, w) # {},
             NEW c \in held, c.id = p.id
      PROVE  FALSE
  <2>1. PICK x \in Held(area, stops, ds, w) : x.parent = p.id
    BY <1>7 DEF Together
  <2>2. x \in stops /\ c \in stops /\ c.is_stop /\ x.parent = c.id
    BY <1>7, <2>1 DEF Held
  <2> QED BY <2>2 DEF StopsAreApart
<1>8. \/ \E p \in stops : /\ Together(p.id, area, stops, departures, w) # {} /\ s.id = p.id
                          /\ s.class = class(Together(p.id, area, stops, departures, w))
      \/ \E c \in held : c.parent = Missing /\ s.id = c.id /\ s.class = class({many(c)})
  <2>1. s \in get_oev_gueteklasse_station_category(area, stops, departures, w, config)
    BY <1>1
  <2>2. IsStation(s, area, stops, departures, w, config)
    BY <2>1, StationsAre
  <2> QED BY Zenon, <2>2 DEF IsStation
<1>9. \/ \E p \in stops : /\ Together(p.id, area, stops, fewer, w) # {} /\ r.id = p.id
                          /\ r.class = class(Together(p.id, area, stops, fewer, w))
      \/ \E c \in Held(area, stops, fewer, w) : c.parent = Missing /\ r.id = c.id /\ r.class = class({few(c)})
  <2>1. r \in get_oev_gueteklasse_station_category(area, stops, fewer, w, config)
    BY <1>1
  <2>2. IsStation(r, area, stops, fewer, w, config)
    BY <2>1, StationsAre
  <2> QED BY Zenon, <2>2 DEF IsStation
<1> HIDE DEF held, few, many, class
<1> QED BY <1>1, <1>2, <1>5, <1>6, <1>7, <1>8, <1>9

-----------------------------------------------------------------------------
(* Aggregation.  A feature of a layer; the piece a place lies in, and the  *)
(* row that piece gives in the shard of the place.                         *)
Feature(f) ==
  f = [row |-> f.row, id |-> f.id, at |-> f.at, group |-> f.group, value |-> f.value]

(* The rows of a layer, whatever is overlaid, are features that cover      *)
(* something.                                                              *)
Whole_feature(f) ==
  /\ Feature(f) /\ f.value \in Int
  /\ f.at # {} /\ IsFiniteSet(f.at) /\ f.at \in SUBSET Int /\ f.at \in SUBSET DOMAIN HexOf

PieceAround(at, p) == CHOOSE piece \in Subdivided(at) : p \in piece

PlacesAlong(at, p) == {q \in PieceAround(at, p) : ShardOf[q] = ShardOf[p]}

Numbered(r, n) == <<r, n>>

CutAt(f, p, n) == [f EXCEPT !.row = <<f.row, n>>, !.at = PlacesAlong(f.at, p)]

LEMMA PieceAroundIs ==
  ASSUME NEW at \in SUBSET DOMAIN HexOf, NEW p \in at
  PROVE  /\ PieceAround(at, p) \in Subdivided(at) /\ p \in PieceAround(at, p) /\ PieceAround(at, p) \in SUBSET at
         /\ \A piece \in Subdivided(at) : p \in piece => piece = PieceAround(at, p)
<1>1. UNION Subdivided(at) = at /\ \A s, t \in Subdivided(at) : s # t => s \cap t = {}
  BY SubdivisionAssumption
<1>2. PICK piece \in Subdivided(at) : p \in piece
  BY <1>1
<1>3. PieceAround(at, p) \in Subdivided(at) /\ p \in PieceAround(at, p)
  BY <1>2 DEF PieceAround
<1> QED BY <1>1, <1>3

LEMMA AlongAPlace ==
  ASSUME NEW at \in SUBSET DOMAIN HexOf, NEW p \in at
  PROVE  /\ p \in PlacesAlong(at, p) /\ PlacesAlong(at, p) \in SUBSET at
         /\ \A q \in PlacesAlong(at, p) : /\ PieceAround(at, q) = PieceAround(at, p)
                                          /\ PlacesAlong(at, q) = PlacesAlong(at, p)
<1>1. PieceAround(at, p) \in Subdivided(at) /\ p \in PieceAround(at, p) /\ PieceAround(at, p) \in SUBSET at
  BY PieceAroundIs
<1>2. ASSUME NEW q \in PlacesAlong(at, p)
      PROVE  PieceAround(at, q) = PieceAround(at, p) /\ PlacesAlong(at, q) = PlacesAlong(at, p)
  <2>1. q \in PieceAround(at, p) /\ ShardOf[q] = ShardOf[p] /\ q \in at
    BY <1>1 DEF PlacesAlong
  <2>2. PieceAround(at, q) = PieceAround(at, p)
    BY <1>1, <2>1, PieceAroundIs
  <2> QED BY <2>1, <2>2 DEF PlacesAlong
<1> QED BY <1>1, <1>2 DEF PlacesAlong

LEMMA CutIsOfIt ==
  ASSUME NEW f, Feature(f), NEW p, NEW n
  PROVE  /\ CutAt(f, p, n).row = <<f.row, n>> /\ CutAt(f, p, n).id = f.id
         /\ CutAt(f, p, n).group = f.group /\ CutAt(f, p, n).value = f.value
         /\ CutAt(f, p, n).at = PlacesAlong(f.at, p)
         /\ Feature(CutAt(f, p, n))
<1> DEFINE at == PlacesAlong(f.at, p)
           row == <<f.row, n>>
<1>1. PICK r, i, a, g, v : f = [row |-> r, id |-> i, at |-> a, group |-> g, value |-> v]
  BY DEF Feature
<1>2. \A w, u : [f EXCEPT !.row = w, !.at = u] = [row |-> w, id |-> i, at |-> u, group |-> g, value |-> v]
  <2> SUFFICES ASSUME NEW w, NEW u
               PROVE  [f EXCEPT !.row = w, !.at = u] = [row |-> w, id |-> i, at |-> u, group |-> g, value |-> v]
    OBVIOUS
  <2> DEFINE fields == [row |-> r, id |-> i, at |-> a, group |-> g, value |-> v]
             named == [row |-> w, id |-> i, at |-> a, group |-> g, value |-> v]
  <2>1. [fields EXCEPT !.row = w, !.at = u] = [[fields EXCEPT !.row = w] EXCEPT !.at = u]
    <3> HIDE DEF fields
    <3> QED OBVIOUS
  <2>2. [fields EXCEPT !.row = w] = named
    OBVIOUS
  <2>3. [named EXCEPT !.at = u] = [row |-> w, id |-> i, at |-> u, group |-> g, value |-> v]
    OBVIOUS
  <2>4. f = fields
    BY <1>1
  <2> HIDE DEF fields, named
  <2> QED BY Zenon, <2>1, <2>2, <2>3, <2>4
<1>3. f.row = r /\ f.id = i /\ f.group = g /\ f.value = v
  BY <1>1
<1>4. CutAt(f, p, n) = [row |-> row, id |-> i, at |-> at, group |-> g, value |-> v]
  <2> HIDE DEF at, row
  <2> QED BY <1>2 DEF CutAt, at, row
<1> HIDE DEF at, row
<1>5. /\ CutAt(f, p, n).row = row /\ CutAt(f, p, n).id = i /\ CutAt(f, p, n).at = at
      /\ CutAt(f, p, n).group = g /\ CutAt(f, p, n).value = v
  BY <1>4
<1> QED BY <1>3, <1>4, <1>5 DEF Feature, at, row

LEMMA SamePiece ==
  ASSUME NEW f, Whole_feature(f), NEW p \in f.at, NEW n, NEW q \in CutAt(f, p, n).at
  PROVE  q \in f.at /\ PieceAround(f.at, q) = PieceAround(f.at, p) /\ \A m : CutAt(f, q, m) = CutAt(f, p, m)
<1>1. q \in PlacesAlong(f.at, p) /\ f.at \in SUBSET DOMAIN HexOf
  BY CutIsOfIt DEF Whole_feature
<1>2. q \in f.at /\ PieceAround(f.at, q) = PieceAround(f.at, p) /\ PlacesAlong(f.at, q) = PlacesAlong(f.at, p)
  BY <1>1, AlongAPlace
<1> QED BY <1>2 DEF CutAt

LEMMA RenamedIsTheSame ==
  ASSUME NEW f, Feature(f), NEW i
  PROVE  /\ [f EXCEPT !.id = i].row = f.row /\ [f EXCEPT !.id = i].at = f.at
         /\ [f EXCEPT !.id = i].value = f.value /\ [f EXCEPT !.id = i].id = i
         /\ Feature([f EXCEPT !.id = i])
<1>1. \A r, j, a, g, v, u : [[row |-> r, id |-> j, at |-> a, group |-> g, value |-> v] EXCEPT !.id = u]
                              = [row |-> r, id |-> u, at |-> a, group |-> g, value |-> v]
  OBVIOUS
<1>2. [f EXCEPT !.id = i] = [row |-> f.row, id |-> i, at |-> f.at, group |-> f.group, value |-> f.value]
  <2>1. PICK r, j, a, g, v : f = [row |-> r, id |-> j, at |-> a, group |-> g, value |-> v]
    BY DEF Feature
  <2>2. [f EXCEPT !.id = i] = [row |-> r, id |-> i, at |-> a, group |-> g, value |-> v]
    <3> DEFINE fields == [row |-> r, id |-> j, at |-> a, group |-> g, value |-> v]
    <3>1. [fields EXCEPT !.id = i] = [row |-> r, id |-> i, at |-> a, group |-> g, value |-> v]
      BY <1>1
    <3>2. f = fields
      BY <2>1
    <3> HIDE DEF fields
    <3> QED BY Zenon, <3>1, <3>2
  <2>3. f.row = r /\ f.at = a /\ f.group = g /\ f.value = v
    BY <2>1
  <2> QED BY <2>2, <2>3
<1> QED BY <1>2 DEF Feature

LayerFits(l) ==
  /\ IsFiniteSet(l.features) /\ IsFiniteSet(l.hidden) /\ IsFiniteSet(l.edits)
  /\ \A f \in l.features \cup l.hidden : Whole_feature(f)
  /\ \A e \in l.edits : Whole_feature(e.feature)

Renamed(edits) == {[e.feature EXCEPT !.id = e.origin] : e \in {d \in edits : d.edit \in {"n", "m"}}}

LEMMA RenamedFit ==
  ASSUME NEW l, LayerFits(l), NEW f \in Renamed(l.edits)
  PROVE  Whole_feature(f) /\ \E e \in l.edits : f.id = e.origin
<1>1. PICK e \in l.edits : f = [e.feature EXCEPT !.id = e.origin]
  BY DEF Renamed
<1>2. Whole_feature(e.feature)
  BY DEF LayerFits
<1> QED BY <1>1, <1>2, RenamedIsTheSame DEF Whole_feature

LEMMA OverlaidFit ==
  ASSUME NEW l, LayerFits(l), NEW those \in SUBSET l.features
  PROVE  /\ IsFiniteSet(Overlaid(those, l.edits))
         /\ \A f \in Overlaid(those, l.edits) : Whole_feature(f)
<1> DEFINE kept == {f \in those : \A e \in l.edits : e.origin # f.id}
           made == {d \in l.edits : d.edit \in {"n", "m"}}
           as == [e \in made |-> [e.feature EXCEPT !.id = e.origin]]
<1>1. Overlaid(those, l.edits) = kept \cup Renamed(l.edits)
  BY DEF Overlaid, Renamed
<1>2. IsFiniteSet(kept) /\ IsFiniteSet(made)
  BY FS_Subset DEF LayerFits
<1>3. Renamed(l.edits) = {as[e] : e \in made}
  BY DEF Renamed
<1>4. IsFiniteSet({as[e] : e \in made})
  <2> HIDE DEF as, made
  <2> QED BY <1>2, ImageIsFinite
<1>5. \A f \in kept : Whole_feature(f)
  BY DEF LayerFits
<1> HIDE DEF kept, made, as
<1> QED BY <1>1, <1>2, <1>3, <1>4, <1>5, RenamedFit, FS_Union

(* What lies in an extent: any feature of the layer.                       *)
LEMMA GreatestExists ==
  ASSUME NEW S \in SUBSET Int, IsFiniteSet(S), S # {}
  PROVE  /\ \E x \in S : \A y \in S : x <= y
         /\ \E x \in S : \A y \in S : y <= x
<1> DEFINE Good == {s \in SUBSET S : s = {} \/ /\ \E x \in s : \A y \in s : x <= y
                                               /\ \E x \in s : \A y \in s : y <= x}
<1>1. ASSUME NEW s \in SUBSET S, \A t \in SUBSET s : t # s => t \in Good
      PROVE  s \in Good
  <2>1. CASE s # {} /\ Rest(s) = {}
    <3>1. s = {Picked(s)}
      BY <2>1 DEF Rest, Picked
    <3>2. Picked(s) \in Int
      BY <2>1, RestIsSmaller
    <3> QED BY <3>1, <3>2
  <2>2. CASE s # {} /\ Rest(s) # {}
    <3>1. Picked(s) \in s /\ Rest(s) \in Good /\ Rest(s) = s \ {Picked(s)}
      <4>1. Picked(s) \in s /\ Rest(s) \in SUBSET s /\ Rest(s) # s
        BY <2>2, RestIsSmaller
      <4> HIDE DEF Good
      <4> QED BY <1>1, <4>1 DEF Rest
    <3>2. PICK l \in Rest(s) : \A y \in Rest(s) : l <= y
      BY <2>2, <3>1
    <3>3. PICK m \in Rest(s) : \A y \in Rest(s) : y <= m
      BY <2>2, <3>1
    <3>4. Picked(s) \in Int /\ l \in Int /\ m \in Int /\ s \in SUBSET Int /\ l \in s /\ m \in s
          /\ \A y \in s : y = Picked(s) \/ y \in Rest(s)
      BY <3>1, <3>2, <3>3
    <3>5. \E x \in s : \A y \in s : x <= y
      <4>1. CASE Picked(s) <= l
        <5>1. \A y \in s : Picked(s) <= y
          BY <3>2, <3>4, <4>1
        <5> QED BY <3>1, <5>1
      <4>2. CASE ~(Picked(s) <= l)
        <5>1. \A y \in s : l <= y
          BY <3>2, <3>4, <4>2
        <5> QED BY <3>4, <5>1
      <4> QED BY <4>1, <4>2
    <3>6. \E x \in s : \A y \in s : y <= x
      <4>1. CASE m <= Picked(s)
        <5>1. \A y \in s : y <= Picked(s)
          BY <3>3, <3>4, <4>1
        <5> QED BY <3>1, <5>1
      <4>2. CASE ~(m <= Picked(s))
        <5>1. \A y \in s : y <= m
          BY <3>3, <3>4, <4>2
        <5> QED BY <3>4, <5>1
      <4> QED BY <4>1, <4>2
    <3> QED BY <3>5, <3>6
  <2>3. CASE s = {}
    BY <2>3
  <2> QED BY <2>1, <2>2, <2>3
<1>2. \A s \in SUBSET S : s \in Good
  <2> HIDE DEF Good
  <2> QED BY <1>1, BySmaller
<1> QED BY <1>2

LEMMA FeaturesLieInTheExtent ==
  ASSUME NEW l, LayerFits(l), NEW f \in l.features
  PROVE  f.at \in SUBSET Extent(l)
<1> DEFINE all == l.features \cup l.hidden
           outlines == {g.at : g \in all}
           places == Covered(all)
           at == [g \in all |-> g.at]
<1>1. IsFiniteSet(all) /\ \A g \in all : IsFiniteSet(g.at) /\ g.at \in SUBSET Int
  BY FS_Union DEF LayerFits, Whole_feature
<1>2. IsFiniteSet(outlines)
  <2>1. outlines = {at[g] : g \in all}
    OBVIOUS
  <2>2. IsFiniteSet({at[g] : g \in all})
    <3> HIDE DEF all, at
    <3> QED BY <1>1, ImageIsFinite
  <2> QED BY <2>1, <2>2
<1>3. IsFiniteSet(UNION outlines)
  <2> HIDE DEF all
  <2> QED BY <1>1, <1>2, FS_UNION
<1>4. places = UNION outlines
  BY DEF Covered
<1>5. f.at \in SUBSET places /\ places \in SUBSET Int
  <2> HIDE DEF all
  <2>1. f \in all
    BY DEF all
  <2> QED BY <1>1, <1>4, <2>1
<1>6. ASSUME NEW p \in f.at PROVE p \in Extent(l)
  <2>1. p \in places /\ places # {} /\ IsFiniteSet(places)
    BY <1>3, <1>4, <1>5
  <2>2. /\ \E x \in places : \A y \in places : x <= y
        /\ \E x \in places : \A y \in places : y <= x
    <3> HIDE DEF places
    <3> QED BY <1>5, <2>1, GreatestExists
  <2>3. Min(places) \in places /\ Max(places) \in places /\ Min(places) <= p /\ p <= Max(places)
    <3>1. Min(places) \in places /\ \A y \in places : Min(places) <= y
      BY <2>2 DEF Min
    <3>2. Max(places) \in places /\ \A y \in places : y <= Max(places)
      <4>1. \A x, y \in places : x >= y <=> y <= x
        BY <1>5
      <4> HIDE DEF places
      <4> QED BY <2>2, <4>1 DEF Max
    <3> QED BY <2>1, <3>1, <3>2
  <2>4. Min(places) \in Int /\ Max(places) \in Int /\ p \in Int
    BY <1>5, <2>1, <2>3
  <2> HIDE DEF places
  <2>5. p \in Min(places)..Max(places)
    BY <2>3, <2>4
  <2> QED BY <2>5 DEF Extent, places
<1> QED BY <1>6

LEMMA CopiesAre ==
  ASSUME NEW piece
  PROVE  1 \in Copies(piece) /\ (~Doubled(piece) => Copies(piece) = {1})
BY DEF Copies

LEMMA DistributedAre ==
  ASSUME NEW fs, \A f \in fs : Whole_feature(f), NEW y
  PROVE  y \in create_distributed_polygon_table(fs)
           <=> \E f \in fs : \E p \in f.at : \E n \in Copies(PieceAround(f.at, p)) : y = CutAt(f, p, n)
<1> DEFINE row(f, piece, s, n) == [f EXCEPT !.row = <<f.row, n>>, !.at = {p \in piece : ShardOf[p] = s}]
           rows(f, piece) == {row(f, piece, s, n) : s \in {ShardOf[p] : p \in piece}, n \in Copies(piece)}
           pieces(f) == UNION {rows(f, piece) : piece \in Subdivided(f.at)}
<1>1. create_distributed_polygon_table(fs) = UNION {pieces(f) : f \in fs}
  BY DEF create_distributed_polygon_table
<1>2. ASSUME NEW f \in fs
      PROVE  y \in pieces(f) <=> \E p \in f.at : \E n \in Copies(PieceAround(f.at, p)) : y = CutAt(f, p, n)
  <2>1. f.at \in SUBSET DOMAIN HexOf
    BY DEF Whole_feature
  <2>2. \A p : row(f, PieceAround(f.at, p), ShardOf[p], 1) = CutAt(f, p, 1)
    BY DEF CutAt, PlacesAlong
  <2>3. \A p, n : row(f, PieceAround(f.at, p), ShardOf[p], n) = CutAt(f, p, n)
    BY DEF CutAt, PlacesAlong
  <2>4. y \in pieces(f) <=> \E piece \in Subdivided(f.at) : y \in rows(f, piece)
    <3> HIDE DEF rows
    <3> QED OBVIOUS
  <2>5. \A piece : y \in rows(f, piece)
                    <=> \E p \in piece : \E n \in Copies(piece) : y = row(f, piece, ShardOf[p], n)
    <3> HIDE DEF row
    <3> QED OBVIOUS
  <2>6. \A piece \in Subdivided(f.at) : \A p \in piece : p \in f.at /\ piece = PieceAround(f.at, p)
    <3>1. UNION Subdivided(f.at) = f.at
      BY <2>1, SubdivisionAssumption
    <3> QED BY <2>1, <3>1, PieceAroundIs
  <2>7. \A p \in f.at : PieceAround(f.at, p) \in Subdivided(f.at) /\ p \in PieceAround(f.at, p)
    BY <2>1, PieceAroundIs
  <2> HIDE DEF row, rows, pieces
  <2>8. ASSUME y \in pieces(f)
        PROVE  \E p \in f.at : \E n \in Copies(PieceAround(f.at, p)) : y = CutAt(f, p, n)
    <3>1. PICK piece \in Subdivided(f.at) :
                 \E p \in piece : \E n \in Copies(piece) : y = row(f, piece, ShardOf[p], n)
      BY <2>4, <2>5, <2>8
    <3> QED BY <2>3, <2>6, <3>1
  <2>9. ASSUME NEW p \in f.at, NEW n \in Copies(PieceAround(f.at, p)), y = CutAt(f, p, n) PROVE y \in pieces(f)
    <3>1. y = row(f, PieceAround(f.at, p), ShardOf[p], n)
      BY <2>3, <2>9
    <3> QED BY <2>4, <2>5, <2>7, <3>1
  <2> QED BY <2>8, <2>9
<1> HIDE DEF pieces
<1> QED BY <1>1, <1>2

(* Sums of the values of pairs. *)
Valuing(pairs) == MapThenSumSet(LAMBDA x : x[2].value, pairs)

LEMMA ValuingIsSum ==
  ASSUME NEW S, IsFiniteSet(S)
  PROVE  Valuing(S) = SumOver([x \in S |-> x[2].value], S)
<1> DEFINE g == [x \in S |-> x[2].value]
           it == CHOOSE sm : sm = [s \in SUBSET S |-> IF s = {} THEN 0 ELSE Picked(s)[2].value + sm[Rest(s)]]
<1>1. ASSUME NEW sm
      PROVE  Summing(g, S, sm) <=> sm = [s \in SUBSET S |-> IF s = {} THEN 0 ELSE Picked(s)[2].value + sm[Rest(s)]]
  <2>1. \A s \in SUBSET S : s # {} => g[Picked(s)] = Picked(s)[2].value
    BY RestIsSmaller
  <2> HIDE DEF g
  <2> QED BY <2>1 DEF Summing
<1>2. Summing(g, S, it)
  BY <1>1, SummingExists
<1>3. Valuing(S) = it[S]
  BY Zenon DEF Valuing, MapThenSumSet, MapThenFoldSet, Picked, Rest
<1> HIDE DEF g, it
<1> QED BY <1>2, <1>3, SumOfSubset DEF g

LEMMA ValuesOfImage ==
  ASSUME NEW K, IsFiniteSet(K), NEW F, \A x, y \in K : F[x] = F[y] => x = y,
         \A x \in K : F[x][2].value \in Int
  PROVE  Valuing({F[x] : x \in K}) = SumOver([x \in K |-> F[x][2].value], K)
<1> DEFINE T == {F[x] : x \in K}
           g == [x \in K |-> F[x][2].value]
           h == [y \in T |-> y[2].value]
<1>1. IsFiniteSet(T)
  BY AsMany
<1>2. \A x \in K : g[x] = h[F[x]] /\ g[x] \in Int
  OBVIOUS
<1>3. SumOver(h, T) = SumOver(g, K)
  <2> HIDE DEF g, h
  <2> QED BY ONLY IsFiniteSet(K), \A x, y \in K : F[x] = F[y] => x = y, <1>2, SumOfImage, SMTT(60)
<1>4. Valuing(T) = SumOver(h, T)
  <2> HIDE DEF T
  <2> QED BY <1>1, ValuingIsSum
<1> QED BY <1>3, <1>4

(* A statistic is the same of two lots of pairs that go with the same      *)
(* things and have their values.                                           *)
LEMMA StatisticsAgree ==
  ASSUME NEW K, IsFiniteSet(K), NEW F, NEW G, NEW op,
         \A x, y \in K : F[x] = F[y] => x = y,
         \A x, y \in K : G[x] = G[y] => x = y,
         \A x \in K : F[x][2].value = G[x][2].value /\ F[x][2].value \in Int
  PROVE  get_statistics_sql(op, {F[x] : x \in K}) = get_statistics_sql(op, {G[x] : x \in K})
<1> DEFINE T == {F[x] : x \in K}
           U == {G[x] : x \in K}
<1>1. Cardinality(T) = Cardinality(U)
  BY AsMany
<1>2. Valuing(T) = Valuing(U)
  <2>1. Valuing(T) = SumOver([x \in K |-> F[x][2].value], K)
    BY ValuesOfImage
  <2>2. Valuing(U) = SumOver([x \in K |-> G[x][2].value], K)
    <3>1. \A x \in K : G[x][2].value \in Int
      OBVIOUS
    <3> QED BY <3>1, ValuesOfImage
  <2>3. [x \in K |-> F[x][2].value] = [x \in K |-> G[x][2].value]
    OBVIOUS
  <2> QED BY <2>1, <2>2, <2>3
<1>3. {x[2].value : x \in T} = {x[2].value : x \in U}
  OBVIOUS
<1>4. get_statistics_sql(op, T) = get_statistics_sql(op, U)
  <2> DEFINE stat(n, v, vs) == IF op = "count" THEN n ELSE IF op = "sum" THEN v
                               ELSE IF op = "min" THEN Min(vs) ELSE Max(vs)
             values(s) == {x[2].value : x \in s}
  <2>1. ASSUME NEW s PROVE get_statistics_sql(op, s) = stat(Cardinality(s), Valuing(s), values(s))
    BY Zenon DEF get_statistics_sql, Valuing
  <2> HIDE DEF T, U, stat
  <2> QED BY <1>1, <1>2, <1>3, <2>1
<1> QED BY <1>4

(* The groups make up the total, when their names tell them apart.         *)
LEMMA GroupsSumUp ==
  ASSUME NEW S, IsFiniteSet(S), \A x \in S : x[2].value \in Int, NEW op \in {"count", "sum"},
         NamesDiffer(S), NEW portion, DOMAIN portion = DOMAIN Grouped(S),
         \A n \in DOMAIN portion : portion[n] = get_statistics_sql(op, Grouped(S)[n])
  PROVE  SumOver(portion, DOMAIN portion) = get_statistics_sql(op, S)
<1> DEFINE kind == [x \in S |-> GroupName(x[2])]
           names == {GroupName(x[2]) : x \in S}
           g == [x \in S |-> IF op = "count" THEN 1 ELSE x[2].value]
           own(n) == {x \in S : kind[x] = n}
<1>1. \A T \in SUBSET S : get_statistics_sql(op, T) = SumOver(g, T)
  <2> SUFFICES ASSUME NEW T \in SUBSET S PROVE get_statistics_sql(op, T) = SumOver(g, T)
    OBVIOUS
  <2>1. IsFiniteSet(T)
    BY FS_Subset
  <2>2. CASE op = "count"
    <3>1. SumOver(g, T) = Cardinality(T)
      <4>1. \A x \in T : g[x] = 1
        BY <2>2
      <4> HIDE DEF g
      <4> QED BY <2>1, <4>1, SumOfOnes
    <3> QED BY <2>2, <3>1 DEF get_statistics_sql
  <2>3. CASE op = "sum"
    <3>1. SumOver(g, T) = SumOver([x \in T |-> x[2].value], T)
      <4> DEFINE h == [x \in T |-> x[2].value]
      <4>1. \A x \in T : g[x] = h[x]
        BY <2>3
      <4> HIDE DEF g, h
      <4>2. SumOver(g, T) = SumOver(h, T)
        BY <2>1, <4>1, SumAgrees
      <4> QED BY <4>2 DEF h
    <3>2. Valuing(T) = SumOver([x \in T |-> x[2].value], T)
      BY <2>1, ValuingIsSum
    <3>3. get_statistics_sql(op, T) = Valuing(T)
      BY <2>3 DEF get_statistics_sql, Valuing
    <3> QED BY <3>1, <3>2, <3>3
  <2> QED BY <2>2, <2>3
<1>2. DOMAIN portion = names
  BY DEF Grouped
<1>3. ASSUME NEW n \in names PROVE Grouped(S)[n] = own(n)
  <2> DEFINE groups == {x[2].group : x \in S}
             of(group) == {x \in S : x[2].group = group}
             fits(e) == \E x \in of(e) : GroupName(x[2]) = n
             chosen == CHOOSE e \in groups : fits(e)
  <2>1. Grouped(S)[n] = of(chosen)
    BY Zenon DEF Grouped
  <2>2. \E e \in groups : fits(e)
    BY <1>3
  <2>3. chosen \in groups /\ fits(chosen)
    <3> HIDE DEF groups, fits
    <3> QED BY <2>2
  <2>4. PICK y \in S : y[2].group = chosen /\ GroupName(y[2]) = n
    <3> HIDE DEF chosen
    <3> QED BY <2>3
  <2>5. ASSUME NEW x \in own(n) PROVE x \in of(chosen)
    <3>1. GroupName(x[2]) = GroupName(y[2])
      BY <2>4, <2>5
    <3> HIDE DEF chosen
    <3> QED BY <2>4, <2>5, <3>1 DEF NamesDiffer
  <2>6. ASSUME NEW x \in of(chosen) PROVE x \in own(n)
    <3> HIDE DEF chosen
    <3>1. x \in S /\ x[2].group = y[2].group
      BY <2>4, <2>6
    <3>2. GroupName(x[2]) = GroupName(y[2])
      BY Zenon, <3>1 DEF GroupName
    <3> QED BY <2>4, <3>1, <3>2
  <2> HIDE DEF own, of, chosen
  <2> QED BY <2>1, <2>5, <2>6
<1>4. SumOver(portion, names) = SumOver(g, S)
  <2>1. \A x \in S : g[x] \in Int
    OBVIOUS
  <2>2. IsFiniteSet(names) /\ \A x \in S : kind[x] \in names
    <3>1. IsFiniteSet({kind[x] : x \in S})
      <4> HIDE DEF kind
      <4> QED BY ImageIsFinite
    <3>2. {kind[x] : x \in S} = names
      OBVIOUS
    <3> QED BY <3>1, <3>2
  <2>3. ASSUME NEW n \in names PROVE portion[n] = SumOver(g, {x \in S : kind[x] = n})
    <3>1. portion[n] = get_statistics_sql(op, own(n))
      BY <1>2, <1>3
    <3>2. own(n) \in SUBSET S
      OBVIOUS
    <3> HIDE DEF g, kind
    <3> QED BY <1>1, <3>1, <3>2
  <2>4. IsFiniteSet(names)
    BY <2>2
  <2>5. \A x \in S : kind[x] \in names
    BY <2>2
  <2>6. \A n \in names : portion[n] = SumOver(g, PartOf(S, kind, n))
    BY <2>3 DEF PartOf
  <2> HIDE DEF g, kind, names
  <2> QED BY ONLY IsFiniteSet(S), <2>1, <2>4, <2>5, <2>6, SumOfParts
<1>5. get_statistics_sql(op, S) = SumOver(g, S)
  <2> HIDE DEF g
  <2> QED BY <1>1
<1> QED BY <1>2, <1>4, <1>5

(* By a layer.  A feature and an area that meet, each cut where they do.   *)
AggregationFits(c) ==
  /\ LayerFits(c.source) /\ LayerFits(c.areas)
  /\ \A f, g \in Sources(c) : f.row = g.row => f = g
  /\ \A a, b \in c.areas.features : a.id = b.id => a = b
  /\ c.points => ~c.weighted /\ \A f \in Sources(c) : \A p, q \in f.at : p = q

CommonPlace(x) == CHOOSE p : p \in x[1].at \cap x[2].at

SourceAt(c, f, p) == IF c.points THEN f ELSE CutAt(f, p, 1)

CutTogether(c, x) == <<CutAt(x[1], CommonPlace(x), 1), SourceAt(c, x[2], CommonPlace(x))>>

LEMMA OnceAre ==
  ASSUME NEW place, NEW c, NEW x \in Once(place, c)
  PROVE  /\ x = <<place, x[2]>> /\ x[1] = place /\ x[2] \in Sources(c)
         /\ CommonPlace(x) \in place.at \cap x[2].at
<1>1. PICK f \in Sources(c) : f.at \cap place.at # {} /\ x = <<place, f>>
  BY DEF Once
<1>2. x[1] = place /\ x[2] = f
  BY <1>1
<1> DEFINE p == CHOOSE q : q \in x[1].at \cap x[2].at
<1>3. p \in x[1].at \cap x[2].at
  BY <1>1, <1>2
<1>4. CommonPlace(x) = p
  BY DEF CommonPlace
<1> HIDE DEF p
<1> QED BY <1>1, <1>2, <1>3, <1>4

LEMMA CuttingKeeps ==
  ASSUME NEW a, NEW c, Whole_feature(a), AggregationFits(c), NEW x \in Once(a, c)
  PROVE  /\ CutTogether(c, x)[2].value = x[2].value
         /\ CutTogether(c, x)[2].group = x[2].group
         /\ CutTogether(c, x)[2].row = (IF c.points THEN x[2].row ELSE Numbered(x[2].row, 1))
         /\ x[2].value \in Int
<1>1. x[2] \in Sources(c)
  BY OnceAre
<1>2. Whole_feature(x[2])
  BY <1>1, OverlaidFit DEF Sources, AggregationFits
<1>3. CutTogether(c, x)[2] = IF c.points THEN x[2] ELSE CutAt(x[2], CommonPlace(x), 1)
  BY DEF CutTogether, SourceAt
<1> QED BY <1>2, <1>3, CutIsOfIt DEF Whole_feature, Numbered

LEMMA PiecesOfAnArea ==
  ASSUME NEW c, AggregationFits(c), NEW a \in build_additional_spatial_filter(c.areas, c.source),
         \A e \in c.areas.edits : e.origin # a.id, NEW y
  PROVE  (/\ y \in create_distributed_polygon_table(
                   Overlaid(build_additional_spatial_filter(c.areas, c.source), c.areas.edits))
          /\ y.id = a.id)
           <=> \E p \in a.at : \E n \in Copies(PieceAround(a.at, p)) : y = CutAt(a, p, n)
<1> DEFINE near == build_additional_spatial_filter(c.areas, c.source)
           fs == Overlaid(near, c.areas.edits)
<1>1. near \in SUBSET c.areas.features /\ LayerFits(c.areas)
  BY DEF build_additional_spatial_filter, AggregationFits
<1>2. \A f \in fs : Whole_feature(f)
  <2> HIDE DEF near
  <2> QED BY <1>1, OverlaidFit
<1>3. a \in fs
  BY DEF Overlaid
<1>4. ASSUME NEW f \in fs, f.id = a.id PROVE f = a
  <2>1. CASE f \in near
    BY <1>1, <1>4, <2>1 DEF AggregationFits
  <2>2. CASE f \in Renamed(c.areas.edits)
    BY <1>1, <1>4, <2>2, RenamedFit
  <2> QED BY <2>1, <2>2 DEF Overlaid, Renamed
<1>5. ASSUME NEW f \in fs, NEW p, NEW n PROVE CutAt(f, p, n).id = f.id
  BY <1>2, CutIsOfIt DEF Whole_feature
<1>6. y \in create_distributed_polygon_table(fs)
        <=> \E f \in fs : \E p \in f.at : \E n \in Copies(PieceAround(f.at, p)) : y = CutAt(f, p, n)
  <2> HIDE DEF fs
  <2> QED BY <1>2, DistributedAre
<1> HIDE DEF fs
<1> QED BY <1>3, <1>4, <1>5, <1>6 DEF fs

LEMMA SourcesThatMeet ==
  ASSUME NEW c, AggregationFits(c), NEW a \in c.areas.features, NEW f, f.at \cap a.at # {}
  PROVE  f \in Overlaid(build_additional_spatial_filter(c.source, c.areas), c.source.edits) <=> f \in Sources(c)
<1>1. a.at \in SUBSET Extent(c.areas)
  BY FeaturesLieInTheExtent DEF AggregationFits
<1>2. f.at \cap Extent(c.areas) # {}
  BY <1>1
<1>3. f \in build_additional_spatial_filter(c.source, c.areas) <=> f \in c.source.features
  BY <1>2 DEF build_additional_spatial_filter
<1> QED BY <1>3 DEF Sources, Overlaid

(* What meets a piece of the area is what meets the area, once.            *)
LEMMA MeetingIsOnce ==
  ASSUME NEW c, AggregationFits(c), NEW a \in build_additional_spatial_filter(c.areas, c.source),
         \A e \in c.areas.edits : e.origin # a.id,
         \A x \in Once(a, c) : MeetInOneRow(c, a, x[2])
  PROVE  {x \in Pairs(c) : x[1].id = a.id} = {CutTogether(c, x) : x \in Once(a, c)}
<1> DEFINE areas == create_distributed_polygon_table(
                      Overlaid(build_additional_spatial_filter(c.areas, c.source), c.areas.edits))
           fs == Overlaid(build_additional_spatial_filter(c.source, c.areas), c.source.edits)
           of == {x \in Pairs(c) : x[1].id = a.id}
<1>1. a \in c.areas.features /\ Whole_feature(a)
  BY DEF build_additional_spatial_filter, AggregationFits, LayerFits
<1>2. \A f \in fs : Whole_feature(f)
  <2>1. build_additional_spatial_filter(c.source, c.areas) \in SUBSET c.source.features
    BY DEF build_additional_spatial_filter
  <2> QED BY <2>1, OverlaidFit DEF AggregationFits
<1>3. Pairs(c) = {x \in areas \X temp_source(c, fs) : x[1].at \cap x[2].at # {}}
  BY Zenon DEF Pairs, Meet
<1>4. ASSUME NEW x \in of PROVE \E z \in Once(a, c) : x = CutTogether(c, z)
  <2>1. /\ x = <<x[1], x[2]>> /\ x[1] \in areas /\ x[2] \in temp_source(c, fs)
        /\ x[1].id = a.id /\ x[1].at \cap x[2].at # {}
    <3> HIDE DEF areas, fs
    <3> QED BY <1>3, <1>4
  <2>2. PICK r, k : r \in a.at /\ k \in Copies(PieceAround(a.at, r)) /\ x[1] = CutAt(a, r, k)
    BY <2>1, PiecesOfAnArea
  <2>3. PICK q : q \in x[1].at /\ q \in x[2].at
    BY <2>1
  <2>4. q \in a.at /\ PieceAround(a.at, q) = PieceAround(a.at, r) /\ CutAt(a, q, k) = x[1]
    BY <1>1, <2>2, <2>3, SamePiece
  <2>5. PICK f \in fs : /\ q \in f.at
                        /\ IF c.points THEN x[2] = f
                           ELSE \E m \in Copies(PieceAround(f.at, q)) : x[2] = CutAt(f, q, m)
    <3>1. CASE c.points
      <4>1. x[2] \in fs
        <5> HIDE DEF fs
        <5> QED BY <2>1, <3>1 DEF temp_source
      <4> HIDE DEF fs
      <4> QED BY <2>3, <3>1, <4>1
    <3>2. CASE ~c.points
      <4>1. PICK f, t, m : f \in fs /\ t \in f.at /\ m \in Copies(PieceAround(f.at, t)) /\ x[2] = CutAt(f, t, m)
        <5> HIDE DEF fs
        <5>1. x[2] \in create_distributed_polygon_table(fs)
          BY <2>1, <3>2 DEF temp_source
        <5> QED BY <1>2, <5>1, DistributedAre
      <4>2. q \in f.at /\ PieceAround(f.at, q) = PieceAround(f.at, t) /\ CutAt(f, q, m) = x[2]
        BY <1>2, <2>3, <4>1, SamePiece
      <4> HIDE DEF fs
      <4> QED BY <3>2, <4>1, <4>2
    <3> QED BY <3>1, <3>2
  <2>6. f \in Sources(c)
    <3>1. f.at \cap a.at # {}
      BY <2>4, <2>5
    <3> QED BY <1>1, <2>5, <3>1, SourcesThatMeet
  <2> DEFINE z == <<a, f>>
             p == CommonPlace(z)
  <2>7. z \in Once(a, c) /\ z[1] = a /\ z[2] = f
    BY <2>4, <2>5, <2>6 DEF Once
  <2>8. p \in a.at /\ p \in f.at
    <3> HIDE DEF z
    <3> QED BY <2>7, OnceAre
  <2>9. MeetInOneRow(c, a, f)
    <3> HIDE DEF z
    <3> QED BY <2>7
  <2>10. a.at \in SUBSET DOMAIN HexOf /\ f.at \in SUBSET DOMAIN HexOf
    BY <1>1, <1>2 DEF Whole_feature
  <2>11. x[1] = CutAt(a, q, 1)
    <3>1. PieceAround(a.at, q) \in Subdivided(a.at)
      BY <2>4, <2>10, PieceAroundIs
    <3>2. k = 1
      BY <2>2, <2>4, <2>9, <3>1, CopiesAre DEF MeetInOneRow, Undoubled
    <3> QED BY <2>4, <3>2
  <2>12. CutAt(a, q, 1) = CutAt(a, p, 1) /\ x[2] = SourceAt(c, f, p)
    <3>1. CASE c.points
      <4>1. p = q
        BY <2>5, <2>6, <2>8, <3>1 DEF AggregationFits
      <4> QED BY <2>5, <3>1, <4>1 DEF SourceAt
    <3>2. CASE ~c.points
      <4>1. Undoubled(f) /\ Undivided(a) /\ Undivided(f) /\ (Uncut(a) \/ Uncut(f))
        BY <2>9, <3>2 DEF MeetInOneRow
      <4>2. /\ PieceAround(a.at, p) = a.at /\ PieceAround(a.at, q) = a.at
            /\ PieceAround(f.at, p) = f.at /\ PieceAround(f.at, q) = f.at
        BY <2>4, <2>5, <2>8, <2>10, <4>1, PieceAroundIs DEF Undivided
      <4>3. ShardOf[p] = ShardOf[q]
        BY <2>4, <2>5, <2>8, <4>1 DEF Uncut
      <4>4. CutAt(a, q, 1) = CutAt(a, p, 1) /\ CutAt(f, q, 1) = CutAt(f, p, 1)
        <5> HIDE DEF p
        <5> QED BY <4>2, <4>3 DEF CutAt, PlacesAlong
      <4>5. PICK m \in Copies(PieceAround(f.at, q)) : x[2] = CutAt(f, q, m)
        BY <2>5, <3>2
      <4>6. m = 1
        BY <4>1, <4>2, <4>5, CopiesAre DEF Undoubled, Undivided
      <4> QED BY <3>2, <4>4, <4>5, <4>6 DEF SourceAt
    <3> QED BY <3>1, <3>2
  <2>13. x = CutTogether(c, z)
    <3> HIDE DEF z
    <3> QED BY <2>1, <2>7, <2>11, <2>12 DEF CutTogether
  <2> QED BY <2>7, <2>13
<1>5. ASSUME NEW z \in Once(a, c) PROVE CutTogether(c, z) \in of
  <2> DEFINE p == CommonPlace(z)
             y == CutAt(a, p, 1)
             b == SourceAt(c, z[2], p)
  <2>1. z = <<a, z[2]>> /\ z[1] = a /\ z[2] \in Sources(c) /\ p \in a.at /\ p \in z[2].at
    BY OnceAre
  <2>2. z[2] \in fs /\ Whole_feature(z[2])
    BY <1>1, <1>2, <2>1, SourcesThatMeet
  <2>3. CutTogether(c, z) = <<y, b>>
    BY <2>1 DEF CutTogether
  <2>4. y \in areas /\ y.id = a.id
    <3>1. 1 \in Copies(PieceAround(a.at, p))
      BY CopiesAre
    <3> HIDE DEF areas, p
    <3> QED BY <2>1, <3>1, PiecesOfAnArea DEF areas
  <2>5. p \in y.at
    <3> HIDE DEF p
    <3> QED BY <1>1, <2>1, CutIsOfIt, AlongAPlace DEF Whole_feature
  <2>6. b \in temp_source(c, fs) /\ p \in b.at
    <3>1. CASE c.points
      <4>1. b = z[2] /\ temp_source(c, fs) = fs
        BY <3>1 DEF SourceAt, temp_source
      <4> HIDE DEF b, fs, p
      <4> QED BY <2>1, <2>2, <4>1
    <3>2. CASE ~c.points
      <4>1. b = CutAt(z[2], p, 1) /\ temp_source(c, fs) = create_distributed_polygon_table(fs)
        BY <3>2 DEF SourceAt, temp_source
      <4>2. 1 \in Copies(PieceAround(z[2].at, p))
        BY CopiesAre
      <4> HIDE DEF b, fs, p
      <4>3. b \in create_distributed_polygon_table(fs)
        BY <1>2, <2>1, <2>2, <4>1, <4>2, DistributedAre
      <4>4. p \in b.at
        BY <2>1, <2>2, <4>1, CutIsOfIt, AlongAPlace DEF Whole_feature
      <4> QED BY <4>1, <4>3, <4>4
    <3> QED BY <3>1, <3>2
  <2> HIDE DEF areas, fs, p, y, b
  <2>7. <<y, b>> \in areas \X temp_source(c, fs) /\ <<y, b>>[1].at \cap <<y, b>>[2].at # {} /\ <<y, b>>[1] = y
    BY <2>4, <2>5, <2>6
  <2>8. <<y, b>> \in Pairs(c)
    BY ONLY <1>3, <2>7, Zenon
  <2> QED BY <2>3, <2>4, <2>7, <2>8
<1>6. of = {CutTogether(c, x) : x \in Once(a, c)}
  <2> HIDE DEF of
  <2> QED BY <1>4, <1>5
<1> QED BY <1>6

LEMMA StatisticIsInteger ==
  ASSUME NEW S, IsFiniteSet(S), \A x \in S : x[2].value \in Int, NEW op \in {"count", "sum"}
  PROVE  get_statistics_sql(op, S) \in Int
<1>1. Cardinality(S) \in Int
  BY FS_CardinalityType
<1>2. Valuing(S) \in Int
  <2> DEFINE g == [x \in S |-> x[2].value]
  <2>1. \A x \in S : g[x] \in Int
    OBVIOUS
  <2>2. SumOver(g, S) \in Int
    <3> HIDE DEF g
    <3> QED BY <2>1, SumIsNumber
  <2>3. Valuing(S) = SumOver(g, S)
    BY ValuingIsSum
  <2> QED BY <2>2, <2>3
<1> QED BY <1>1, <1>2 DEF get_statistics_sql, Valuing

Sharing_out(pairs) == MapThenSumSet(LAMBDA x : Share(x[1], x[2]), pairs)

LEMMA SingleShare ==
  ASSUME NEW y
  PROVE  Sharing_out({y}) = Share(y[1], y[2]) + 0
<1> DEFINE S == {y}
           g == [x \in S |-> Share(x[1], x[2])]
           it == CHOOSE sm : sm = [s \in SUBSET S |-> IF s = {} THEN 0
                                                      ELSE Share(Picked(s)[1], Picked(s)[2]) + sm[Rest(s)]]
<1>0. IsFiniteSet(S)
  BY FS_Singleton
<1>1. ASSUME NEW sm
      PROVE  Summing(g, S, sm) <=> sm = [s \in SUBSET S |-> IF s = {} THEN 0
                                                            ELSE Share(Picked(s)[1], Picked(s)[2]) + sm[Rest(s)]]
  <2>1. \A s \in SUBSET S : s # {} => g[Picked(s)] = Share(Picked(s)[1], Picked(s)[2])
    <3> SUFFICES ASSUME NEW s \in SUBSET S, s # {} PROVE g[Picked(s)] = Share(Picked(s)[1], Picked(s)[2])
      OBVIOUS
    <3>1. Picked(s) \in S
      BY RestIsSmaller
    <3> HIDE DEF S
    <3> QED BY <3>1
  <2> HIDE DEF g, S
  <2> QED BY <2>1 DEF Summing
<1>2. Summing(g, S, it)
  <2> HIDE DEF g, S
  <2> QED BY <1>0, <1>1, SummingExists
<1>3. Sharing_out(S) = it[S]
  <2> HIDE DEF S
  <2> QED BY Zenon DEF Sharing_out, MapThenSumSet, MapThenFoldSet, Picked, Rest
<1>4. Picked(S) = y /\ Rest(S) = {}
  BY DEF Picked, Rest
<1>5. it[S] = g[y] + it[{}] /\ it[{}] = 0
  <2>1. S \in SUBSET S /\ {} \in SUBSET S /\ S # {}
    OBVIOUS
  <2> HIDE DEF S, it, g
  <2> QED BY <1>2, <1>4, <2>1 DEF Summing
<1>6. g[y] = Share(y[1], y[2])
  OBVIOUS
<1> HIDE DEF it, g
<1> QED BY <1>3, <1>5, <1>6

LEMMA OnceIsFinite ==
  ASSUME NEW place, NEW c, LayerFits(c.source)
  PROVE  IsFiniteSet(Once(place, c))
<1> DEFINE near == {g \in Sources(c) : g.at \cap place.at # {}}
           with == [f \in near |-> <<place, f>>]
<1>1. IsFiniteSet(near)
  BY OverlaidFit, FS_Subset DEF Sources
<1>2. {with[f] : f \in near} = Once(place, c)
  BY DEF Once
<1>3. IsFiniteSet({with[f] : f \in near})
  <2> HIDE DEF with, near
  <2> QED BY <1>1, ImageIsFinite
<1> QED BY <1>2, <1>3

LEMMA CuttingIsOneToOne ==
  ASSUME NEW c, AggregationFits(c), NEW a, Whole_feature(a),
         NEW x \in Once(a, c), NEW y \in Once(a, c), CutTogether(c, x) = CutTogether(c, y)
  PROVE  x = y
<1>1. x = <<a, x[2]>> /\ y = <<a, y[2]>> /\ x[2] \in Sources(c) /\ y[2] \in Sources(c)
  BY OnceAre
<1>2. x[2].row = y[2].row
  <2>1. /\ CutTogether(c, x)[2].row = (IF c.points THEN x[2].row ELSE Numbered(x[2].row, 1))
        /\ CutTogether(c, y)[2].row = (IF c.points THEN y[2].row ELSE Numbered(y[2].row, 1))
    BY CuttingKeeps
  <2>2. \A r, s : Numbered(r, 1) = Numbered(s, 1) => r = s
    BY DEF Numbered
  <2> QED BY <2>1, <2>2
<1>3. x[2] = y[2]
  BY <1>1, <1>2 DEF AggregationFits
<1> QED BY <1>1, <1>3

(* The weights of the pieces of a single feature are its own.              *)
LEMMA CuttingKeepsTheShare ==
  ASSUME NEW c, AggregationFits(c), c.weighted, NEW a, Whole_feature(a), NEW x \in Once(a, c),
         Uncut(x[2]), MeetInOneRow(c, a, x[2])
  PROVE  Share(CutTogether(c, x)[1], CutTogether(c, x)[2]) = Share(a, x[2])
<1> DEFINE f == x[2]
           p == CommonPlace(x)
<1>1. x[1] = a /\ f \in Sources(c) /\ p \in a.at /\ p \in f.at
  BY OnceAre
<1>2. ~c.points /\ Undivided(a) /\ Undivided(f)
  BY DEF AggregationFits, MeetInOneRow
<1>3. Whole_feature(f)
  BY <1>1, OverlaidFit DEF Sources, AggregationFits
<1>4. CutTogether(c, x)[1] = CutAt(a, p, 1) /\ CutTogether(c, x)[2] = CutAt(f, p, 1)
  BY <1>1, <1>2 DEF CutTogether, SourceAt
<1> HIDE DEF p
<1>5. PieceAround(a.at, p) = a.at /\ PieceAround(f.at, p) = f.at
  <2> HIDE DEF f
  <2> QED BY <1>1, <1>2, <1>3, PieceAroundIs DEF Undivided, Whole_feature
<1>6. /\ CutAt(a, p, 1).at = {q \in a.at : ShardOf[q] = ShardOf[p]}
      /\ CutAt(f, p, 1).at = {q \in f.at : ShardOf[q] = ShardOf[p]}
  <2> HIDE DEF f
  <2> QED BY <1>3, <1>5, CutIsOfIt DEF Whole_feature, PlacesAlong
<1>7. \A q \in f.at : ShardOf[q] = ShardOf[p]
  BY <1>1 DEF Uncut
<1>8. CutAt(f, p, 1).at = f.at /\ CutAt(a, p, 1).at \cap f.at = a.at \cap f.at
  <2> HIDE DEF f
  <2> QED BY <1>6, <1>7
<1> HIDE DEF f
<1>9. Share(CutAt(a, p, 1), CutAt(f, p, 1)) = Share(a, f)
  BY Zenon, <1>8 DEF Share
<1> QED BY <1>4, <1>9 DEF f

(* What is found of an area is what is asked for. *)
LEMMA TotalIsExact ==
  ASSUME NEW c, AggregationFits(c), NEW a, Whole_feature(a), NEW got,
         got = {CutTogether(c, x) : x \in Once(a, c)}, Once(a, c) # {},
         \A x \in Once(a, c) : MeetInOneRow(c, a, x[2]),
         c.weighted => Cardinality(Once(a, c)) = 1 /\ \A x \in Once(a, c) : Uncut(x[2])
  PROVE  /\ Weighted(c, got) = Weighted(c, Once(a, c))
         /\ got # {} /\ IsFiniteSet(got) /\ \A y \in got : y[2].value \in Int
         /\ NamesDiffer(Once(a, c)) => NamesDiffer(got)
<1> DEFINE K == Once(a, c)
           F == [x \in K |-> CutTogether(c, x)]
           G == [x \in K |-> x]
<1>1. IsFiniteSet(K) /\ got = {F[x] : x \in K} /\ K = {G[x] : x \in K}
  BY OnceIsFinite DEF AggregationFits
<1>2. \A x, y \in K : F[x] = F[y] => x = y
  BY CuttingIsOneToOne
<1>3. \A x \in K : F[x][2].value = G[x][2].value /\ F[x][2].value \in Int
  <2>1. ASSUME NEW x \in K PROVE CutTogether(c, x)[2].value = x[2].value /\ x[2].value \in Int
    BY CuttingKeeps
  <2>2. \A x \in K : F[x] = CutTogether(c, x) /\ G[x] = x
    OBVIOUS
  <2> HIDE DEF F, G, K
  <2> QED BY <2>1, <2>2
<1>4. IsFiniteSet(got) /\ got # {} /\ \A y \in got : y[2].value \in Int
  <2>1. IsFiniteSet({F[x] : x \in K})
    <3> HIDE DEF F, K
    <3> QED BY <1>1, ImageIsFinite
  <2>2. got # {}
    BY DEF K
  <2>3. \A y \in got : y[2].value \in Int
    <3> HIDE DEF F, K
    <3> QED BY <1>1, <1>3
  <2>4. IsFiniteSet(got)
    <3> HIDE DEF F, K
    <3> QED BY <1>1, <2>1
  <2> QED BY <2>2, <2>3, <2>4
<1>5. get_statistics_sql(c.op, got) = get_statistics_sql(c.op, K)
  <2>1. \A x, y \in K : G[x] = G[y] => x = y
    OBVIOUS
  <2>2. get_statistics_sql(c.op, {F[x] : x \in K}) = get_statistics_sql(c.op, {G[x] : x \in K})
    <3> HIDE DEF F, G, K
    <3> QED BY ONLY <1>1, <1>2, <1>3, <2>1, StatisticsAgree, SMTT(60)
  <2> HIDE DEF F, G, K
  <2> QED BY ONLY <1>1, <2>2, Zenon
<1>6. Weighted(c, got) = Weighted(c, K)
  <2>1. CASE ~c.weighted
    <3>1. \A s : Weighted(c, s) = get_statistics_sql(c.op, s) * 1
      BY Zenon, <2>1 DEF Weighted
    <3> HIDE DEF K
    <3> QED BY <1>5, <3>1
  <2>2. CASE c.weighted
    <3>1. PICK z \in K : TRUE
      OBVIOUS
    <3>2. K = {z}
      <4>1. \A x \in K : x = z
        <5>1. Cardinality(K) <= 1
          BY <2>2
        <5> HIDE DEF K
        <5> QED BY <1>1, <3>1, <5>1, AtMostOne
      <4> QED BY <3>1, <4>1
    <3>3. got = {CutTogether(c, z)}
      BY <3>2
    <3>4. Share(CutTogether(c, z)[1], CutTogether(c, z)[2]) = Share(z[1], z[2])
      BY <2>2, CuttingKeepsTheShare, OnceAre
    <3>5. Sharing_out(got) = Sharing_out(K)
      BY <3>2, <3>3, <3>4, SingleShare
    <3>6. \A s : Weighted(c, s) = get_statistics_sql(c.op, s) * Sharing_out(s)
      BY Zenon, <2>2 DEF Weighted, Sharing_out
    <3> HIDE DEF K
    <3> QED BY <1>5, <3>5, <3>6 DEF K
  <2> QED BY <2>1, <2>2
<1>8. NamesDiffer(K) => NamesDiffer(got)
  <2> SUFFICES ASSUME NamesDiffer(K), NEW v \in got, NEW w \in got, GroupName(v[2]) = GroupName(w[2])
               PROVE  v[2].group = w[2].group
    BY DEF NamesDiffer
  <2>1. PICK x \in K : v = CutTogether(c, x)
    OBVIOUS
  <2>2. PICK y \in K : w = CutTogether(c, y)
    OBVIOUS
  <2>3. v[2].group = x[2].group /\ w[2].group = y[2].group
    <3>1. CutTogether(c, x)[2].group = x[2].group
      BY CuttingKeeps
    <3>2. CutTogether(c, y)[2].group = y[2].group
      BY CuttingKeeps
    <3> HIDE DEF K
    <3> QED BY <2>1, <2>2, <3>1, <3>2
  <2>4. GroupName(v[2]) = GroupName(x[2]) /\ GroupName(w[2]) = GroupName(y[2])
    BY Zenon, <2>3 DEF GroupName
  <2> HIDE DEF K
  <2> QED BY <2>1, <2>2, <2>3, <2>4 DEF NamesDiffer
<1> QED BY <1>4, <1>6, <1>8

LEMMA GroupedAreParts ==
  ASSUME NEW S, NEW n \in DOMAIN Grouped(S)
  PROVE  Grouped(S)[n] \in SUBSET S
<1> DEFINE of(e) == {x \in S : x[2].group = e}
<1>1. \A e : of(e) \in SUBSET S
  OBVIOUS
<1>2. \E e : Grouped(S)[n] = of(e)
  <2> HIDE DEF of
  <2> QED BY Zenon DEF Grouped, of
<1> QED BY <1>1, <1>2

LEMMA LayerGroupsSumUp ==
  ASSUME NEW c, ~c.weighted, NEW got, IsFiniteSet(got), \A y \in got : y[2].value \in Int,
         c.op \in {"count", "sum"}, NamesDiffer(got), NEW groups,
         groups = [n \in DOMAIN Grouped(got) |-> Weighted(c, Grouped(got)[n])]
  PROVE  SumOver(groups, DOMAIN groups) = Weighted(c, got)
<1>1. ASSUME NEW s \in SUBSET got PROVE Weighted(c, s) = get_statistics_sql(c.op, s)
  <2>1. get_statistics_sql(c.op, s) \in Int
    <3>1. IsFiniteSet(s)
      BY FS_Subset
    <3> QED BY <3>1, StatisticIsInteger
  <2>2. Weighted(c, s) = get_statistics_sql(c.op, s) * 1
    BY Zenon DEF Weighted
  <2> QED BY <2>1, <2>2
<1>2. \A n \in DOMAIN groups : groups[n] = get_statistics_sql(c.op, Grouped(got)[n])
  BY <1>1, GroupedAreParts
<1>3. SumOver(groups, DOMAIN groups) = get_statistics_sql(c.op, got)
  BY <1>2, GroupsSumUp
<1> QED BY <1>1, <1>3

(* Whatever the layers (crud_geoanalysis.py, aggregate by a layer): every  *)
(* area has the statistic of the features that meet it, each taken once    *)
(* however the tables are distributed.                                     *)
THEOREM AnyAggregationByLayerIsExact ==
  ASSUME NEW c, AggregationFits(c)
  PROVE  AggregationByLayerIsExact(c)
<1> DEFINE near == build_additional_spatial_filter(c.areas, c.source)
           of(a) == {x \in Pairs(c) : x[1].id = a.id}
           total(a) == IF of(a) = {} THEN Null ELSE Weighted(c, of(a))
           groups(a) == [g \in DOMAIN Grouped(of(a)) |-> Weighted(c, Grouped(of(a))[g])]
           row(a) == [area |-> a.id, total |-> total(a), groups |-> groups(a)]
           result == aggregate_by_layer(c)
<1>1. result = {row(a) : a \in near}
  BY Zenon DEF aggregate_by_layer
<1>2. near = {b \in c.areas.features : b.at \cap Extent(c.source) # {}}
  BY DEF build_additional_spatial_filter
<1>3. {r.area : r \in result} = {a.id : a \in near}
  <2>1. \A a : row(a).area = a.id
    OBVIOUS
  <2> HIDE DEF row, near, result
  <2> QED BY <1>1, <2>1
<1>4. ASSUME NEW r \in result, NEW a \in c.areas.features, r.area = a.id,
             \A e \in c.areas.edits : e.origin # a.id,
             \A x \in Once(a, c) : MeetInOneRow(c, a, x[2]),
             c.weighted => Cardinality(Once(a, c)) = 1 /\ \A x \in Once(a, c) : Uncut(x[2])
      PROVE  IF Once(a, c) = {} THEN r.total = Null
             ELSE r.total = Weighted(c, Once(a, c)) /\ (~c.weighted => SumsUp(c, r, Once(a, c)))
  <2>1. PICK b \in near : r = row(b)
    <3> HIDE DEF row, near, result
    <3> QED BY <1>1, <1>4
  <2>2. b = a /\ a \in near
    BY <1>2, <1>4, <2>1 DEF AggregationFits
  <2>3. of(a) = {CutTogether(c, x) : x \in Once(a, c)}
    <3> HIDE DEF of
    <3> QED BY <1>4, <2>2, MeetingIsOnce DEF of
  <2>4. Whole_feature(a)
    BY DEF AggregationFits, LayerFits
  <2>5. r.total = total(a) /\ r.groups = groups(a)
    <3> HIDE DEF total, groups
    <3> QED BY <2>1, <2>2
  <2>6. CASE Once(a, c) = {}
    <3>1. of(a) = {}
      BY ONLY <2>3, <2>6
    <3> QED BY <2>5, <2>6, <3>1
  <2>7. CASE Once(a, c) # {}
    <3>1. /\ Weighted(c, of(a)) = Weighted(c, Once(a, c))
          /\ of(a) # {} /\ IsFiniteSet(of(a)) /\ \A y \in of(a) : y[2].value \in Int
          /\ NamesDiffer(Once(a, c)) => NamesDiffer(of(a))
      <4> HIDE DEF of
      <4> QED BY <1>4, <2>3, <2>4, <2>7, TotalIsExact
    <3>2. r.total = Weighted(c, Once(a, c)) /\ r.total = Weighted(c, of(a))
      <4> HIDE DEF of
      <4> QED BY <2>5, <3>1
    <3>3. ASSUME ~c.weighted, c.op \in {"count", "sum"}, NamesDiffer(Once(a, c))
          PROVE  SumOver(r.groups, DOMAIN r.groups) = r.total
      <4> HIDE DEF of
      <4> QED BY <2>5, <3>1, <3>2, <3>3, LayerGroupsSumUp
    <3>4. ~c.weighted => SumsUp(c, r, Once(a, c))
      BY Zenon, <3>3 DEF SumsUp, SumOver
    <3> QED BY <2>7, <3>2, <3>4
  <2> QED BY <2>6, <2>7
<1> HIDE DEF result, near, row, total, groups, of
<1> QED BY <1>2, <1>3, <1>4 DEF AggregationByLayerIsExact, result

(* By the grid.  A sum of equal values is a multiple.                      *)
LEMMA SumOfEqual ==
  ASSUME NEW g, NEW S, IsFiniteSet(S), NEW k \in Int, \A x \in S : g[x] = k
  PROVE  SumOver(g, S) = k * Cardinality(S)
<1> DEFINE Good == {s \in SUBSET S : SumOver(g, s) = k * Cardinality(s)}
<1>1. ASSUME NEW s \in SUBSET S, \A t \in SUBSET s : t # s => t \in Good
      PROVE  s \in Good
  <2>1. CASE s = {}
    <3>1. SumOver(g, s) = 0 /\ Cardinality(s) = 0
      BY <2>1, SumOfNothing, FS_EmptySet
    <3> QED BY <3>1
  <2>2. CASE s # {}
    <3>1. Picked(s) \in s /\ Rest(s) \in Good /\ IsFiniteSet(s) /\ Rest(s) = s \ {Picked(s)}
      BY <1>1, <2>2, RestIsSmaller, FS_Subset DEF Rest
    <3>2. SumOver(g, s) = g[Picked(s)] + SumOver(g, Rest(s))
      BY <2>2, <3>1, SumPicks
    <3>3. Cardinality(Rest(s)) = Cardinality(s) - 1 /\ Cardinality(s) \in Nat
      BY <3>1, FS_RemoveElement, FS_CardinalityType
    <3>4. g[Picked(s)] = k /\ SumOver(g, Rest(s)) = k * Cardinality(Rest(s))
      BY <3>1
    <3>5. \A n \in Nat : k + k * (n - 1) = k * n
      OBVIOUS
    <3>6. SumOver(g, s) = k * Cardinality(s)
      BY ONLY <3>2, <3>3, <3>4, <3>5
    <3> QED BY <3>6
  <2> QED BY <2>1, <2>2
<1>2. \A s \in SUBSET S : s \in Good
  <2> HIDE DEF Good
  <2> QED BY <1>1, BySmaller
<1> QED BY <1>2

LEMMA WholeShare ==
  ASSUME NEW k \in Nat, NEW m \in Nat, m # 0, NEW n \in Nat
  PROVE  ((k * m) * n) \div m = k * n
<1>1. k * n \in Nat /\ (k * m) * n = (k * n) * m
  OBVIOUS
<1>2. \A q \in Nat : (q * m) \div m = q
  OBVIOUS
<1> QED BY <1>1, <1>2

Cover(h, fs) == MapThenSumSet(LAMBDA r : Share(r, Cell(h)), fs)

LEMMA CoverIsSum ==
  ASSUME NEW h, NEW S, IsFiniteSet(S)
  PROVE  Cover(h, S) = SumOver([r \in S |-> Share(r, Cell(h))], S)
<1> DEFINE g == [r \in S |-> Share(r, Cell(h))]
           it == CHOOSE sm : sm = [s \in SUBSET S |-> IF s = {} THEN 0 ELSE Share(Picked(s), Cell(h)) + sm[Rest(s)]]
<1>1. ASSUME NEW sm
      PROVE  Summing(g, S, sm) <=> sm = [s \in SUBSET S |-> IF s = {} THEN 0 ELSE Share(Picked(s), Cell(h)) + sm[Rest(s)]]
  <2>1. \A s \in SUBSET S : s # {} => g[Picked(s)] = Share(Picked(s), Cell(h))
    BY RestIsSmaller
  <2> HIDE DEF g
  <2> QED BY <2>1 DEF Summing
<1>2. Summing(g, S, it)
  <2> HIDE DEF g
  <2> QED BY <1>1, SummingExists
<1>3. Cover(h, S) = it[S]
  BY Zenon DEF Cover, MapThenSumSet, MapThenFoldSet, Picked, Rest
<1> HIDE DEF g, it
<1> QED BY <1>2, <1>3, SumOfSubset DEF g

(* The rows of a feature in a cell. *)
CutsAt(h, f) == UNION {{CutAt(f, p, n) : n \in Copies(PieceAround(f.at, p))} : p \in f.at \cap Cell(h).at}

LEMMA CutsAre ==
  ASSUME NEW h, NEW f, NEW y
  PROVE  y \in CutsAt(h, f)
           <=> \E p \in f.at \cap Cell(h).at : \E n \in Copies(PieceAround(f.at, p)) : y = CutAt(f, p, n)
BY DEF CutsAt

LEMMA PiecesCoverTheSame ==
  ASSUME NEW h, NEW f, Whole_feature(f), Undoubled(f), f.at \cap Cell(h).at # {}
  PROVE  Cover(h, CutsAt(h, f)) = Cover(h, {f}) /\ Cover(h, {f}) \in Int
<1> DEFINE S == f.at \cap Cell(h).at
           T == CutsAt(h, f)
           kind == [p \in S |-> CutAt(f, p, 1)]
           in(t) == {p \in S : kind[p] = t}
<1>1. Cell(h).at = {p \in DOMAIN HexOf : HexOf[p] = h}
  BY DEF Cell
<1>2. IsFiniteSet(Cell(h).at) /\ Cell(h).at # {} /\ IsFiniteSet(S)
  BY <1>1, UnitAssumption, FS_Subset DEF Whole_feature
<1>3. PICK k \in Nat : Unit = k * Cardinality(Cell(h).at)
  <2> DEFINE m == Cardinality(Cell(h).at)
  <2>1. m \in Nat /\ m # 0
    BY <1>2, FS_CardinalityType, FS_EmptySet
  <2>2. Unit \in Nat /\ Unit % m = 0
    BY <1>1, <1>2, UnitAssumption
  <2> HIDE DEF m
  <2>3. Unit = (Unit \div m) * m /\ Unit \div m \in Nat
    BY <2>1, <2>2
  <2> QED BY <2>3 DEF m
<1>4. ASSUME NEW r, IsFiniteSet(r.at) PROVE Share(r, Cell(h)) = k * Cardinality(r.at \cap Cell(h).at)
  <2>1. Cardinality(Cell(h).at) \in Nat /\ Cardinality(Cell(h).at) # 0
    BY <1>2, FS_CardinalityType, FS_EmptySet
  <2>2. Cardinality(r.at \cap Cell(h).at) \in Nat
    BY <1>4, FS_Subset, FS_CardinalityType
  <2>3. Share(r, Cell(h)) = ((k * Cardinality(Cell(h).at)) * Cardinality(r.at \cap Cell(h).at)) \div Cardinality(Cell(h).at)
    BY Zenon, <1>3 DEF Share
  <2> QED BY <2>1, <2>2, <2>3, WholeShare
<1>5. T = {kind[p] : p \in S} /\ IsFiniteSet(T)
  <2>1. ASSUME NEW p \in S PROVE Copies(PieceAround(f.at, p)) = {1}
    <3>1. PieceAround(f.at, p) \in Subdivided(f.at)
      BY PieceAroundIs DEF Whole_feature
    <3> QED BY <3>1, CopiesAre DEF Undoubled
  <2>2. \A y : y \in T <=> \E p \in S : \E n \in Copies(PieceAround(f.at, p)) : y = CutAt(f, p, n)
    BY CutsAre
  <2>3. \A y : y \in T <=> \E p \in S : y = CutAt(f, p, 1)
    <3> HIDE DEF S, T
    <3> QED BY <2>1, <2>2
  <2>4. T = {kind[p] : p \in S}
    <3> HIDE DEF T
    <3> QED BY <2>3
  <2>5. IsFiniteSet({kind[p] : p \in S})
    <3> HIDE DEF kind, S
    <3> QED BY <1>2, ImageIsFinite
  <2> QED BY <2>4, <2>5
<1>6. ASSUME NEW t \in T
      PROVE  t.at \cap Cell(h).at = in(t) /\ IsFiniteSet(t.at) /\ IsFiniteSet(in(t))
  <2>1. PICK p \in S : t = CutAt(f, p, 1)
    <3> HIDE DEF S, T
    <3> QED BY <1>5 DEF kind
  <2>2. t.at = PlacesAlong(f.at, p)
    BY <2>1, CutIsOfIt DEF Whole_feature
  <2>3. t.at \in SUBSET f.at /\ IsFiniteSet(t.at)
    <3>1. t.at \in SUBSET f.at
      BY <2>2, AlongAPlace DEF Whole_feature
    <3> QED BY <3>1, FS_Subset DEF Whole_feature
  <2>4. \A q \in t.at : CutAt(f, q, 1) = t
    BY <2>1, SamePiece
  <2>5. \A q \in S : CutAt(f, q, 1) = t => q \in t.at
    <3> SUFFICES ASSUME NEW q \in S, CutAt(f, q, 1) = t PROVE q \in t.at
      OBVIOUS
    <3>1. CutAt(f, q, 1).at = PlacesAlong(f.at, q)
      BY CutIsOfIt DEF Whole_feature
    <3>2. q \in PlacesAlong(f.at, q)
      BY AlongAPlace DEF Whole_feature
    <3> QED BY <3>1, <3>2
  <2>6. \A q : q \in in(t) <=> q \in S /\ CutAt(f, q, 1) = t
    OBVIOUS
  <2>7. IsFiniteSet(in(t))
    <3> HIDE DEF S
    <3> QED BY <1>2, FS_Subset
  <2>8. \A q : q \in S <=> q \in f.at /\ q \in Cell(h).at
    OBVIOUS
  <2> HIDE DEF S, T, in
  <2> QED BY <2>3, <2>4, <2>5, <2>6, <2>7, <2>8
<1> DEFINE portion == [t \in T |-> k * Cardinality(in(t))]
           shares == [r \in T |-> Share(r, Cell(h))]
           all == [p \in S |-> k]
<1>7. ASSUME NEW t \in T
      PROVE  shares[t] = portion[t] /\ portion[t] = SumOver(all, {p \in S : kind[p] = t})
  <2>1. portion[t] = k * Cardinality(in(t)) /\ shares[t] = Share(t, Cell(h))
    <3> HIDE DEF T, in
    <3> QED OBVIOUS
  <2>2. Share(t, Cell(h)) = k * Cardinality(in(t))
    <3>1. Share(t, Cell(h)) = k * Cardinality(t.at \cap Cell(h).at)
      BY <1>4, <1>6
    <3> HIDE DEF T, in
    <3> QED BY ONLY <1>6, <3>1
  <2>3. SumOver(all, in(t)) = k * Cardinality(in(t))
    <3>1. (\A p \in in(t) : all[p] = k) /\ IsFiniteSet(in(t)) /\ k \in Int
      BY <1>6
    <3> HIDE DEF T, in, all
    <3> QED BY <3>1, SumOfEqual
  <2>4. {p \in S : kind[p] = t} = in(t)
    OBVIOUS
  <2> HIDE DEF portion, shares, all, in, kind, T
  <2> QED BY ONLY <2>1, <2>2, <2>3, <2>4, Zenon
<1>8. SumOver(portion, T) = SumOver(all, S)
  <2>1. (\A p \in S : all[p] \in Int) /\ \A p \in S : kind[p] \in T
    BY <1>5
  <2> HIDE DEF portion, shares, all, in, kind, S, T
  <2>2. \A t \in T : portion[t] = SumOver(all, PartOf(S, kind, t))
    BY <1>7 DEF PartOf
  <2> QED BY ONLY <1>2, <1>5, <2>1, <2>2, SumOfParts
<1>9. shares = portion
  <2>1. \A t \in T : shares[t] = portion[t]
    <3> HIDE DEF portion, shares, T
    <3> QED BY <1>7
  <2> HIDE DEF in, T
  <2> QED BY <2>1
<1>10. SumOver(all, S) = k * Cardinality(S)
  <2>1. \A p \in S : all[p] = k
    OBVIOUS
  <2> HIDE DEF all, S
  <2> QED BY <1>2, <2>1, SumOfEqual
<1>13. Cover(h, T) = k * Cardinality(S)
  <2>1. Cover(h, T) = SumOver(shares, T)
    <3> HIDE DEF T
    <3> QED BY <1>5, CoverIsSum
  <2> HIDE DEF portion, shares, all, S, T
  <2> QED BY <1>8, <1>9, <1>10, <2>1
<1>14. Cover(h, {f}) = k * Cardinality(S)
  <2> DEFINE one == [r \in {f} |-> Share(r, Cell(h))]
  <2>1. Cover(h, {f}) = SumOver(one, {f})
    BY FS_Singleton, CoverIsSum
  <2>2. one[f] = k * Cardinality(S)
    BY <1>4 DEF Whole_feature
  <2>3. SumOver(one, {f}) = one[Picked({f})] + SumOver(one, Rest({f}))
    <3> HIDE DEF one
    <3> QED BY FS_Singleton, SumPicks
  <2>4. Picked({f}) = f /\ Rest({f}) = {} /\ SumOver(one, {}) = 0
    BY SumOfNothing DEF Picked, Rest
  <2>5. k * Cardinality(S) \in Int
    <3>1. Cardinality(S) \in Nat
      BY <1>2, FS_CardinalityType
    <3> HIDE DEF S
    <3> QED BY <3>1
  <2>6. \A n \in Int : n + 0 = n
    OBVIOUS
  <2>7. SumOver(one, {f}) = one[f] + 0
    BY <2>3, <2>4
  <2>8. one[f] + 0 = one[f]
    BY <2>2, <2>5, <2>6
  <2> HIDE DEF one, S
  <2> QED BY ONLY <2>1, <2>2, <2>7, <2>8, Zenon
<1>15. k * Cardinality(S) \in Int
  <2>1. Cardinality(S) \in Nat
    BY <1>2, FS_CardinalityType
  <2> HIDE DEF S
  <2> QED BY <2>1
<1> HIDE DEF S
<1> QED BY <1>13, <1>14, <1>15

GridFits(c) ==
  /\ LayerFits(c.source)
  /\ \A f, g \in Sources(c) : f.row = g.row => f = g
  /\ c.points => \A f \in Sources(c) : \A p, q \in f.at : p = q

LEMMA ValuedKeeps ==
  ASSUME NEW c, NEW h, NEW f, Feature(f), NEW fs
  PROVE  /\ Valued(c, h, f, fs).row = f.row
         /\ Valued(c, h, f, fs).group = GroupName(f)
         /\ Valued(c, h, f, fs).value = (IF c.op = "count" THEN 1 ELSE f.value)
                                          * (IF c.weighted THEN Cover(h, fs) ELSE 1)
<1>1. PICK r, i, a, g, v : f = [row |-> r, id |-> i, at |-> a, group |-> g, value |-> v]
  BY DEF Feature
<1>2. f.row = r /\ f.value = v
  BY <1>1
<1> DEFINE fields == [row |-> r, id |-> i, at |-> a, group |-> g, value |-> v]
           worth(w) == (IF c.op = "count" THEN 1 ELSE w) * (IF c.weighted THEN Cover(h, fs) ELSE 1)
<1>3. \A n, w : [fields EXCEPT !.group = n, !.value = w]
                  = [row |-> r, id |-> i, at |-> a, group |-> n, value |-> w]
  <2> SUFFICES ASSUME NEW n, NEW w
               PROVE  [fields EXCEPT !.group = n, !.value = w]
                        = [row |-> r, id |-> i, at |-> a, group |-> n, value |-> w]
    OBVIOUS
  <2> DEFINE named == [row |-> r, id |-> i, at |-> a, group |-> n, value |-> v]
  <2>1. [fields EXCEPT !.group = n, !.value = w] = [[fields EXCEPT !.group = n] EXCEPT !.value = w]
    <3> HIDE DEF fields
    <3> QED OBVIOUS
  <2>2. [fields EXCEPT !.group = n] = named
    OBVIOUS
  <2>3. [named EXCEPT !.value = w] = [row |-> r, id |-> i, at |-> a, group |-> n, value |-> w]
    OBVIOUS
  <2> HIDE DEF fields, named
  <2> QED BY Zenon, <2>1, <2>2, <2>3
<1>4. f = fields
  BY <1>1
<1>5. Valued(c, h, f, fs) = [f EXCEPT !.group = GroupName(f), !.value = worth(f.value)]
  BY Zenon DEF Valued, Cover
<1>6. Valued(c, h, f, fs) = [row |-> r, id |-> i, at |-> a, group |-> GroupName(f), value |-> worth(f.value)]
  <2> HIDE DEF fields, worth
  <2> QED BY Zenon, <1>3, <1>4, <1>5
<1> HIDE DEF worth
<1>7. /\ Valued(c, h, f, fs).row = f.row /\ Valued(c, h, f, fs).group = GroupName(f)
      /\ Valued(c, h, f, fs).value = worth(f.value)
  BY <1>2, <1>6
<1> QED BY <1>7 DEF worth

(* What the grid finds of a feature in a cell, and what is asked of it.    *)
RowsFound(c, h, f) == IF c.points THEN {f} ELSE CutsAt(h, f)

FoundIn(c, h, x) ==
  IF c.points THEN <<h, x[2]>>
  ELSE <<h, Valued(c, h, CHOOSE r \in CutsAt(h, x[2]) : TRUE, CutsAt(h, x[2]))>>

AskedOf(c, h, x) == IF c.points THEN x ELSE <<h, Valued(c, h, x[2], {x[2]})>>

LEMMA FoundIsAsked ==
  ASSUME NEW c, GridFits(c), NEW h, NEW x \in Once(Cell(h), c)
  PROVE  /\ AskedOf(c, h, x)[2].row = x[2].row
         /\ \E n : FoundIn(c, h, x)[2].row = IF c.points THEN x[2].row ELSE Numbered(x[2].row, n)
         /\ FoundIn(c, h, x)[2].group = AskedOf(c, h, x)[2].group
         /\ (c.weighted => Undoubled(x[2])) =>
              /\ FoundIn(c, h, x)[2].value = AskedOf(c, h, x)[2].value
              /\ FoundIn(c, h, x)[2].value \in Int
<1> DEFINE f == x[2]
           pieces == CutsAt(h, f)
           r == CHOOSE q \in pieces : TRUE
<1>1. f \in Sources(c) /\ f.at \cap Cell(h).at # {}
  BY OnceAre
<1>2. Whole_feature(f)
  BY <1>1, OverlaidFit DEF Sources, GridFits
<1>3. CASE c.points
  <2>1. FoundIn(c, h, x)[2] = f /\ AskedOf(c, h, x)[2] = f
    BY <1>3 DEF FoundIn, AskedOf
  <2> QED BY <1>2, <1>3, <2>1 DEF Whole_feature
<1>4. CASE ~c.points
  <2>1. r \in pieces
    <3>1. PICK p \in f.at \cap Cell(h).at : TRUE
      BY <1>1
    <3>2. CutAt(f, p, 1) \in pieces
      BY CopiesAre, CutsAre
    <3> HIDE DEF pieces
    <3> QED BY <3>2
  <2>2. PICK p, n : r = CutAt(f, p, n)
    <3> HIDE DEF r, f
    <3> QED BY <2>1, CutsAre
  <2>3. r.row = Numbered(f.row, n) /\ r.group = f.group /\ r.value = f.value /\ Feature(r) /\ Feature(f)
    <3> HIDE DEF r, f
    <3> QED BY <1>2, <2>2, CutIsOfIt DEF Whole_feature, Numbered
  <2>4. GroupName(r) = GroupName(f)
    <3> HIDE DEF r, f
    <3> QED BY Zenon, <2>3 DEF GroupName
  <2>5. FoundIn(c, h, x)[2] = Valued(c, h, r, pieces) /\ AskedOf(c, h, x)[2] = Valued(c, h, f, {f})
    BY <1>4 DEF FoundIn, AskedOf
  <2>6. c.weighted /\ Undoubled(f) => Cover(h, pieces) = Cover(h, {f}) /\ Cover(h, {f}) \in Int
    <3> HIDE DEF f
    <3> QED BY <1>1, <1>2, PiecesCoverTheSame
  <2>7. /\ Valued(c, h, r, pieces).row = r.row
        /\ Valued(c, h, r, pieces).group = GroupName(r)
        /\ Valued(c, h, r, pieces).value = (IF c.op = "count" THEN 1 ELSE r.value)
                                             * (IF c.weighted THEN Cover(h, pieces) ELSE 1)
    <3> HIDE DEF r, f, pieces
    <3> QED BY <2>3, ValuedKeeps
  <2>8. /\ Valued(c, h, f, {f}).row = f.row
        /\ Valued(c, h, f, {f}).group = GroupName(f)
        /\ Valued(c, h, f, {f}).value = (IF c.op = "count" THEN 1 ELSE f.value)
                                          * (IF c.weighted THEN Cover(h, {f}) ELSE 1)
    <3> HIDE DEF r, f, pieces
    <3> QED BY <2>3, ValuedKeeps
  <2>9. f.value \in Int
    BY <1>2 DEF Whole_feature
  <2> HIDE DEF r, f, pieces
  <2>10. (c.weighted => Undoubled(f)) => Valued(c, h, r, pieces).value = Valued(c, h, f, {f}).value
    BY <2>3, <2>6, <2>7, <2>8
  <2>11. (c.weighted => Undoubled(f)) => Valued(c, h, f, {f}).value \in Int
    BY <2>6, <2>8, <2>9
  <2> QED BY <1>4, <2>3, <2>4, <2>5, <2>7, <2>8, <2>10, <2>11 DEF f
<1> QED BY <1>3, <1>4

InTheGrid(c) == UNION {{<<HexOf[p], f>> : p \in f.at} : f \in temp_source(c, Sources(c))}

LEMMA SourceRowsAre ==
  ASSUME NEW c, GridFits(c), NEW y, NEW q
  PROVE  (y \in temp_source(c, Sources(c)) /\ q \in y.at)
           <=> \E f \in Sources(c) : /\ q \in f.at
                                    /\ IF c.points THEN y = f
                                       ELSE \E n \in Copies(PieceAround(f.at, q)) : y = CutAt(f, q, n)
<1>1. \A f \in Sources(c) : Whole_feature(f)
  BY OverlaidFit DEF Sources, GridFits
<1>2. CASE c.points
  <2>1. temp_source(c, Sources(c)) = Sources(c)
    BY <1>2 DEF temp_source
  <2> QED BY <1>2, <2>1
<1>3. CASE ~c.points
  <2>1. y \in temp_source(c, Sources(c))
          <=> \E f \in Sources(c) : \E p \in f.at : \E n \in Copies(PieceAround(f.at, p)) : y = CutAt(f, p, n)
    <3>1. temp_source(c, Sources(c)) = create_distributed_polygon_table(Sources(c))
      BY <1>3 DEF temp_source
    <3> QED BY <1>1, <3>1, DistributedAre
  <2>2. ASSUME NEW f \in Sources(c), NEW p \in f.at, NEW n \in Copies(PieceAround(f.at, p)), y = CutAt(f, p, n), q \in y.at
        PROVE  q \in f.at /\ n \in Copies(PieceAround(f.at, q)) /\ y = CutAt(f, q, n)
    BY <1>1, <2>2, SamePiece
  <2>3. ASSUME NEW f \in Sources(c), q \in f.at, NEW n, y = CutAt(f, q, n) PROVE q \in y.at
    <3>1. y.at = PlacesAlong(f.at, q)
      BY <1>1, <2>3, CutIsOfIt DEF Whole_feature
    <3> QED BY <1>1, <2>3, <3>1, AlongAPlace DEF Whole_feature
  <2>4. ASSUME y \in temp_source(c, Sources(c)), q \in y.at
        PROVE  \E f \in Sources(c) : q \in f.at /\ \E n \in Copies(PieceAround(f.at, q)) : y = CutAt(f, q, n)
    BY <2>1, <2>2, <2>4
  <2>5. ASSUME NEW f \in Sources(c), q \in f.at, NEW n \in Copies(PieceAround(f.at, q)), y = CutAt(f, q, n)
        PROVE  y \in temp_source(c, Sources(c)) /\ q \in y.at
    BY <2>1, <2>3, <2>5
  <2> QED BY <1>3, <2>4, <2>5
<1> QED BY <1>2, <1>3

LEMMA MetAre ==
  ASSUME NEW c, GridFits(c), NEW h, NEW y
  PROVE  <<h, y>> \in InTheGrid(c) <=> \E x \in Once(Cell(h), c) : y \in RowsFound(c, h, x[2])
<1>1. \A f \in Sources(c) : f.at \in SUBSET DOMAIN HexOf
  BY OverlaidFit DEF Sources, GridFits, Whole_feature
<1>2. \A q : q \in Cell(h).at <=> q \in DOMAIN HexOf /\ HexOf[q] = h
  BY DEF Cell
<1>3. ASSUME <<h, y>> \in InTheGrid(c) PROVE \E x \in Once(Cell(h), c) : y \in RowsFound(c, h, x[2])
  <2>1. PICK g \in temp_source(c, Sources(c)) : <<h, y>> \in {<<HexOf[q], g>> : q \in g.at}
    BY <1>3 DEF InTheGrid
  <2>2. PICK q \in g.at : h = HexOf[q] /\ y = g
    BY <2>1
  <2>3. PICK f \in Sources(c) : /\ q \in f.at
                               /\ IF c.points THEN y = f
                                  ELSE \E n \in Copies(PieceAround(f.at, q)) : y = CutAt(f, q, n)
    BY <2>2, SourceRowsAre
  <2>4. q \in f.at \cap Cell(h).at
    BY <1>1, <1>2, <2>2, <2>3
  <2>5. y \in RowsFound(c, h, f)
    BY <2>3, <2>4, CutsAre DEF RowsFound
  <2>6. <<Cell(h), f>> \in Once(Cell(h), c) /\ <<Cell(h), f>>[2] = f
    BY <2>4 DEF Once
  <2> QED BY <2>5, <2>6
<1>4. ASSUME NEW x \in Once(Cell(h), c), y \in RowsFound(c, h, x[2]) PROVE <<h, y>> \in InTheGrid(c)
  <2> DEFINE f == x[2]
  <2>1. f \in Sources(c) /\ f.at \cap Cell(h).at # {}
    BY OnceAre
  <2> HIDE DEF f
  <2>2. PICK q \in f.at \cap Cell(h).at :
          IF c.points THEN y = f ELSE \E n \in Copies(PieceAround(f.at, q)) : y = CutAt(f, q, n)
    BY <1>4, <2>1, CutsAre DEF RowsFound, f
  <2>3. y \in temp_source(c, Sources(c)) /\ q \in y.at
    BY <2>1, <2>2, SourceRowsAre
  <2>4. HexOf[q] = h
    BY <1>2, <2>2
  <2> QED BY <2>3, <2>4 DEF InTheGrid
<1> QED BY <1>3, <1>4

LEMMA MetArePairs ==
  ASSUME NEW c, NEW x \in InTheGrid(c)
  PROVE  x = <<x[1], x[2]>>
<1>1. PICK f \in temp_source(c, Sources(c)) : x \in {<<HexOf[p], f>> : p \in f.at}
  BY DEF InTheGrid
<1>2. PICK p \in f.at : x = <<HexOf[p], f>>
  BY <1>1
<1> QED BY <1>2

LEMMA GridPairsAre ==
  ASSUME NEW c, GridFits(c), NEW h,
         \A x, y \in Once(Cell(h), c) : x[2].id = y[2].id => x = y
  PROVE  {x \in GridPairs(c) : x[1] = h} = {FoundIn(c, h, x) : x \in Once(Cell(h), c)}
<1> DEFINE K == Once(Cell(h), c)
           inside == InTheGrid(c)
           alike(x, y) == /\ x[1] = y[1] /\ x[2].id = y[2].id
                          /\ c.by_group => x[2].group = y[2].group
           same(x) == {y[2] : y \in {z \in inside : alike(x, z)}}
           made(x) == <<x[1], Valued(c, x[1], CHOOSE r \in same(x) : TRUE, same(x))>>
<1>1. GridPairs(c) = IF c.points THEN inside ELSE {made(x) : x \in inside}
  BY Zenon DEF GridPairs, InTheGrid, Sources
<1>2. ASSUME NEW y PROVE <<h, y>> \in inside <=> \E x \in K : y \in RowsFound(c, h, x[2])
  BY MetAre
<1>3. ASSUME NEW x \in K PROVE x[2] \in Sources(c) /\ RowsFound(c, h, x[2]) # {} /\ Whole_feature(x[2])
  <2>1. x[2] \in Sources(c) /\ x[2].at \cap Cell(h).at # {}
    BY OnceAre
  <2>2. RowsFound(c, h, x[2]) # {}
    <3>1. PICK p \in x[2].at \cap Cell(h).at : TRUE
      BY <2>1
    <3>2. CutAt(x[2], p, 1) \in CutsAt(h, x[2])
      BY CopiesAre, CutsAre
    <3> QED BY <3>2 DEF RowsFound
  <2>3. Whole_feature(x[2])
    BY <2>1, OverlaidFit DEF Sources, GridFits
  <2> QED BY <2>1, <2>2, <2>3
<1>4. CASE c.points
  <2>1. ASSUME NEW x \in K PROVE RowsFound(c, h, x[2]) = {x[2]}
    BY <1>4 DEF RowsFound
  <2>2. \A x \in K : FoundIn(c, h, x) = <<h, x[2]>>
    BY <1>4 DEF FoundIn
  <2>3. GridPairs(c) = inside
    BY <1>1, <1>4
  <2>4. ASSUME NEW x \in GridPairs(c), x[1] = h PROVE \E z \in K : x = FoundIn(c, h, z)
    <3>1. x = <<h, x[2]>>
      BY <2>3, <2>4, MetArePairs
    <3>2. PICK z \in K : x[2] \in RowsFound(c, h, z[2])
      <4> HIDE DEF K, inside
      <4> QED BY <1>2, <2>3, <2>4, <3>1
    <3> HIDE DEF K
    <3> QED BY <2>1, <2>2, <3>1, <3>2
  <2>5. ASSUME NEW z \in K PROVE FoundIn(c, h, z) \in GridPairs(c) /\ FoundIn(c, h, z)[1] = h
    <3>1. <<h, z[2]>> \in inside
      <4> HIDE DEF K, inside
      <4> QED BY <1>2, <2>1
    <3> HIDE DEF K, inside
    <3> QED BY <2>2, <2>3, <3>1
  <2>6. \A x \in GridPairs(c) : x[1] = h => x \in {FoundIn(c, h, z) : z \in K}
    <3> HIDE DEF K
    <3> QED BY <2>4
  <2>7. \A x \in {FoundIn(c, h, z) : z \in K} : x \in GridPairs(c) /\ x[1] = h
    <3> HIDE DEF K
    <3> QED BY <2>5
  <2> QED BY <2>6, <2>7
<1>5. CASE ~c.points
  <2>1. ASSUME NEW z \in K, NEW y \in RowsFound(c, h, z[2])
        PROVE  same(<<h, y>>) = RowsFound(c, h, z[2])
    <3>1. ASSUME NEW x \in K, NEW q \in RowsFound(c, h, x[2])
          PROVE  q.id = x[2].id /\ q.group = x[2].group
      <4>1. PICK p, n : q = CutAt(x[2], p, n)
        BY <1>5, <3>1, CutsAre DEF RowsFound
      <4> QED BY <1>3, <3>1, <4>1, CutIsOfIt DEF Whole_feature
    <3>2. ASSUME NEW q \in RowsFound(c, h, z[2]) PROVE q \in same(<<h, y>>)
      <4>1. <<h, q>> \in inside
        <5> HIDE DEF K, inside
        <5> QED BY <1>2
      <4>2. alike(<<h, y>>, <<h, q>>)
        BY <3>1
      <4> DEFINE w == <<h, q>>
      <4>3. w \in inside /\ alike(<<h, y>>, w) /\ w[2] = q
        BY <4>1, <4>2
      <4> HIDE DEF inside, alike, w
      <4> QED BY <4>3
    <3>3. ASSUME NEW q \in same(<<h, y>>) PROVE q \in RowsFound(c, h, z[2])
      <4>1. PICK w \in inside : alike(<<h, y>>, w) /\ w[2] = q
        <5> HIDE DEF inside, alike
        <5> QED BY <3>3
      <4>2. w[1] = h /\ q.id = y.id
        BY <4>1
      <4>3. w = <<h, q>>
        BY <4>1, <4>2, MetArePairs
      <4>4. PICK x \in K : q \in RowsFound(c, h, x[2])
        <5> HIDE DEF K, inside
        <5> QED BY <1>2, <4>1, <4>3
      <4>5. x[2].id = z[2].id
        <5> HIDE DEF K
        <5> QED BY <2>1, <3>1, <4>2, <4>4
      <4>6. x = z
        BY <4>5
      <4> QED BY <4>4, <4>6
    <3> HIDE DEF same
    <3> QED BY <3>2, <3>3
  <2>2. ASSUME NEW z \in K, NEW y \in RowsFound(c, h, z[2]) PROVE made(<<h, y>>) = FoundIn(c, h, z)
    <3>1. same(<<h, y>>) = RowsFound(c, h, z[2]) /\ <<h, y>>[1] = h
      BY <2>1, <2>2
    <3>2. made(<<h, y>>) = <<h, Valued(c, h, CHOOSE r \in RowsFound(c, h, z[2]) : TRUE, RowsFound(c, h, z[2]))>>
      <4> HIDE DEF same
      <4> QED BY Zenon, <3>1
    <3>3. RowsFound(c, h, z[2]) = CutsAt(h, z[2])
      BY <1>5 DEF RowsFound
    <3> HIDE DEF made
    <3> QED BY <1>5, <3>2, <3>3 DEF FoundIn
  <2>3. ASSUME NEW v \in GridPairs(c), v[1] = h PROVE \E z \in K : v = FoundIn(c, h, z)
    <3>1. PICK x \in inside : v = made(x)
      <4> HIDE DEF inside, made
      <4> QED BY <1>1, <1>5, <2>3
    <3>2. x[1] = h
      BY <2>3, <3>1
    <3>3. x = <<h, x[2]>>
      BY <3>2, MetArePairs
    <3>4. PICK z \in K : x[2] \in RowsFound(c, h, z[2])
      <4> HIDE DEF K, inside
      <4> QED BY <1>2, <3>1, <3>3
    <3>5. made(<<h, x[2]>>) = FoundIn(c, h, z)
      <4> HIDE DEF K, made
      <4> QED BY <2>2, <3>4
    <3> HIDE DEF K, inside, made
    <3> QED BY <3>1, <3>3, <3>5
  <2>4. ASSUME NEW z \in K PROVE FoundIn(c, h, z) \in GridPairs(c) /\ FoundIn(c, h, z)[1] = h
    <3>1. PICK y \in RowsFound(c, h, z[2]) : TRUE
      BY <1>3, <2>4
    <3>2. made(<<h, y>>) = FoundIn(c, h, z) /\ <<h, y>> \in inside
      <4> HIDE DEF K, inside, made
      <4> QED BY <1>2, <2>2, <3>1
    <3>3. FoundIn(c, h, z)[1] = h
      BY <1>5 DEF FoundIn
    <3> HIDE DEF K, inside, made
    <3> QED BY <1>1, <1>5, <3>2, <3>3
  <2>5. \A x \in GridPairs(c) : x[1] = h => x \in {FoundIn(c, h, z) : z \in K}
    <3> HIDE DEF K
    <3> QED BY <2>3
  <2>6. \A x \in {FoundIn(c, h, z) : z \in K} : x \in GridPairs(c) /\ x[1] = h
    <3> HIDE DEF K
    <3> QED BY <2>4
  <2> QED BY <2>5, <2>6
<1> QED BY <1>4, <1>5

LEMMA CellsAre ==
  ASSUME NEW c, GridFits(c)
  PROVE  {x[1] : x \in GridPairs(c)} = {HexOf[p] : p \in Covered(Sources(c))}
<1> DEFINE inside == InTheGrid(c)
           alike(x, y) == /\ x[1] = y[1] /\ x[2].id = y[2].id
                          /\ c.by_group => x[2].group = y[2].group
           same(x) == {y[2] : y \in {z \in inside : alike(x, z)}}
           made(x) == <<x[1], Valued(c, x[1], CHOOSE r \in same(x) : TRUE, same(x))>>
<1>1. GridPairs(c) = IF c.points THEN inside ELSE {made(x) : x \in inside}
  BY Zenon DEF GridPairs, InTheGrid, Sources
<1>2. {x[1] : x \in GridPairs(c)} = {x[1] : x \in inside}
  <2>1. CASE c.points
    BY <1>1, <2>1
  <2>2. CASE ~c.points
    <3>1. \A x : made(x)[1] = x[1]
      OBVIOUS
    <3> HIDE DEF made, inside
    <3> QED BY <1>1, <2>2, <3>1
  <2> QED BY <2>1, <2>2
<1>3. ASSUME NEW x \in inside PROVE \E p \in Covered(Sources(c)) : x[1] = HexOf[p]
  <2>1. PICK g \in temp_source(c, Sources(c)) : x \in {<<HexOf[p], g>> : p \in g.at}
    BY DEF InTheGrid
  <2>2. PICK p \in g.at : x = <<HexOf[p], g>>
    BY <2>1
  <2>3. PICK f \in Sources(c) : p \in f.at
    BY <2>1, <2>2, SourceRowsAre
  <2> QED BY <2>2, <2>3 DEF Covered
<1>4. ASSUME NEW p \in Covered(Sources(c)) PROVE \E x \in inside : x[1] = HexOf[p]
  <2>1. PICK f \in Sources(c) : p \in f.at
    BY DEF Covered
  <2>2. PICK g : g \in temp_source(c, Sources(c)) /\ p \in g.at
    <3>1. 1 \in Copies(PieceAround(f.at, p))
      BY CopiesAre
    <3>2. \/ f \in temp_source(c, Sources(c)) /\ p \in f.at
          \/ CutAt(f, p, 1) \in temp_source(c, Sources(c)) /\ p \in CutAt(f, p, 1).at
      BY <2>1, <3>1, SourceRowsAre
    <3> QED BY <3>2
  <2>3. <<HexOf[p], g>> \in inside /\ <<HexOf[p], g>>[1] = HexOf[p]
    BY <2>2 DEF InTheGrid
  <2> HIDE DEF inside
  <2> QED BY <2>3
<1> HIDE DEF inside
<1> QED BY <1>2, <1>3, <1>4

AllFound(c, h) == {FoundIn(c, h, x) : x \in Once(Cell(h), c)}

AllAsked(c, h) == {AskedOf(c, h, x) : x \in Once(Cell(h), c)}

LEMMA FoundSumsUp ==
  ASSUME NEW c, GridFits(c), NEW h, NEW op,
         c.weighted => \A x \in Once(Cell(h), c) : Undoubled(x[2])
  PROVE  /\ get_statistics_sql(op, AllFound(c, h)) = get_statistics_sql(op, AllAsked(c, h))
         /\ IsFiniteSet(AllFound(c, h)) /\ \A y \in AllFound(c, h) : y[2].value \in Int
         /\ NamesDiffer(AllAsked(c, h)) => NamesDiffer(AllFound(c, h))
<1> DEFINE of == AllFound(c, h)
           once == AllAsked(c, h)
           K == Once(Cell(h), c)
           F == [x \in K |-> FoundIn(c, h, x)]
           G == [x \in K |-> AskedOf(c, h, x)]
<1>1. IsFiniteSet(K) /\ of = {F[x] : x \in K} /\ once = {G[x] : x \in K}
  BY OnceIsFinite DEF GridFits, AllFound, AllAsked
<1> HIDE DEF of, once
<1>2. ASSUME NEW x \in K, NEW y \in K, F[x] = F[y] \/ G[x] = G[y] PROVE x = y
  <2>1. x = <<Cell(h), x[2]>> /\ y = <<Cell(h), y[2]>> /\ x[2] \in Sources(c) /\ y[2] \in Sources(c)
    BY OnceAre
  <2>2. F[x] = FoundIn(c, h, x) /\ F[y] = FoundIn(c, h, y) /\ G[x] = AskedOf(c, h, x) /\ G[y] = AskedOf(c, h, y)
    OBVIOUS
  <2>3. x[2].row = y[2].row
    <3>1. AskedOf(c, h, x)[2].row = x[2].row /\ AskedOf(c, h, y)[2].row = y[2].row
      BY FoundIsAsked
    <3>2. PICK m : FoundIn(c, h, x)[2].row = IF c.points THEN x[2].row ELSE Numbered(x[2].row, m)
      BY FoundIsAsked
    <3>3. PICK n : FoundIn(c, h, y)[2].row = IF c.points THEN y[2].row ELSE Numbered(y[2].row, n)
      BY FoundIsAsked
    <3>4. \A v, w : Numbered(v, m) = Numbered(w, n) => v = w
      BY DEF Numbered
    <3> HIDE DEF F, G
    <3> QED BY <1>2, <2>2, <3>1, <3>2, <3>3, <3>4
  <2>4. x[2] = y[2]
    BY <2>1, <2>3 DEF GridFits
  <2> QED BY <2>1, <2>4
<1>3. \A x \in K : F[x][2].value = G[x][2].value /\ F[x][2].value \in Int /\ F[x][2].group = G[x][2].group
  BY FoundIsAsked
<1>4. get_statistics_sql(op, {F[x] : x \in K}) = get_statistics_sql(op, {G[x] : x \in K})
  <2>1. (\A x, y \in K : F[x] = F[y] => x = y) /\ \A x, y \in K : G[x] = G[y] => x = y
    BY <1>2
  <2>2. \A x \in K : F[x][2].value = G[x][2].value /\ F[x][2].value \in Int
    BY <1>3
  <2> HIDE DEF F, G, K
  <2> QED BY ONLY <1>1, <2>1, <2>2, StatisticsAgree, SMTT(60)
<1>5. IsFiniteSet({F[x] : x \in K})
  <2> HIDE DEF F, K
  <2> QED BY <1>1, ImageIsFinite
<1>6. NamesDiffer(once) => NamesDiffer(of)
  <2> SUFFICES ASSUME NamesDiffer(once), NEW v \in of, NEW w \in of, GroupName(v[2]) = GroupName(w[2])
               PROVE  v[2].group = w[2].group
    BY DEF NamesDiffer
  <2> HIDE DEF F, G, K
  <2>1. PICK x \in K : v = F[x]
    BY <1>1
  <2>2. PICK y \in K : w = F[y]
    BY <1>1
  <2>3. v[2].group = G[x][2].group /\ w[2].group = G[y][2].group /\ G[x] \in once /\ G[y] \in once
    BY <1>1, <1>3, <2>1, <2>2
  <2>4. GroupName(v[2]) = GroupName(G[x][2]) /\ GroupName(w[2]) = GroupName(G[y][2])
    BY Zenon, <2>3 DEF GroupName
  <2>5. \A b, d \in once : GroupName(b[2]) = GroupName(d[2]) => b[2].group = d[2].group
    BY Zenon DEF NamesDiffer
  <2>6. G[x][2].group = G[y][2].group
    <3>1. GroupName(G[x][2]) = GroupName(G[y][2])
      BY <2>4
    <3> QED BY <2>3, <2>5, <3>1
  <2> QED BY <2>3, <2>6
<1>7. /\ get_statistics_sql(op, of) = get_statistics_sql(op, once)
      /\ IsFiniteSet(of) /\ \A y \in of : y[2].value \in Int
  <2> HIDE DEF F, G, K
  <2> QED BY <1>1, <1>3, <1>4, <1>5
<1> QED BY <1>6, <1>7 DEF of, once

(* Whatever the layer (crud_geoanalysis.py, aggregate by the grid): every  *)
(* cell has the statistic of the features in it, a polygon once however it *)
(* is cut.                                                                 *)
THEOREM AnyAggregationByGridIsExact ==
  ASSUME NEW c, GridFits(c)
  PROVE  AggregationByGridIsExact(c)
<1> DEFINE pairs == GridPairs(c)
           op == GridOp(c)
           of(h) == {x \in pairs : x[1] = h}
           grouped(h) == IF c.by_group THEN Grouped(of(h)) ELSE <<>>
           groups(h) == [g \in DOMAIN grouped(h) |-> get_statistics_sql(op, grouped(h)[g])]
           row(h) == [area |-> h, total |-> get_statistics_sql(op, of(h)), groups |-> groups(h)]
           result == aggregate_by_grid(c)
           once(h) == {IF c.points THEN x ELSE <<h, Valued(c, h, x[2], {x[2]})>> : x \in Once(Cell(h), c)}
<1>1. result = {row(h) : h \in {x[1] : x \in pairs}}
  BY Zenon DEF aggregate_by_grid
<1>2. {r.area : r \in result} = {HexOf[p] : p \in Covered(Sources(c))}
  <2>1. \A h : row(h).area = h
    OBVIOUS
  <2>2. {r.area : r \in result} = {x[1] : x \in pairs}
    <3> HIDE DEF row, result, pairs
    <3>1. {r.area : r \in result} = {row(x[1]).area : x \in pairs}
      BY <1>1
    <3> QED BY <2>1, <3>1
  <2> HIDE DEF result
  <2> QED BY <2>2, CellsAre
<1>3. ASSUME NEW r \in result, \A x, y \in Once(Cell(r.area), c) : x[2].id = y[2].id => x = y,
             c.weighted => \A x \in Once(Cell(r.area), c) : Undoubled(x[2])
      PROVE  /\ r.total = get_statistics_sql(op, once(r.area))
             /\ c.by_group => SumsUp(c, r, once(r.area))
  <2>1. PICK h : r = row(h)
    <3> HIDE DEF row, result
    <3> QED BY <1>1, <1>3
  <2>2. r.area = h /\ r.total = get_statistics_sql(op, of(h)) /\ r.groups = groups(h)
    <3> HIDE DEF groups, of, op
    <3> QED BY <2>1
  <2>3. of(h) = AllFound(c, h)
    <3> HIDE DEF of
    <3> QED BY <1>3, <2>2, GridPairsAre DEF of, AllFound
  <2>4. once(h) = AllAsked(c, h)
    BY DEF AskedOf, AllAsked
  <2>5. /\ get_statistics_sql(op, of(h)) = get_statistics_sql(op, once(h))
        /\ IsFiniteSet(of(h)) /\ \A y \in of(h) : y[2].value \in Int
        /\ NamesDiffer(once(h)) => NamesDiffer(of(h))
    <3> HIDE DEF of, once, op
    <3>1. /\ get_statistics_sql(op, AllFound(c, h)) = get_statistics_sql(op, AllAsked(c, h))
          /\ IsFiniteSet(AllFound(c, h)) /\ \A y \in AllFound(c, h) : y[2].value \in Int
          /\ NamesDiffer(AllAsked(c, h)) => NamesDiffer(AllFound(c, h))
      <4>1. c.weighted => \A x \in Once(Cell(h), c) : Undoubled(x[2])
        BY <1>3, <2>2
      <4> QED BY <4>1, FoundSumsUp
    <3> QED BY ONLY <2>3, <2>4, <3>1
  <2>6. ASSUME c.by_group, c.op \in {"count", "sum"}, NamesDiffer(once(h))
        PROVE  SumOver(r.groups, DOMAIN r.groups) = r.total
    <3>1. op \in {"count", "sum"}
      BY <2>6 DEF GridOp
    <3>2. groups(h) = [g \in DOMAIN Grouped(of(h)) |-> get_statistics_sql(op, Grouped(of(h))[g])]
      BY <2>6
    <3> HIDE DEF of, once, op, groups
    <3>3. SumOver(groups(h), DOMAIN groups(h)) = get_statistics_sql(op, of(h))
      BY <2>5, <2>6, <3>1, <3>2, GroupsSumUp
    <3> QED BY <2>2, <3>3
  <2>7. c.by_group => SumsUp(c, r, once(h))
    <3> HIDE DEF once
    <3> QED BY Zenon, <2>6 DEF SumsUp, SumOver
  <2> HIDE DEF of, once, op
  <2> QED BY <2>2, <2>5, <2>7
<1> HIDE DEF result, once
<1> QED BY Zenon, <1>2, <1>3 DEF AggregationByGridIsExact, result, once

-----------------------------------------------------------------------------
(* An edge cut at starting points.  What a segment adds to the nodes at a  *)
(* place, and to what a starting point is joined to.                       *)
Joined_to(segments, i) == {s.target : s \in {t \in Range(segments) : t.connector = i}}

Listed(s) == s \in Seq(Range(s))

LEMMA AppendedIsListed ==
  ASSUME NEW s, Listed(s), NEW x
  PROVE  Listed(Append(s, x)) /\ Range(Append(s, x)) = Range(s) \cup {x}
<1> DEFINE t == Append(s, x)
<1>1. Len(s) \in Nat /\ DOMAIN s = 1..Len(s)
  BY DEF Listed
<1>2. /\ Len(t) = Len(s) + 1 /\ DOMAIN t = 1..(Len(s) + 1)
      /\ \A i \in 1..Len(s) : t[i] = s[i]
      /\ t[Len(s) + 1] = x
  BY DEF Listed
<1>3. Range(t) = Range(s) \cup {x}
  <2>1. \A i \in DOMAIN t : t[i] \in Range(s) \cup {x}
    BY <1>1, <1>2 DEF Range
  <2>2. \A y \in Range(s) : \E i \in DOMAIN t : t[i] = y
    <3> TAKE y \in Range(s)
    <3>1. PICK i \in DOMAIN s : s[i] = y
      BY DEF Range
    <3>2. i \in DOMAIN t /\ t[i] = y
      BY <1>1, <1>2, <3>1
    <3> QED BY <3>2
  <2>3. Len(s) + 1 \in DOMAIN t
    BY <1>1, <1>2
  <2> HIDE DEF t
  <2> QED BY <1>2, <2>1, <2>2, <2>3 DEF Range
<1>4. t \in Seq(Range(s) \cup {x})
  BY DEF Listed
<1> QED BY <1>3, <1>4 DEF Listed

LEMMA StreetIs ==
  ASSUME NEW a, NEW b, NEW s, NEW t
  PROVE  /\ Street(a, b, s, t).connector = 0 /\ Street(a, b, s, t).from = a
         /\ Street(a, b, s, t).to = b
         /\ Street(a, b, s, t).source = s /\ Street(a, b, s, t).target = t
BY DEF Street

LEMMA ConnectorIs ==
  ASSUME NEW i, NEW t
  PROVE  Connector(i, t).connector = i /\ Connector(i, t).target = t
BY DEF Connector

LEMMA NodesAre ==
  ASSUME NEW segments, NEW p, NEW x
  PROVE  x \in NodesAt(segments, p) <=>
           \E s \in Range(segments) :
             s.connector = 0 /\ ((s.from = p /\ s.source = x) \/ (s.to = p /\ s.target = x))
BY DEF NodesAt

(* What more segments say, after a street or a connector. *)
HasStreet(out, a, b, s, t, more) ==
  /\ Listed(more)
  /\ NodesAt(more, a) = NodesAt(out, a) \cup {s}
  /\ NodesAt(more, b) = NodesAt(out, b) \cup {t}
  /\ \A p : p # a /\ p # b => NodesAt(more, p) = NodesAt(out, p)
  /\ \A i : i # 0 => Joined_to(more, i) = Joined_to(out, i)

HasConnector(out, i, t, more) ==
  /\ Listed(more)
  /\ \A p : NodesAt(more, p) = NodesAt(out, p)
  /\ Joined_to(more, i) = Joined_to(out, i) \cup {t}
  /\ \A k : k # i => Joined_to(more, k) = Joined_to(out, k)

LEMMA StreetAddsItsNodes ==
  ASSUME NEW out, Listed(out), NEW a, NEW b, NEW s, NEW t, a # b,
         NEW more, more = Append(out, Street(a, b, s, t))
  PROVE  HasStreet(out, a, b, s, t, more)
<1> DEFINE seg == Street(a, b, s, t)
<1>1. Listed(more) /\ Range(more) = Range(out) \cup {seg}
  BY AppendedIsListed
<1>2. /\ seg.connector = 0 /\ seg.from = a /\ seg.to = b
      /\ seg.source = s /\ seg.target = t
  BY StreetIs
<1> HIDE DEF seg
<1>3. \A p, x : x \in NodesAt(more, p) <=>
        x \in NodesAt(out, p) \/ (p = a /\ x = s) \/ (p = b /\ x = t)
  BY <1>1, <1>2, NodesAre
<1>4. \A i : i # 0 => Joined_to(more, i) = Joined_to(out, i)
  BY <1>1, <1>2 DEF Joined_to
<1>5. NodesAt(more, a) = NodesAt(out, a) \cup {s} /\ NodesAt(more, b) = NodesAt(out, b) \cup {t}
  BY ONLY <1>3, a # b
<1>6. ASSUME NEW p, p # a, p # b PROVE NodesAt(more, p) = NodesAt(out, p)
  <2>1. \A x : x \in NodesAt(more, p) <=> x \in NodesAt(out, p)
    BY ONLY <1>3, <1>6
  <2> QED BY ONLY <2>1
<1> QED BY <1>1, <1>4, <1>5, <1>6 DEF HasStreet

LEMMA ConnectorJoins ==
  ASSUME NEW out, Listed(out), NEW i, i # 0, NEW t,
         NEW more, more = Append(out, Connector(i, t))
  PROVE  HasConnector(out, i, t, more)
<1> DEFINE seg == Connector(i, t)
<1>1. Listed(more) /\ Range(more) = Range(out) \cup {seg}
  BY AppendedIsListed
<1>2. seg.connector = i /\ seg.target = t
  BY ConnectorIs
<1> HIDE DEF seg
<1>3. \A p, x : x \in NodesAt(more, p) <=> x \in NodesAt(out, p)
  BY <1>1, <1>2, NodesAre
<1>4. /\ Joined_to(more, i) = Joined_to(out, i) \cup {t}
      /\ \A k : k # i => Joined_to(more, k) = Joined_to(out, k)
  BY <1>1, <1>2 DEF Joined_to
<1>5. ASSUME NEW p PROVE NodesAt(more, p) = NodesAt(out, p)
  <2>1. \A x : x \in NodesAt(more, p) <=> x \in NodesAt(out, p)
    BY ONLY <1>3
  <2> QED BY ONLY <2>1
<1> QED BY <1>1, <1>4, <1>5 DEF HasConnector

(* What Emit and Junction do to what was written so far. *)
Written(acc) == acc = [out |-> acc.out, con |-> acc.con] /\ Listed(acc.out) /\ acc.con \in Nat \ {0}

LEMMA EmitIs ==
  ASSUME NEW acc, Written(acc), NEW seg
  PROVE  /\ Written(Emit(acc, seg)) /\ Emit(acc, seg).out = Append(acc.out, seg)
         /\ Emit(acc, seg).con = acc.con
         /\ Written(Junction(acc, seg)) /\ Junction(acc, seg).out = Append(acc.out, seg)
         /\ Junction(acc, seg).con = acc.con + 1
<1>1. Listed(Append(acc.out, seg))
  BY AppendedIsListed DEF Written
<1>2. PICK o, c : acc = [out |-> o, con |-> c]
  BY DEF Written
<1>3. acc.out = o /\ acc.con = c /\ c \in Nat \ {0}
  BY <1>2 DEF Written
<1>4. Emit(acc, seg) = [out |-> Append(o, seg), con |-> c]
  BY <1>2 DEF Emit
<1>5. Junction(acc, seg) = [out |-> Append(o, seg), con |-> c + 1]
  <2> DEFINE a == [acc EXCEPT !.out = Append(@, seg)]
  <2>1. a = [out |-> Append(o, seg), con |-> c]
    BY <1>2
  <2>2. Junction(acc, seg) = [a EXCEPT !.con = @ + 1]
    BY Zenon DEF Junction
  <2> HIDE DEF a
  <2>3. \A x : [[out |-> x, con |-> c] EXCEPT !.con = @ + 1] = [out |-> x, con |-> c + 1]
    OBVIOUS
  <2>4. [a EXCEPT !.con = @ + 1] = [out |-> Append(o, seg), con |-> c + 1]
    BY Zenon, <2>1, <2>3
  <2> QED BY <2>2, <2>4
<1>6. Emit(acc, seg).out = Append(o, seg) /\ Emit(acc, seg).con = c
  BY <1>4
<1>7. Junction(acc, seg).out = Append(o, seg) /\ Junction(acc, seg).con = c + 1
  BY <1>5
<1> QED BY <1>1, <1>3, <1>4, <1>5, <1>6, <1>7 DEF Written

LEMMA NodesDiffer ==
  /\ Source # Target
  /\ \A k \in Nat : Junct(k) # Source /\ Junct(k) # Target
  /\ \A k, n \in Nat : Junct(k) = Junct(n) => k = n
<1>1. /\ Source[1] = "source" /\ Target[1] = "target"
      /\ \A k : Junct(k)[1] = "junction" /\ Junct(k)[2] = k
  BY DEF Source, Target, Junct
<1>2. "source" # "target" /\ "junction" # "source" /\ "junction" # "target"
  OBVIOUS
<1> QED BY <1>1, <1>2

(* Starting cuts of an edge, in order along it. *)
AlongTheEdge(cuts) ==
  /\ cuts \in Seq(0..Whole) /\ cuts # <<>>
  /\ \A i, k \in DOMAIN cuts : i <= k => cuts[i] <= cuts[k]

Seen(cuts, i) == {cuts[j] : j \in 1..i}

(* The places that have nodes once the first i cuts are worked on. *)
Standing(cuts, i) == IF cuts[i] = 0 THEN {} ELSE Seen(cuts, i) \cup {0}

NodesNamed(cuts, i, con, node) ==
  /\ node[0] = Source /\ node[Whole] = Target
  /\ \A p \in Seen(cuts, i) \ {0, Whole} : \E k \in Nat : k < con /\ node[p] = Junct(k)
  /\ \A p, q \in Seen(cuts, i) \cup {0, Whole} : node[p] = node[q] => p = q
  /\ cuts[i] \notin {0, Whole} => node[cuts[i]] = Junct(con - 1)

NodesStand(cuts, i, out, node) ==
  \A p \in 0..Whole : NodesAt(out, p) = IF p \in Standing(cuts, i) THEN {node[p]} ELSE {}

PointsJoined(cuts, i, out, node) ==
  /\ \A j \in 1..(i - 1) : cuts[j + 1] = Whole \/ Joined_to(out, j) = {node[cuts[j]]}
  /\ \A j \in Nat : j >= i => Joined_to(out, j) = {}

(* What holds once the first i cuts are worked on. *)
Laid(cuts, i, acc, node) ==
  /\ Written(acc)
  /\ NodesNamed(cuts, i, acc.con, node)
  /\ NodesStand(cuts, i, acc.out, node)
  /\ PointsJoined(cuts, i, acc.out, node)

LEMMA WholeIsPositive == Whole \in Nat /\ Whole # 0
BY DEF Whole

LEMMA PlacesAre ==
  ASSUME NEW cuts, AlongTheEdge(cuts)
  PROVE  /\ Len(cuts) \in Nat \ {0} /\ DOMAIN cuts = 1..Len(cuts)
         /\ \A i \in 1..Len(cuts) : cuts[i] \in 0..Whole
<1>1. Len(cuts) \in Nat /\ DOMAIN cuts = 1..Len(cuts)
  BY DEF AlongTheEdge
<1>2. Len(cuts) # 0
  BY EmptySeq DEF AlongTheEdge
<1>3. cuts \in Seq(0..Whole)
  BY DEF AlongTheEdge
<1>4. \A i \in 1..Len(cuts) : cuts[i] \in 0..Whole
  BY <1>3, ElementOfSeq
<1> QED BY <1>1, <1>2, <1>4

LEMMA SeenMore ==
  ASSUME NEW cuts, AlongTheEdge(cuts), NEW i \in 2..Len(cuts)
  PROVE  /\ Seen(cuts, i) = Seen(cuts, i - 1) \cup {cuts[i]}
         /\ cuts[i - 1] \in Seen(cuts, i - 1)
         /\ Seen(cuts, i - 1) \subseteq 0..cuts[i - 1]
         /\ cuts[i - 1] \in 0..Whole /\ cuts[i] \in 0..Whole
         /\ cuts[i - 1] <= cuts[i]
<1>1. 1..i = 1..(i - 1) \cup {i} /\ i - 1 \in 1..(i - 1) /\ i \in Int
  BY PlacesAre
<1>2. Seen(cuts, i) = Seen(cuts, i - 1) \cup {cuts[i]}
  BY <1>1 DEF Seen
<1>3. cuts[i - 1] \in Seen(cuts, i - 1)
  BY <1>1 DEF Seen
<1>4. i - 1 \in 1..Len(cuts) /\ i \in 1..Len(cuts)
  BY PlacesAre
<1>5. cuts[i - 1] \in 0..Whole /\ cuts[i] \in 0..Whole
  BY <1>4, PlacesAre
<1>6. \A j \in 1..(i - 1) : cuts[j] \in 0..Whole /\ cuts[j] <= cuts[i - 1]
  <2> TAKE j \in 1..(i - 1)
  <2>1. j \in 1..Len(cuts) /\ j <= i - 1
    BY PlacesAre
  <2> QED BY <1>4, <2>1, PlacesAre DEF AlongTheEdge
<1>7. Seen(cuts, i - 1) \subseteq 0..cuts[i - 1]
  BY <1>5, <1>6, WholeIsPositive DEF Seen
<1>8. cuts[i - 1] <= cuts[i]
  <2>1. i - 1 <= i
    BY <1>1
  <2> QED BY <1>4, <2>1, PlacesAre DEF AlongTheEdge
<1> QED BY <1>2, <1>3, <1>5, <1>7, <1>8

LEMMA NothingLaid ==
  /\ Listed(<<>>) /\ (\A p : NodesAt(<<>>, p) = {}) /\ \A j : Joined_to(<<>>, j) = {}
<1>1. Range(<<>>) = {}
  BY DEF Range
<1>2. Listed(<<>>)
  BY DEF Listed
<1> QED BY <1>1, <1>2 DEF NodesAt, Joined_to

LEMMA FirstIsLaid ==
  ASSUME NEW cuts, AlongTheEdge(cuts)
  PROVE  \E node : Laid(cuts, 1, FirstSegment(cuts), node)
<1> DEFINE p1 == cuts[1]
           none == [out |-> <<>>, con |-> 1]
           node == [p \in 0..Whole |-> IF p = 0 THEN Source ELSE IF p = Whole THEN Target ELSE Junct(1)]
           acc == FirstSegment(cuts)
<1>1. p1 \in 0..Whole /\ Seen(cuts, 1) = {p1}
  <2>1. 1 \in 1..Len(cuts) /\ 1..1 = {1}
    BY PlacesAre
  <2> QED BY <2>1, PlacesAre DEF Seen
<1>2. Written(none) /\ none.out = <<>> /\ none.con = 1
  BY NothingLaid DEF Written
<1>3. /\ node[0] = Source /\ node[Whole] = Target
      /\ \A p \in 0..Whole : p \notin {0, Whole} => node[p] = Junct(1)
  BY WholeIsPositive
<1>4. \A p, q \in Seen(cuts, 1) \cup {0, Whole} : node[p] = node[q] => p = q
  <2>1. Junct(1) # Source /\ Junct(1) # Target
    BY NodesDiffer
  <2> HIDE DEF node
  <2> QED BY <1>1, <1>3, <2>1, NodesDiffer
<1>5. 0 \in 0..Whole /\ Whole \in 0..Whole /\ 0 # Whole
  BY WholeIsPositive
<1> HIDE DEF node
<1>6. CASE p1 = 0
  <2>1. acc = none
    BY <1>6 DEF FirstSegment
  <2>2. NodesNamed(cuts, 1, 1, node)
    BY <1>1, <1>3, <1>4, <1>6 DEF NodesNamed
  <2>3. NodesStand(cuts, 1, <<>>, node)
    BY <1>6, NothingLaid DEF NodesStand, Standing
  <2>4. PointsJoined(cuts, 1, <<>>, node)
    BY NothingLaid DEF PointsJoined
  <2>5. Laid(cuts, 1, none, node)
    <3> HIDE DEF none
    <3> QED BY <1>2, <2>2, <2>3, <2>4 DEF Laid
  <2> QED BY <2>1, <2>5
<1>7. CASE p1 # 0
  <2> DEFINE out == Append(<<>>, Street(0, p1, Source, node[p1]))
  <2>1. HasStreet(<<>>, 0, p1, Source, node[p1], out)
    <3>1. 0 # p1 /\ Listed(<<>>)
      BY <1>7, NothingLaid
    <3> HIDE DEF p1
    <3> QED BY <3>1, StreetAddsItsNodes
  <2>2. Written(acc) /\ acc.out = out /\ acc.con = IF p1 = Whole THEN 1 ELSE 2
    <3>1. CASE p1 = Whole
      <4>1. acc = Emit(none, Street(0, p1, Source, Target))
        BY <1>5, <3>1 DEF FirstSegment
      <4>2. node[p1] = Target
        BY <1>3, <3>1
      <4> HIDE DEF none, acc
      <4> QED BY <1>2, <3>1, <4>1, <4>2, EmitIs
    <3>2. CASE p1 # Whole
      <4>1. acc = Junction(none, Street(0, p1, Source, Junct(1)))
        BY <1>7, <3>2 DEF FirstSegment
      <4>2. node[p1] = Junct(1)
        BY <1>1, <1>3, <1>7, <3>2
      <4> HIDE DEF none, acc
      <4> QED BY <1>2, <3>2, <4>1, <4>2, EmitIs
    <3> QED BY <3>1, <3>2
  <2> HIDE DEF out, acc
  <2>3. NodesNamed(cuts, 1, acc.con, node)
    <3>1. p1 \notin {0, Whole} => acc.con = 2 /\ node[p1] = Junct(1) /\ 1 < 2 /\ 1 \in Nat /\ 2 - 1 = 1
      BY <1>1, <1>3, <2>2
    <3> QED BY <1>1, <1>3, <1>4, <3>1 DEF NodesNamed
  <2>4. NodesStand(cuts, 1, out, node)
    <3>1. Standing(cuts, 1) = {p1, 0}
      BY <1>1, <1>7 DEF Standing
    <3> QED BY <1>1, <1>3, <2>1, <3>1, NothingLaid DEF HasStreet, NodesStand
  <2>5. PointsJoined(cuts, 1, out, node)
    BY <2>1, NothingLaid DEF HasStreet, PointsJoined
  <2> QED BY <2>2, <2>3, <2>4, <2>5 DEF Laid, acc, out
<1> QED BY <1>6, <1>7

LEMMA LastHasItsNode ==
  ASSUME NEW cuts, NEW i, NEW con, NEW node, NodesNamed(cuts, i, con, node), cuts[i] # Whole
  PROVE  (IF cuts[i] = 0 THEN Source ELSE Junct(con - 1)) = node[cuts[i]]
BY DEF NodesNamed

(* A point at the place of the last one is joined to its node.             *)
LEMMA StaysLaid ==
  ASSUME NEW cuts, AlongTheEdge(cuts), NEW i \in 2..Len(cuts), cuts[i] = cuts[i - 1],
         NEW acc, NEW node, Laid(cuts, i - 1, acc, node),
         NEW more, Written(more), more.con = acc.con,
         HasConnector(acc.out, i - 1, node[cuts[i - 1]], more.out)
  PROVE  Laid(cuts, i, more, node)
<1>1. Seen(cuts, i) = Seen(cuts, i - 1) /\ Standing(cuts, i) = Standing(cuts, i - 1)
  <2>1. Seen(cuts, i) = Seen(cuts, i - 1) \cup {cuts[i]} /\ cuts[i - 1] \in Seen(cuts, i - 1)
    BY SeenMore
  <2>2. Seen(cuts, i) = Seen(cuts, i - 1)
    BY <2>1
  <2> QED BY <2>2 DEF Standing
<1>2. NodesNamed(cuts, i, more.con, node)
  BY <1>1 DEF Laid, NodesNamed
<1>3. NodesStand(cuts, i, more.out, node)
  BY <1>1 DEF Laid, NodesStand, HasConnector
<1>4. i \in Nat /\ i - 1 \in Nat /\ 1..(i - 1) = 1..((i - 1) - 1) \cup {i - 1}
  BY PlacesAre
<1>5. \A j \in 1..(i - 1) : cuts[j + 1] = Whole \/ Joined_to(more.out, j) = {node[cuts[j]]}
  <2>1. Joined_to(more.out, i - 1) = {node[cuts[i - 1]]}
    BY <1>4 DEF Laid, PointsJoined, HasConnector
  <2>2. ASSUME NEW j \in 1..((i - 1) - 1)
        PROVE  cuts[j + 1] = Whole \/ Joined_to(more.out, j) = {node[cuts[j]]}
    <3>1. j # i - 1
      BY <1>4
    <3>2. Joined_to(more.out, j) = Joined_to(acc.out, j)
      BY <3>1 DEF HasConnector
    <3> QED BY <3>2 DEF Laid, PointsJoined
  <2> QED BY <1>4, <2>1, <2>2
<1>6. ASSUME NEW j \in Nat, j >= i PROVE Joined_to(more.out, j) = {}
  <2>1. j # i - 1 /\ j >= i - 1
    BY <1>4, <1>6
  <2> QED BY <2>1 DEF Laid, PointsJoined, HasConnector
<1>7. PointsJoined(cuts, i, more.out, node)
  BY <1>5, <1>6 DEF PointsJoined
<1> QED BY <1>2, <1>3, <1>7 DEF Laid

(* A point further on: the street up to it ends in a node of its own.      *)
LEMMA MovesOn ==
  ASSUME NEW cuts, AlongTheEdge(cuts), NEW i \in 2..Len(cuts), cuts[i] # cuts[i - 1],
         NEW acc, NEW node, Laid(cuts, i - 1, acc, node), NEW more, Written(more), NEW target,
         \/ cuts[i] = Whole /\ target = Target /\ more.con = acc.con
         \/ cuts[i] # Whole /\ target = Junct(acc.con) /\ more.con = acc.con + 1,
         NEW to, cuts[i] = Whole \/ to = node[cuts[i - 1]],
         NEW half, HasConnector(acc.out, i - 1, to, half),
         HasStreet(half, cuts[i - 1], cuts[i], node[cuts[i - 1]], target, more.out)
  PROVE  Laid(cuts, i, more, [p \in 0..Whole |-> IF p = cuts[i] THEN target ELSE node[p]])
<1> DEFINE last == cuts[i - 1]
           here == cuts[i]
           named == [p \in 0..Whole |-> IF p = cuts[i] THEN target ELSE node[p]]
<1>1. /\ Seen(cuts, i) = Seen(cuts, i - 1) \cup {here} /\ last \in Seen(cuts, i - 1)
      /\ Seen(cuts, i - 1) \subseteq 0..last
      /\ last \in 0..Whole /\ here \in 0..Whole /\ last < here
  BY SeenMore
<1>2. /\ here # 0 /\ here \notin Seen(cuts, i - 1) /\ Seen(cuts, i - 1) \subseteq 0..Whole
      /\ 0 \in 0..Whole /\ Whole \in 0..Whole
  BY <1>1, WholeIsPositive
<1>3. named[here] = target /\ \A p \in 0..Whole : p # here => named[p] = node[p]
  BY <1>1
<1>4. /\ acc.con \in Nat /\ more.con \in Nat
      /\ NodesNamed(cuts, i - 1, acc.con, node) /\ NodesStand(cuts, i - 1, acc.out, node)
      /\ PointsJoined(cuts, i - 1, acc.out, node)
  BY DEF Laid, Written
<1> HIDE DEF named
<1>5. NodesNamed(cuts, i, more.con, named)
  <2>1. named[0] = Source /\ named[Whole] = Target
    BY <1>2, <1>3, <1>4 DEF NodesNamed
  <2>2. ASSUME NEW p \in Seen(cuts, i) \ {0, Whole}
        PROVE  \E k \in Nat : k < more.con /\ named[p] = Junct(k)
    <3>1. CASE p = here
      <4>1. named[p] = Junct(acc.con) /\ acc.con < more.con
        BY <1>3, <1>4, <2>2, <3>1
      <4> QED BY <1>4, <4>1
    <3>2. CASE p \in Seen(cuts, i - 1)
      <4>1. PICK k \in Nat : k < acc.con /\ node[p] = Junct(k)
        BY <1>4, <2>2, <3>2 DEF NodesNamed
      <4>2. named[p] = node[p]
        BY <1>2, <1>3, <3>2
      <4>3. k < more.con
        BY <1>4, <4>1
      <4> QED BY <4>1, <4>2, <4>3
    <3> QED BY <1>1, <3>1, <3>2
  <2>3. \A p, q \in Seen(cuts, i) \cup {0, Whole} : named[p] = named[q] => p = q
    <3>1. CASE here = Whole
      <4>1. \A p \in Seen(cuts, i) \cup {0, Whole} :
              named[p] = node[p] /\ p \in Seen(cuts, i - 1) \cup {0, Whole}
        BY <1>1, <1>2, <1>3, <1>4, <3>1 DEF NodesNamed
      <4> QED BY <1>4, <4>1 DEF NodesNamed
    <3>2. CASE here # Whole
      <4>1. ASSUME NEW q \in Seen(cuts, i - 1) \cup {0, Whole}
            PROVE  named[q] = node[q] /\ node[q] # Junct(acc.con)
        <5>1. named[q] = node[q]
          BY <1>2, <1>3, <3>2
        <5>2. CASE q \in {0, Whole}
          BY <1>4, <5>1, <5>2, NodesDiffer DEF NodesNamed
        <5>3. CASE q \in Seen(cuts, i - 1) \ {0, Whole}
          <6>1. PICK k \in Nat : k < acc.con /\ node[q] = Junct(k)
            BY <1>4, <5>3 DEF NodesNamed
          <6> QED BY <1>4, <5>1, <6>1, NodesDiffer
        <5> QED BY <5>2, <5>3
      <4>2. named[here] = Junct(acc.con)
        BY <1>3, <3>2
      <4>3. ASSUME NEW p \in Seen(cuts, i) \cup {0, Whole}, NEW q \in Seen(cuts, i) \cup {0, Whole},
                   named[p] = named[q]
            PROVE  p = q
        <5>1. CASE p = here \/ q = here
          BY <1>1, <4>1, <4>2, <4>3, <5>1
        <5>2. CASE p # here /\ q # here
          BY <1>1, <1>4, <4>1, <4>3, <5>2 DEF NodesNamed
        <5> QED BY <5>1, <5>2
      <4> QED BY <4>3
    <3> QED BY <3>1, <3>2
  <2>4. here \notin {0, Whole} => named[here] = Junct(more.con - 1)
    BY <1>3, <1>4
  <2> QED BY <2>1, <2>2, <2>3, <2>4 DEF NodesNamed
<1>6. NodesStand(cuts, i, more.out, named)
  <2>1. Standing(cuts, i) = Seen(cuts, i - 1) \cup {0, here}
    BY <1>1, <1>2 DEF Standing
  <2>2. ASSUME NEW p \in 0..Whole
        PROVE  NodesAt(more.out, p) = IF p \in Standing(cuts, i) THEN {named[p]} ELSE {}
    <3>1. NodesAt(half, p) = NodesAt(acc.out, p)
      BY DEF HasConnector
    <3>2. NodesAt(acc.out, p) = IF p \in Standing(cuts, i - 1) THEN {node[p]} ELSE {}
      BY <1>4 DEF NodesStand
    <3>3. CASE p = here
      <4>1. p \notin Standing(cuts, i - 1)
        BY <1>2, <3>3 DEF Standing
      <4> QED BY <1>3, <2>1, <3>1, <3>2, <3>3, <4>1 DEF HasStreet
    <3>4. CASE p = last
      <4>1. p \in Standing(cuts, i) /\ named[p] = node[p]
        BY <1>1, <1>3, <2>1, <3>4
      <4>2. NodesAt(more.out, p) = NodesAt(acc.out, p) \cup {node[p]}
        BY <3>1, <3>4 DEF HasStreet
      <4> QED BY <3>2, <4>1, <4>2
    <3>5. CASE p # here /\ p # last
      <4>1. NodesAt(more.out, p) = NodesAt(acc.out, p) /\ named[p] = node[p]
        BY <1>3, <3>1, <3>5 DEF HasStreet
      <4>2. p \in Standing(cuts, i) <=> p \in Standing(cuts, i - 1)
        <5>1. last = 0 => Seen(cuts, i - 1) \subseteq {0}
          BY <1>1
        <5> QED BY <2>1, <3>5, <5>1 DEF Standing
      <4> QED BY <3>2, <4>1, <4>2
    <3> QED BY <3>3, <3>4, <3>5
  <2> QED BY <2>2 DEF NodesStand
<1>7. PointsJoined(cuts, i, more.out, named)
  <2>1. i \in Nat /\ i - 1 \in Nat \ {0} /\ 1..(i - 1) = 1..((i - 1) - 1) \cup {i - 1}
    BY PlacesAre
  <2>2. \A j \in Nat \ {0} : Joined_to(more.out, j) = Joined_to(half, j)
    BY DEF HasStreet
  <2>3. cuts[i] = Whole \/ Joined_to(more.out, i - 1) = {named[last]}
    <3>1. Joined_to(acc.out, i - 1) = {}
      BY <1>4, <2>1 DEF PointsJoined
    <3>2. Joined_to(more.out, i - 1) = {to}
      BY <2>1, <2>2, <3>1 DEF HasConnector
    <3>3. named[last] = node[last]
      BY <1>1, <1>3
    <3> QED BY <3>2, <3>3
  <2>4. ASSUME NEW j \in 1..((i - 1) - 1)
        PROVE  cuts[j + 1] = Whole \/ Joined_to(more.out, j) = {named[cuts[j]]}
    <3>1. j \in Nat \ {0} /\ j # i - 1 /\ j \in 1..(i - 1)
      BY <2>1
    <3>2. Joined_to(more.out, j) = Joined_to(acc.out, j)
      BY <2>2, <3>1 DEF HasConnector
    <3>3. cuts[j] \in Seen(cuts, i - 1)
      BY <3>1 DEF Seen
    <3>4. named[cuts[j]] = node[cuts[j]]
      BY <1>2, <1>3, <3>3
    <3> QED BY <1>4, <3>2, <3>4 DEF PointsJoined
  <2>5. ASSUME NEW j \in Nat, j >= i PROVE Joined_to(more.out, j) = {}
    <3>1. j # i - 1 /\ j >= i - 1 /\ j \in Nat \ {0}
      BY <2>1, <2>5
    <3> QED BY <1>4, <2>2, <3>1 DEF PointsJoined, HasConnector
  <2>6. \A j \in 1..(i - 1) : cuts[j + 1] = Whole \/ Joined_to(more.out, j) = {named[cuts[j]]}
    <3>1. (i - 1) + 1 = i
      BY <2>1
    <3> QED BY <2>1, <2>3, <2>4, <3>1
  <2> QED BY <2>5, <2>6 DEF PointsJoined
<1> QED BY <1>5, <1>6, <1>7 DEF Laid, named

LEMMA NextIsLaid ==
  ASSUME NEW cuts, AlongTheEdge(cuts), NEW i \in 2..Len(cuts),
         NEW acc, NEW node, Laid(cuts, i - 1, acc, node)
  PROVE  \E named : Laid(cuts, i, NextSegments(cuts, acc, i), named)
<1> DEFINE last == cuts[i - 1]
           here == cuts[i]
           to == IF last = 0 THEN Source ELSE IF here = Whole THEN Target ELSE Junct(acc.con - 1)
           source == IF last = 0 THEN Source ELSE Junct(acc.con - 1)
           half == Emit(acc, Connector(i - 1, to))
           more == NextSegments(cuts, acc, i)
<1>1. /\ last \in 0..Whole /\ here \in 0..Whole /\ last <= here
      /\ Whole \in Nat /\ Whole # 0
  BY SeenMore, WholeIsPositive
<1>2. Written(acc) /\ NodesNamed(cuts, i - 1, acc.con, node) /\ i - 1 # 0
  BY DEF Laid
<1>3. Written(half) /\ half.con = acc.con /\ HasConnector(acc.out, i - 1, to, half.out)
  <2>1. Written(half) /\ half.con = acc.con /\ half.out = Append(acc.out, Connector(i - 1, to))
    <3> HIDE DEF to
    <3> QED BY <1>2, EmitIs
  <2>2. Listed(acc.out)
    BY <1>2 DEF Written
  <2> HIDE DEF half, to
  <2> QED BY <1>2, <2>1, <2>2, ConnectorJoins
<1>4. more = IF here = last THEN half
             ELSE IF here = Whole THEN Emit(half, Street(last, here, source, Target))
             ELSE Junction(half, Street(last, here, source, Junct(acc.con)))
  <2>1. more = IF here = last THEN half
               ELSE IF here = Whole THEN Emit(half, Street(last, Whole, source, Target))
               ELSE Junction(half, Street(last, here, source, Junct(acc.con)))
    BY Zenon DEF NextSegments
  <2> HIDE DEF more, half, source
  <2> QED BY <2>1
<1>5. last # Whole => source = node[last]
  BY <1>2, LastHasItsNode
<1>6. node[0] = Source /\ node[Whole] = Target
  BY <1>2 DEF NodesNamed
<1>7. here = last => to = node[last]
  BY <1>1, <1>5, <1>6
<1>8. here = Whole \/ to = node[last]
  BY <1>1, <1>5
<1>9. CASE here = last
  <2>1. more = half
    BY <1>4, <1>9
  <2>2. HasConnector(acc.out, i - 1, node[last], half.out)
    <3> HIDE DEF half, to
    <3> QED BY <1>3, <1>7, <1>9
  <2>3. Laid(cuts, i, half, node)
    <3> HIDE DEF half
    <3> QED BY <1>3, <1>9, <2>2, StaysLaid
  <2> HIDE DEF half, more
  <2> QED BY <2>1, <2>3 DEF more
<1>10. CASE here # last
  <2> DEFINE target == IF here = Whole THEN Target ELSE Junct(acc.con)
             named == [p \in 0..Whole |-> IF p = cuts[i] THEN target ELSE node[p]]
  <2>1. source = node[last]
    BY <1>1, <1>5, <1>10
  <2>2. Written(more) /\ more.out = Append(half.out, Street(last, here, source, target))
    <3>1. CASE here = Whole
      <4>1. more = Emit(half, Street(last, here, source, target))
        BY <1>4, <1>10, <3>1
      <4> HIDE DEF more, half, source, target
      <4> QED BY <1>3, <4>1, EmitIs
    <3>2. CASE here # Whole
      <4>1. more = Junction(half, Street(last, here, source, target))
        BY <1>4, <1>10, <3>2
      <4> HIDE DEF more, half, source, target
      <4> QED BY <1>3, <4>1, EmitIs
    <3> QED BY <3>1, <3>2
  <2>3. more.con = IF here = Whole THEN acc.con ELSE acc.con + 1
    <3>1. CASE here = Whole
      <4>1. more = Emit(half, Street(last, here, source, target))
        BY <1>4, <1>10, <3>1
      <4> HIDE DEF more, half, source, target
      <4> QED BY <1>3, <3>1, <4>1, EmitIs
    <3>2. CASE here # Whole
      <4>1. more = Junction(half, Street(last, here, source, target))
        BY <1>4, <1>10, <3>2
      <4> HIDE DEF more, half, source, target
      <4> QED BY <1>3, <3>2, <4>1, EmitIs
    <3> QED BY <3>1, <3>2
  <2>4. HasStreet(half.out, last, here, node[last], target, more.out)
    <3>1. Listed(half.out)
      <4> HIDE DEF half
      <4> QED BY <1>3 DEF Written
    <3> HIDE DEF more, half, source, target
    <3> QED BY <1>10, <2>1, <2>2, <3>1, StreetAddsItsNodes
  <2>5. \/ here = Whole /\ target = Target /\ more.con = acc.con
        \/ here # Whole /\ target = Junct(acc.con) /\ more.con = acc.con + 1
    <3> HIDE DEF more
    <3> QED BY <2>3
  <2>6. Laid(cuts, i, more, named)
    <3> HIDE DEF more, half, to, target
    <3> QED BY <1>3, <1>8, <1>10, <2>2, <2>4, <2>5, MovesOn
  <2> QED BY <2>6
<1> QED BY <1>9, <1>10

(* The loop over the points, as a function.                                *)
Following(cuts, m, upto) ==
  upto = [i \in 1..m |-> IF i = 1 THEN FirstSegment(cuts) ELSE NextSegments(cuts, upto[i - 1], i)]

LEMMA LoopExists ==
  ASSUME NEW cuts
  PROVE  \A m \in Nat \ {0} : \E upto : Following(cuts, m, upto)
<1> DEFINE Bad == {m \in Nat \ {0} : ~ \E upto : Following(cuts, m, upto)}
<1>1. SUFFICES ASSUME Bad # {} PROVE FALSE
  OBVIOUS
<1>2. PICK m \in Bad : \A n \in Bad : m <= n
  <2>1. Bad \in SUBSET Nat
    OBVIOUS
  <2> HIDE DEF Bad
  <2> QED BY <1>1, <2>1, LeastExists
<1>3. CASE m = 1
  <2> DEFINE f == [i \in 1..1 |-> FirstSegment(cuts)]
  <2>1. f = [i \in 1..1 |-> IF i = 1 THEN FirstSegment(cuts) ELSE NextSegments(cuts, f[i - 1], i)]
    OBVIOUS
  <2>2. Following(cuts, 1, f)
    BY <2>1 DEF Following
  <2> HIDE DEF f
  <2> QED BY <1>3, <2>2
<1>4. CASE m # 1
  <2>1. m - 1 \in Nat \ {0} /\ m \in Nat /\ m - 1 < m
    BY <1>4
  <2>2. m - 1 \notin Bad
    <3> HIDE DEF Bad
    <3> QED BY <1>2, <2>1
  <2>3. PICK f : Following(cuts, m - 1, f)
    BY <2>1, <2>2
  <2> DEFINE g == [i \in 1..m |-> IF i = m THEN NextSegments(cuts, f[m - 1], m) ELSE f[i]]
  <2>4. g[m - 1] = f[m - 1] /\ \A i \in 1..(m - 1) : g[i] = f[i]
    BY <2>1
  <2>5. \A i \in 1..(m - 1) : f[i] = IF i = 1 THEN FirstSegment(cuts) ELSE NextSegments(cuts, f[i - 1], i)
    BY <2>3, Zenon DEF Following
  <2>6. ASSUME NEW i \in 1..m
        PROVE  g[i] = IF i = 1 THEN FirstSegment(cuts) ELSE NextSegments(cuts, g[i - 1], i)
    <3>1. CASE i = m
      <4>1. g[i] = NextSegments(cuts, f[m - 1], m)
        BY <3>1
      <4> HIDE DEF g
      <4> QED BY <1>4, <2>4, <3>1, <4>1
    <3>2. CASE i # m
      <4>1. i \in 1..(m - 1) /\ (i # 1 => i - 1 \in 1..(m - 1))
        BY <2>1, <3>2
      <4>2. g[i] = f[i] /\ (i # 1 => g[i - 1] = f[i - 1])
        <5> HIDE DEF g
        <5> QED BY <2>4, <4>1
      <4>3. f[i] = IF i = 1 THEN FirstSegment(cuts) ELSE NextSegments(cuts, f[i - 1], i)
        BY <2>5, <4>1
      <4> HIDE DEF g
      <4> QED BY <4>2, <4>3
    <3> QED BY <3>1, <3>2
  <2>7. g = [i \in 1..m |-> IF i = 1 THEN FirstSegment(cuts) ELSE NextSegments(cuts, g[i - 1], i)]
    <3>1. g = [i \in 1..m |-> g[i]]
      OBVIOUS
    <3> HIDE DEF g
    <3> QED BY <2>6, <3>1
  <2>8. Following(cuts, m, g)
    <3> HIDE DEF g
    <3> QED BY <2>7, Zenon DEF Following
  <2> HIDE DEF g
  <2> QED BY <2>8
<1> QED BY <1>3, <1>4

LEMMA EveryTurnIsLaid ==
  ASSUME NEW cuts, AlongTheEdge(cuts), NEW upto, Following(cuts, Len(cuts), upto)
  PROVE  \A i \in 1..Len(cuts) : \E node : Laid(cuts, i, upto[i], node)
<1> DEFINE Bad == {i \in 1..Len(cuts) : ~ \E node : Laid(cuts, i, upto[i], node)}
<1>1. SUFFICES ASSUME Bad # {} PROVE FALSE
  OBVIOUS
<1>2. PICK i \in Bad : \A n \in Bad : i <= n
  <2>1. Bad \in SUBSET Nat
    BY PlacesAre
  <2> HIDE DEF Bad
  <2> QED BY <1>1, <2>1, LeastExists
<1>3. upto[i] = IF i = 1 THEN FirstSegment(cuts) ELSE NextSegments(cuts, upto[i - 1], i)
  <2>1. i \in 1..Len(cuts)
    OBVIOUS
  <2> QED BY <2>1, Zenon DEF Following
<1>4. CASE i = 1
  BY <1>3, <1>4, FirstIsLaid
<1>5. CASE i # 1
  <2>1. i \in 2..Len(cuts) /\ i - 1 \in 1..Len(cuts) /\ ~(i <= i - 1)
    BY <1>5, PlacesAre
  <2>2. i - 1 \notin Bad
    <3> HIDE DEF Bad
    <3> QED BY <1>2, <2>1
  <2>3. PICK node : Laid(cuts, i - 1, upto[i - 1], node)
    BY <2>1, <2>2
  <2>4. \E named : Laid(cuts, i, NextSegments(cuts, upto[i - 1], i), named)
    BY <2>1, <2>3, NextIsLaid
  <2> QED BY <1>3, <1>5, <2>4
<1> QED BY <1>4, <1>5

(* Once the rest of the edge is laid, every place has its one node.        *)
EndsLaid(cuts, node, segments) ==
  /\ \A p \in {0, Whole} \cup Range(cuts) : NodesAt(segments, p) = {node[p]}
  /\ \A j \in 1..Len(cuts) : \/ Joined_to(segments, j) = {node[cuts[j]]}
                             \/ j < Len(cuts) /\ cuts[j + 1] = Whole

LEMMA LastIsLaid ==
  ASSUME NEW cuts, AlongTheEdge(cuts), NEW acc, NEW node, Laid(cuts, Len(cuts), acc, node)
  PROVE  EndsLaid(cuts, node, LastSegments(cuts, acc).out)
<1> DEFINE n == Len(cuts)
           last == cuts[n]
           to == IF last = 0 THEN Source ELSE IF last = Whole THEN Target ELSE Junct(acc.con - 1)
           half == Emit(acc, Connector(n, to))
           source == IF last = 0 THEN Source ELSE Junct(acc.con - 1)
           segments == LastSegments(cuts, acc).out
<1>1. /\ n \in Nat \ {0} /\ n \in 1..n /\ last \in 0..Whole
      /\ Whole \in Nat /\ Whole # 0 /\ 0 \in 0..Whole /\ Whole \in 0..Whole
  BY PlacesAre, WholeIsPositive
<1>2. Range(cuts) = Seen(cuts, n) /\ last \in Seen(cuts, n) /\ Seen(cuts, n) \subseteq 0..last
  <2>1. Range(cuts) = Seen(cuts, n)
    BY PlacesAre DEF Seen, Range
  <2>2. \A j \in 1..n : cuts[j] \in 0..Whole /\ cuts[j] <= last
    <3> TAKE j \in 1..n
    <3>1. j <= n /\ j \in DOMAIN cuts /\ n \in DOMAIN cuts
      BY <1>1, PlacesAre
    <3> QED BY <3>1, PlacesAre DEF AlongTheEdge
  <2>3. \A j \in 1..n : cuts[j] \in 0..last
    BY <1>1, <2>2
  <2> QED BY <1>1, <2>1, <2>3 DEF Seen
<1>3. /\ Written(acc) /\ NodesNamed(cuts, n, acc.con, node) /\ NodesStand(cuts, n, acc.out, node)
      /\ PointsJoined(cuts, n, acc.out, node)
  BY DEF Laid
<1>4. Written(half) /\ HasConnector(acc.out, n, to, half.out)
  <2>1. Written(half) /\ half.out = Append(acc.out, Connector(n, to))
    <3> HIDE DEF to
    <3> QED BY <1>3, EmitIs
  <2>2. Listed(acc.out) /\ n # 0
    BY <1>1, <1>3 DEF Written
  <2> HIDE DEF half, to, n
  <2> QED BY <2>1, <2>2, ConnectorJoins
<1>5. LastSegments(cuts, acc) = IF last = Whole THEN half ELSE Emit(half, Street(last, Whole, source, Target))
  BY Zenon DEF LastSegments
<1>6. node[0] = Source /\ node[Whole] = Target /\ (last # Whole => source = node[last])
  BY <1>3, LastHasItsNode DEF NodesNamed
<1>7. to = node[last]
  BY <1>1, <1>6
<1>8. \A j \in Nat \ {0} : Joined_to(segments, j) = Joined_to(half.out, j)
  <2>1. CASE last = Whole
    BY <1>5, <2>1
  <2>2. CASE last # Whole
    <3>1. segments = Append(half.out, Street(last, Whole, source, Target))
      <4> HIDE DEF half, source
      <4> QED BY <1>4, <1>5, <2>2, EmitIs
    <3>2. HasStreet(half.out, last, Whole, source, Target, segments)
      <4>1. Listed(half.out)
        BY <1>4 DEF Written
      <4> HIDE DEF half, source, segments
      <4> QED BY <2>2, <3>1, <4>1, StreetAddsItsNodes
    <3> HIDE DEF half, source, segments
    <3> QED BY <3>2 DEF HasStreet
  <2> QED BY <2>1, <2>2
<1>9. ASSUME NEW p \in {0, Whole} \cup Range(cuts) PROVE NodesAt(segments, p) = {node[p]}
  <2>1. p \in 0..Whole
    BY <1>1, <1>2
  <2>2. NodesAt(half.out, p) = IF p \in Standing(cuts, n) THEN {node[p]} ELSE {}
    <3>1. NodesAt(half.out, p) = NodesAt(acc.out, p)
      <4> HIDE DEF half, to, n
      <4> QED BY <1>4 DEF HasConnector
    <3> QED BY <1>3, <2>1, <3>1 DEF NodesStand
  <2>3. CASE last = Whole
    <3>1. p \in Standing(cuts, n)
      BY <1>1, <1>2, <2>3 DEF Standing
    <3> HIDE DEF half
    <3> QED BY <1>5, <2>2, <2>3, <3>1
  <2>4. CASE last # Whole
    <3>1. HasStreet(half.out, last, Whole, node[last], Target, segments)
      <4>1. segments = Append(half.out, Street(last, Whole, source, Target))
        <5> HIDE DEF half, source
        <5> QED BY <1>4, <1>5, <2>4, EmitIs
      <4>2. Listed(half.out)
        BY <1>4 DEF Written
      <4>3. source = node[last]
        BY <1>6, <2>4
      <4> HIDE DEF half, source, segments
      <4> QED BY <2>4, <4>1, <4>2, <4>3, StreetAddsItsNodes
    <3> HIDE DEF half, segments
    <3>2. CASE p = Whole
      <4>1. p \notin Standing(cuts, n)
        BY <1>1, <1>2, <2>4, <3>2 DEF Standing
      <4> QED BY <1>6, <2>2, <3>1, <3>2, <4>1 DEF HasStreet
    <3>3. CASE p = last
      <4>1. NodesAt(segments, p) = NodesAt(half.out, p) \cup {node[p]}
        BY <3>1, <3>3 DEF HasStreet
      <4> QED BY <2>2, <4>1
    <3>4. CASE p # Whole /\ p # last
      <4>1. NodesAt(segments, p) = NodesAt(half.out, p)
        BY <3>1, <3>4 DEF HasStreet
      <4>2. last # 0
        BY <1>2, <3>4
      <4>3. p \in Standing(cuts, n)
        BY <1>2, <3>4, <4>2 DEF Standing
      <4> QED BY <2>2, <4>1, <4>3
    <3> QED BY <3>2, <3>3, <3>4
  <2> QED BY <2>3, <2>4
<1>10. ASSUME NEW j \in 1..n
       PROVE  Joined_to(segments, j) = {node[cuts[j]]} \/ (j < n /\ cuts[j + 1] = Whole)
  <2>1. j \in Nat \ {0}
    BY <1>1
  <2>2. Joined_to(segments, j) = Joined_to(half.out, j)
    <3> HIDE DEF half, segments
    <3> QED BY <1>8, <2>1
  <2>3. CASE j = n
    <3>1. Joined_to(half.out, j) = Joined_to(acc.out, j) \cup {to} /\ Joined_to(acc.out, j) = {}
      <4> HIDE DEF half, to
      <4> QED BY <1>1, <1>3, <1>4, <2>3 DEF HasConnector, PointsJoined
    <3> HIDE DEF half, segments, to
    <3> QED BY <1>7, <2>2, <2>3, <3>1
  <2>4. CASE j # n
    <3>1. j < n /\ j \in 1..(n - 1)
      BY <1>1, <2>4
    <3>2. Joined_to(half.out, j) = Joined_to(acc.out, j)
      <4> HIDE DEF half, to
      <4> QED BY <1>4, <2>4 DEF HasConnector
    <3> HIDE DEF half, segments, to
    <3> QED BY <1>3, <2>2, <3>1, <3>2 DEF PointsJoined
  <2> QED BY <2>3, <2>4
<1> HIDE DEF segments
<1> QED BY <1>9, <1>10 DEF segments, EndsLaid

(* Whatever the starting points (get_artificial_segments): the pieces of   *)
(* an edge follow one another from its source to its target, and a point   *)
(* is joined to the edge at its own place.                                 *)
THEOREM AnyCutEdgeFollows ==
  ASSUME NEW cuts, AlongTheEdge(cuts)
  PROVE  SegmentsFollow(cuts)
<1> DEFINE U == CHOOSE upto :
                  upto = [i \in 1..Len(cuts) |->
                            IF i = 1 THEN FirstSegment(cuts) ELSE NextSegments(cuts, upto[i - 1], i)]
           segments == get_artificial_segments(cuts)
<1>1. segments = LastSegments(cuts, U[Len(cuts)]).out
  BY DEF get_artificial_segments
<1>2. Len(cuts) \in Nat \ {0} /\ Len(cuts) \in 1..Len(cuts)
  BY PlacesAre
<1>3. Following(cuts, Len(cuts), U)
  <2>1. \E upto : Following(cuts, Len(cuts), upto)
    BY <1>2, LoopExists
  <2> QED BY <2>1, Zenon DEF Following
<1> HIDE DEF U
<1>4. PICK node : Laid(cuts, Len(cuts), U[Len(cuts)], node)
  BY <1>2, <1>3, EveryTurnIsLaid
<1> DEFINE places == {0, Whole} \cup Range(cuts)
<1>5. /\ \A p \in places : NodesAt(segments, p) = {node[p]}
      /\ \A j \in 1..Len(cuts) : \/ Joined_to(segments, j) = {node[cuts[j]]}
                                 \/ j < Len(cuts) /\ cuts[j + 1] = Whole
  <2>1. EndsLaid(cuts, node, segments)
    <3> HIDE DEF segments
    <3> QED BY <1>1, <1>4, LastIsLaid
  <2> HIDE DEF segments
  <2> QED BY <2>1 DEF EndsLaid
<1>6. node[0] = Source /\ node[Whole] = Target
  BY <1>4 DEF Laid, NodesNamed
<1>7. \A p, q \in places : node[p] = node[q] => p = q
  <2>1. Range(cuts) = Seen(cuts, Len(cuts))
    BY PlacesAre DEF Seen, Range
  <2> QED BY <1>4, <2>1 DEF Laid, NodesNamed
<1>8. \A x : Cardinality({x}) = 1
  BY FS_Singleton
<1>9. DOMAIN cuts = 1..Len(cuts) /\ \A j \in 1..Len(cuts) : cuts[j] \in places
  BY PlacesAre DEF Range
<1> HIDE DEF segments
<1>10. NodesAt(segments, 0) = {Source} /\ NodesAt(segments, Whole) = {Target}
  BY <1>5, <1>6
<1>11. \A p, q \in places : /\ Cardinality(NodesAt(segments, p)) = 1
                            /\ p # q => NodesAt(segments, p) # NodesAt(segments, q)
  BY <1>5, <1>7, <1>8
<1>12. \A i \in DOMAIN cuts : \/ Joined_to(segments, i) = NodesAt(segments, cuts[i])
                              \/ i < Len(cuts) /\ cuts[i + 1] = Whole
  BY <1>5, <1>9
<1> HIDE DEF places
<1> QED BY <1>10, <1>11, <1>12, Zenon DEF SegmentsFollow, Joined_to, segments, places

-----------------------------------------------------------------------------
(* Admission.  A tool's layer parameters, by tool.                         *)
LEMMA TypesOfCatchments ==
  ASSUME NEW r, r.tool \in Catchments
  PROVE  /\ DOMAIN input_layer_types(r) \subseteq {"layer_project_id"} \cup DOMAIN StreetNetworkTypes
         /\ r.tool \notin Aggregations /\ r.tool \notin HeatmapsOfOpportunities
<1>1. input_layer_types(r) = ICatchmentArea_layer_types(r)
  BY DEF input_layer_types, Catchments, Aggregations, HeatmapsOfOpportunities
<1>2. DOMAIN ICatchmentArea_layer_types(r) \subseteq {"layer_project_id"} \cup DOMAIN StreetNetworkTypes
  BY DEF ICatchmentArea_layer_types
<1> QED BY <1>1, <1>2 DEF Catchments, Aggregations, HeatmapsOfOpportunities

LEMMA StreetsAre == DOMAIN StreetNetworkTypes = {"edge_layer_project_id", "node_layer_project_id"}
BY DEF StreetNetworkTypes

LEMMA NoStreetsElsewhere ==
  ASSUME NEW r, r.tool \notin Catchments
  PROVE  DOMAIN input_layer_types(r) \cap DOMAIN StreetNetworkTypes = {}
<1>1. CASE r.tool \in Aggregations
  <2>1. input_layer_types(r) = IAggregation_layer_types(r)
    BY <1>1 DEF input_layer_types, Catchments, Aggregations, HeatmapsOfOpportunities
  <2>2. DOMAIN IAggregation_layer_types(r) \subseteq {"source_layer_project_id", "aggregation_layer_project_id"}
    BY DEF IAggregation_layer_types
  <2> QED BY <2>1, <2>2, StreetsAre
<1>2. CASE r.tool \in HeatmapsOfOpportunities
  <2>1. input_layer_types(r) = HeatmapLayerTypes
    BY <1>2 DEF input_layer_types, Catchments, Aggregations, HeatmapsOfOpportunities
  <2> QED BY <2>1, StreetsAre DEF HeatmapLayerTypes
<1>3. CASE r.tool = "join"
  <2>1. input_layer_types(r) = IJoin_layer_types
    BY <1>3 DEF input_layer_types, Catchments, Aggregations, HeatmapsOfOpportunities
  <2> QED BY <2>1, StreetsAre DEF IJoin_layer_types
<1>4. CASE r.tool = "origin_destination"
  <2>1. input_layer_types(r) = IOriginDestination_layer_types
    BY <1>4 DEF input_layer_types, Catchments, Aggregations, HeatmapsOfOpportunities
  <2> QED BY <2>1, StreetsAre DEF IOriginDestination_layer_types
<1>5. CASE r.tool = "buffer"
  <2>1. input_layer_types(r) = [p \in {"source_layer_project_id"} |-> AnyGeometry]
    BY <1>5 DEF input_layer_types, Catchments, Aggregations, HeatmapsOfOpportunities
  <2> QED BY <2>1, StreetsAre
<1>6. CASE r.tool \notin Aggregations \cup HeatmapsOfOpportunities \cup {"join", "origin_destination", "buffer"}
  <2>1. input_layer_types(r) = [p \in {"reference_area_layer_project_id"} |-> {"polygon"}]
    BY <1>6 DEF input_layer_types
  <2> QED BY <2>1, StreetsAre
<1> QED BY <1>1, <1>2, <1>3, <1>4, <1>5, <1>6

LEMMA TypesOfAggregations ==
  ASSUME NEW r, r.tool \in Aggregations, r.area_type = "feature"
  PROVE  DOMAIN input_layer_types(r) = {"source_layer_project_id", "aggregation_layer_project_id"}
<1>1. input_layer_types(r) = IAggregation_layer_types(r)
  BY DEF input_layer_types, Catchments, Aggregations, HeatmapsOfOpportunities
<1> QED BY <1>1 DEF IAggregation_layer_types

(* The layers a request names, and those the tool reads, which is the same *)
(* where it names no street network.                                       *)
LayerOf(r, given) == [p \in DOMAIN r.layers |-> given[r.layers[p]]]

ReadOf(r, given) == [p \in DOMAIN r.layers \ DOMAIN StreetNetworkTypes |-> given[r.layers[p]]]

LEMMA WithoutStreets ==
  ASSUME NEW r, NEW given, DOMAIN r.layers \cap DOMAIN StreetNetworkTypes = {}
  PROVE  ReadOf(r, given) = LayerOf(r, given)
<1>1. DOMAIN r.layers \ DOMAIN StreetNetworkTypes = DOMAIN r.layers
  OBVIOUS
<1> QED BY <1>1 DEF ReadOf, LayerOf

LEMMA FoundIs ==
  ASSUME NEW r, NEW given
  PROVE  get_layers_project(r, given) <=>
           /\ \A p \in DOMAIN r.layers :
                p \in DOMAIN input_layer_types(r) /\ get_internal(LayerOf(r, given)[p], input_layer_types(r)[p])
           /\ IF r.tool \in Aggregations /\ Names(r, "aggregation_layer_project_id")
              THEN check_max_feature_cnt_aggregation(r, Limited(r, LayerOf(r, given)))
              ELSE check_max_feature_cnt(r, Range(LayerOf(r, given)))
           /\ \A p \in DOMAIN Limited(r, LayerOf(r, given)) :
                Limited(r, LayerOf(r, given))[p].kind = "polygon" /\ r.tool \in DOMAIN MaxFeaturePolygonArea =>
                  check_reference_area_size(r, Limited(r, LayerOf(r, given))[p])
BY DEF get_layers_project, LayerOf

LEMMA ReadIs ==
  ASSUME NEW r, NEW given
  PROVE  ReadBy(r, given) =
           Range(Limited(r, ReadOf(r, given)))
             \cup (IF r.tool \in HeatmapsOfOpportunities THEN Opportunity_layers(r, given) ELSE {})
BY DEF ReadBy, ReadOf

LEMMA LimitedIs ==
  ASSUME NEW r, NEW layer, DOMAIN layer = DOMAIN r.layers
  PROVE  DOMAIN Limited(r, layer) = DOMAIN r.layers
BY DEF Limited

LEMMA NothingLimits ==
  ASSUME NEW r, NEW layer, ~(r.tool \in Aggregations /\ Names(r, "aggregation_layer_project_id"))
  PROVE  Limited(r, layer) = layer
BY TypesOfAggregations DEF Limited, Names

(* A request within the limits is not turned away for its layers.          *)
LEMMA LayersAreFound ==
  ASSUME NEW r, NEW given,
         DOMAIN r.layers \subseteq DOMAIN input_layer_types(r),
         DOMAIN r.layers \cap DOMAIN StreetNetworkTypes = {},
         \A p \in DOMAIN r.layers : given[r.layers[p]].kind \in input_layer_types(r)[p],
         \A l \in ReadBy(r, given) :
            /\ l.features # {}
            /\ Cardinality(l.features) <= MaxFeatureCnt[r.tool]
            /\ r.tool \in DOMAIN MaxFeaturePolygonArea =>
                 area_statistics(l) <= MaxFeaturePolygonArea[r.tool]
  PROVE  get_layers_project(r, given)
<1> DEFINE layer == LayerOf(r, given)
           limited == Limited(r, layer)
<1>1. DOMAIN layer = DOMAIN r.layers /\ \A p \in DOMAIN r.layers : layer[p] = given[r.layers[p]]
  BY DEF LayerOf
<1>2. DOMAIN limited = DOMAIN r.layers
  <2> HIDE DEF layer
  <2> QED BY <1>1, LimitedIs
<1>3. \A p \in DOMAIN limited : limited[p] \in ReadBy(r, given)
  <2>1. Range(limited) \subseteq ReadBy(r, given)
    BY ReadIs, WithoutStreets
  <2> HIDE DEF limited
  <2> QED BY <2>1 DEF Range
<1>4. \A p \in DOMAIN r.layers :
         p \in DOMAIN input_layer_types(r) /\ get_internal(layer[p], input_layer_types(r)[p])
  <2> HIDE DEF layer
  <2> QED BY <1>1 DEF get_internal
<1>5. IF r.tool \in Aggregations /\ Names(r, "aggregation_layer_project_id")
      THEN check_max_feature_cnt_aggregation(r, limited)
      ELSE check_max_feature_cnt(r, Range(layer))
  <2>1. check_max_feature_cnt_aggregation(r, limited)
    <3> HIDE DEF limited
    <3> QED BY <1>3 DEF check_max_feature_cnt_aggregation
  <2>2. ASSUME ~(r.tool \in Aggregations /\ Names(r, "aggregation_layer_project_id"))
        PROVE  check_max_feature_cnt(r, Range(layer))
    <3>1. limited = layer
      BY <2>2, NothingLimits
    <3>2. \A p \in DOMAIN layer : feature_cnt(layer[p]) = Cardinality(layer[p].features)
      <4> HIDE DEF layer, limited
      <4> QED BY <1>3, <3>1 DEF feature_cnt
    <3>3. \A p \in DOMAIN layer : Cardinality(layer[p].features) <= MaxFeatureCnt[r.tool]
      <4> HIDE DEF layer, limited
      <4> QED BY <1>3, <3>1
    <3> HIDE DEF layer, limited
    <3> QED BY <3>2, <3>3 DEF check_max_feature_cnt, Range
  <2> QED BY <2>1, <2>2
<1>6. \A p \in DOMAIN limited :
         limited[p].kind = "polygon" /\ r.tool \in DOMAIN MaxFeaturePolygonArea =>
           check_reference_area_size(r, limited[p])
  <2> HIDE DEF limited
  <2> QED BY <1>3 DEF check_reference_area_size
<1> QED BY <1>4, <1>5, <1>6, FoundIs

(* The reference area of the classes of public transport is the one layer  *)
(* they read.                                                              *)
LEMMA ReferenceIsRead ==
  ASSUME NEW r, NEW given, r.tool = "oev_gueteklasse",
         DOMAIN r.layers \subseteq DOMAIN input_layer_types(r), Names(r, "reference_area_layer_project_id")
  PROVE  ReadBy(r, given) = {given[r.layers["reference_area_layer_project_id"]]}
<1> DEFINE reads == ReadOf(r, given)
<1>1. r.tool \notin Catchments /\ r.tool \notin Aggregations /\ r.tool \notin HeatmapsOfOpportunities
  BY DEF Catchments, Aggregations, HeatmapsOfOpportunities
<1>2. input_layer_types(r) = [p \in {"reference_area_layer_project_id"} |-> {"polygon"}]
  BY <1>1 DEF input_layer_types
<1>3. DOMAIN r.layers = {"reference_area_layer_project_id"}
  BY <1>2 DEF Names
<1>4. /\ DOMAIN reads = {"reference_area_layer_project_id"}
      /\ reads["reference_area_layer_project_id"] = given[r.layers["reference_area_layer_project_id"]]
  BY <1>3, StreetsAre DEF ReadOf
<1>5. Limited(r, reads) = reads
  BY <1>1, NothingLimits
<1>6. ReadBy(r, given) = Range(reads)
  BY <1>1, <1>5, ReadIs
<1> HIDE DEF reads
<1> QED BY <1>4, <1>6 DEF Range

(* Whatever the request and the project (core/tool.py, get_layers_project, *)
(* fetch_opportunity_layers): accepted, with layers of the kinds its       *)
(* schema asks for and within the limits of its tool, it is served.        *)
THEOREM AnyRequestWithinLimitsIsServed ==
  ASSUME NEW r, NEW given
  PROVE  WithinLimitsIsServed(r, given)
<1> SUFFICES ASSUME Accepted(r),
                    DOMAIN r.layers \subseteq DOMAIN input_layer_types(r),
                    Names(r, "layer_project_id") => ~Names(r, "edge_layer_project_id"),
                    \A p \in DOMAIN r.layers : given[r.layers[p]].kind \in input_layer_types(r)[p],
                    r.tool \in HeatmapsOfOpportunities =>
                      \A l \in Opportunity_layers(r, given) :
                        l.kind \in input_layer_types(r)["opportunity_layer_project_id"],
                    \A l \in ReadBy(r, given) :
                      /\ l.features # {}
                      /\ Cardinality(l.features) <= MaxFeatureCnt[r.tool]
                      /\ r.tool \in DOMAIN MaxFeaturePolygonArea =>
                           area_statistics(l) <= MaxFeaturePolygonArea[r.tool]
                      /\ AlongTheNetwork(r) => WithinNetworkPart(r, l)
             PROVE  FindsItsLayers(r, given)
  BY DEF WithinLimitsIsServed
<1>1. ASSUME r.tool \in Catchments, ~Names(r, "layer_project_id")
      PROVE  FindsItsLayers(r, given)
  BY <1>1, TypesOfCatchments DEF FindsItsLayers
<1>2. ASSUME ~(r.tool \in Catchments /\ ~Names(r, "layer_project_id"))
      PROVE  get_layers_project(r, given)
  <2>1. CASE r.tool \in Catchments
    <3>1. Names(r, "layer_project_id") /\ ~Names(r, "edge_layer_project_id")
      BY <1>2, <2>1
    <3>2. r.tool # "catchment_area_pt" => ~Names(r, "node_layer_project_id")
      BY <2>1, <3>1 DEF Accepted, Catchments, ICatchmentAreaActiveMobility, ICatchmentAreaCar,
                        CatchmentAreaNearbyStationAccess, CatchmentAreaStreetNetwork
    <3>3. r.tool = "catchment_area_pt" => DOMAIN input_layer_types(r) = {"layer_project_id"}
      <4>1. input_layer_types(r) = ICatchmentArea_layer_types(r)
        BY <2>1 DEF input_layer_types, Catchments, Aggregations, HeatmapsOfOpportunities
      <4> QED BY <4>1 DEF ICatchmentArea_layer_types
    <3>4. DOMAIN r.layers \cap DOMAIN StreetNetworkTypes = {}
      BY <3>1, <3>2, <3>3, StreetsAre DEF Names
    <3> QED BY <3>4, LayersAreFound
  <2>2. CASE r.tool \notin Catchments
    <3>1. DOMAIN r.layers \cap DOMAIN StreetNetworkTypes = {}
      BY <2>2, NoStreetsElsewhere
    <3> QED BY <3>1, LayersAreFound
  <2> QED BY <2>1, <2>2
<1>3. CASE r.tool \in HeatmapsOfOpportunities
  <2>1. get_layers_project(r, given)
    BY <1>2, <1>3 DEF HeatmapsOfOpportunities, Catchments
  <2>2. \A l \in Opportunity_layers(r, given) : l \in ReadBy(r, given)
    BY <1>3, ReadIs
  <2>3. check_max_feature_cnt(r, Opportunity_layers(r, given))
    BY <2>2 DEF check_max_feature_cnt, feature_cnt
  <2> QED BY <1>3, <2>1, <2>3 DEF FindsItsLayers, fetch_opportunity_layers, get_internal
<1>4. CASE r.tool = "oev_gueteklasse"
  <2>1. get_layers_project(r, given) /\ Names(r, "reference_area_layer_project_id")
    BY <1>2, <1>4 DEF Catchments, Accepted, IOevGueteklasse
  <2>2. given[r.layers["reference_area_layer_project_id"]] \in ReadBy(r, given)
    BY <1>4, <2>1, ReferenceIsRead
  <2>3. get_layers_oev_gueteklasse(r, given)
    BY <2>1, <2>2 DEF get_layers_oev_gueteklasse
  <2> QED BY <1>4, <2>3 DEF FindsItsLayers, HeatmapsOfOpportunities
<1>5. CASE r.tool \notin HeatmapsOfOpportunities /\ r.tool # "oev_gueteklasse"
  BY <1>1, <1>2, <1>5 DEF FindsItsLayers
<1> QED BY <1>3, <1>4, <1>5

(* A layer of a project has finitely many features and edits.  The layers  *)
(* a request names are among those its schema has (a heatmap keeps its     *)
(* opportunities apart), and its coordinates are counted.                  *)
OfProject(l) ==
  /\ l = [kind |-> l.kind, features |-> l.features, hidden |-> l.hidden, edits |-> l.edits]
  /\ IsFiniteSet(l.features) /\ IsFiniteSet(l.hidden) /\ IsFiniteSet(l.edits)

RequestFits(r, given) ==
  /\ r.tool \in DOMAIN MaxFeatureCnt
  /\ r.tool \in HeatmapsOfOpportunities => DOMAIN r.layers \subseteq {"opportunity_geofence_layer_project_id"}
  /\ r.tool \in Catchments => /\ DOMAIN r.layers \subseteq {"layer_project_id"} \cup DOMAIN StreetNetworkTypes
                              /\ r.lat \in Nat /\ r.lon \in Nat
  /\ \A p \in DOMAIN r.layers : OfProject(given[r.layers[p]])
  /\ r.tool \in HeatmapsOfOpportunities => \A l \in Opportunity_layers(r, given) : OfProject(l)

(* The scenario adds its own features to those of the layer, no more.      *)
LEMMA OverlaidAreFew ==
  ASSUME NEW those, IsFiniteSet(those), NEW l, IsFiniteSet(l.edits)
  PROVE  /\ Cardinality(those) \in Nat /\ Added(l) \in Nat
         /\ Cardinality(Overlaid(those, l.edits)) \in Nat
         /\ Cardinality(Overlaid(those, l.edits)) <= Cardinality(those) + Added(l)
<1> DEFINE kept == {f \in those : \A e \in l.edits : e.origin # f.id}
           made == {d \in l.edits : d.edit \in {"n", "m"}}
           as == [e \in made |-> [e.feature EXCEPT !.id = e.origin]]
           T == {as[e] : e \in made}
<1>1. IsFiniteSet(kept) /\ Cardinality(kept) <= Cardinality(those)
  BY FS_Subset
<1>2. IsFiniteSet(made)
  BY FS_Subset
<1>3. Overlaid(those, l.edits) = kept \cup T
  BY DEF Overlaid
<1>4. Added(l) = Cardinality(made)
  BY DEF Added
<1>5. as \in Surjection(made, T)
  <2>1. as \in [made -> T]
    OBVIOUS
  <2> HIDE DEF as, made
  <2> QED BY <2>1 DEF Surjection
<1> HIDE DEF kept, made, as, T
<1>6. IsFiniteSet(T) /\ Cardinality(T) <= Cardinality(made)
  BY <1>2, <1>5, FS_Surjection
<1>7. IsFiniteSet(kept \cup T)
      /\ Cardinality(kept \cup T) = Cardinality(kept) + Cardinality(T) - Cardinality(kept \cap T)
  BY <1>1, <1>6, FS_Union
<1>8. IsFiniteSet(kept \cap T)
  BY <1>1, FS_Subset
<1>9. /\ Cardinality(kept) \in Nat /\ Cardinality(T) \in Nat /\ Cardinality(kept \cap T) \in Nat
      /\ Cardinality(kept \cup T) \in Nat /\ Cardinality(made) \in Nat /\ Cardinality(those) \in Nat
  BY <1>1, <1>2, <1>6, <1>7, <1>8, FS_CardinalityType
<1> QED BY <1>1, <1>3, <1>4, <1>6, <1>7, <1>9

LEMMA FewerAreFew ==
  ASSUME NEW r, r.tool \in DOMAIN MaxFeatureCnt, NEW l, IsFiniteSet(l.features), IsFiniteSet(l.edits),
         Cardinality(l.features) <= MaxFeatureCnt[r.tool]
  PROVE  Cardinality(Overlaid(l.features, l.edits)) <= MaxFeatureCnt[r.tool] + Added(l)
<1>1. MaxFeatureCnt[r.tool] \in Nat
  BY LimitsAssumption
<1> QED BY <1>1, OverlaidAreFew

(* None of a layer's features pass the filter: nothing counts but what the *)
(* scenario adds.                                                          *)
LEMMA CountedAreFew ==
  ASSUME NEW r, r.tool \in DOMAIN MaxFeatureCnt, NEW l, OfProject(l),
         feature_cnt(l) <= MaxFeatureCnt[r.tool]
  PROVE  Cardinality(Overlaid(l.features, l.edits)) <= MaxFeatureCnt[r.tool] + Added(l)
<1>1. MaxFeatureCnt[r.tool] \in Nat
  BY LimitsAssumption
<1>2. Cardinality(l.features) <= MaxFeatureCnt[r.tool]
  BY <1>1, FS_EmptySet DEF feature_cnt
<1> QED BY <1>2, FewerAreFew DEF OfProject

LEMMA NarrowedIs ==
  ASSUME NEW l, OfProject(l), NEW those
  PROVE  [l EXCEPT !.features = those].features = those /\ [l EXCEPT !.features = those].edits = l.edits
<1>1. \A k, f, h, e, u : [[kind |-> k, features |-> f, hidden |-> h, edits |-> e] EXCEPT !.features = u]
                           = [kind |-> k, features |-> u, hidden |-> h, edits |-> e]
  OBVIOUS
<1>2. PICK k, f, h, e : l = [kind |-> k, features |-> f, hidden |-> h, edits |-> e]
  BY DEF OfProject
<1> DEFINE fields == [kind |-> k, features |-> f, hidden |-> h, edits |-> e]
<1>3. [fields EXCEPT !.features = those] = [kind |-> k, features |-> those, hidden |-> h, edits |-> e]
  BY <1>1
<1>4. l = fields
  BY <1>2
<1>5. [l EXCEPT !.features = those] = [kind |-> k, features |-> those, hidden |-> h, edits |-> e]
  <2> HIDE DEF fields
  <2> QED BY Zenon, <1>3, <1>4
<1>6. l.edits = e
  BY <1>2
<1> QED BY <1>5, <1>6

(* What an admitted tool reads of the layers it finds. *)
LEMMA FoundAreFew ==
  ASSUME NEW r, NEW given, RequestFits(r, given), get_layers_project(r, given),
         NEW l \in Range(Limited(r, ReadOf(r, given)))
  PROVE  Cardinality(Overlaid(l.features, l.edits)) <= MaxFeatureCnt[r.tool] + Added(l)
<1> DEFINE layer == LayerOf(r, given)
           reads == ReadOf(r, given)
<1>1. /\ DOMAIN layer = DOMAIN r.layers
      /\ \A p \in DOMAIN r.layers : layer[p] = given[r.layers[p]] /\ OfProject(layer[p])
  BY DEF LayerOf, RequestFits
<1>2. DOMAIN reads \subseteq DOMAIN r.layers /\ \A p \in DOMAIN reads : reads[p] = layer[p]
  BY DEF LayerOf, ReadOf
<1>3. DOMAIN r.layers \subseteq DOMAIN input_layer_types(r)
  BY FoundIs
<1>4. r.tool \in DOMAIN MaxFeatureCnt
  BY DEF RequestFits
<1>5. CASE ~(r.tool \in Aggregations /\ Names(r, "aggregation_layer_project_id"))
  <2>1. Limited(r, reads) = reads
    BY <1>5, NothingLimits
  <2>2. check_max_feature_cnt(r, Range(layer))
    BY <1>5, FoundIs
  <2>3. PICK p \in DOMAIN reads : l = reads[p]
    BY <2>1 DEF Range
  <2> HIDE DEF layer, reads
  <2>4. l = layer[p] /\ p \in DOMAIN layer
    BY <1>1, <1>2, <2>3
  <2>5. feature_cnt(l) <= MaxFeatureCnt[r.tool]
    BY <2>2, <2>4 DEF check_max_feature_cnt, Range
  <2> QED BY <1>1, <1>4, <2>4, <2>5, CountedAreFew
<1>6. CASE r.tool \in Aggregations /\ Names(r, "aggregation_layer_project_id")
  <2>1. r.tool \notin Catchments
    BY <1>6 DEF Aggregations, Catchments
  <2>2. DOMAIN r.layers \cap DOMAIN StreetNetworkTypes = {}
    BY <1>3, <2>1, NoStreetsElsewhere
  <2>3. reads = layer
    BY <2>2, WithoutStreets
  <2>4. DOMAIN Limited(r, layer) = DOMAIN r.layers
    <3> HIDE DEF layer
    <3> QED BY <1>1, LimitedIs
  <2>5. check_max_feature_cnt_aggregation(r, Limited(r, layer))
    BY <1>6, FoundIs
  <2>6. PICK p \in DOMAIN r.layers : l = Limited(r, layer)[p]
    <3>1. l \in Range(Limited(r, layer))
      BY <2>3
    <3> HIDE DEF layer
    <3> QED BY <2>4, <3>1 DEF Range
  <2> HIDE DEF layer, reads
  <2>7. Cardinality(l.features) <= MaxFeatureCnt[r.tool]
    BY <2>4, <2>5, <2>6 DEF check_max_feature_cnt_aggregation
  <2>8. IsFiniteSet(l.features) /\ IsFiniteSet(l.edits)
    <3>1. CASE DOMAIN r.layers = DOMAIN input_layer_types(r) /\ r.area_type = "feature"
      <4> DEFINE those == build_additional_spatial_filter(layer[p], layer[Other(p)])
      <4>1. l = [layer[p] EXCEPT !.features = those]
        BY <1>6, <2>6, <3>1 DEF Limited
      <4>2. those \subseteq layer[p].features
        BY DEF build_additional_spatial_filter
      <4> HIDE DEF those
      <4>3. l.features = those /\ l.edits = layer[p].edits
        BY <1>1, <4>1, NarrowedIs
      <4> QED BY <1>1, <4>2, <4>3, FS_Subset DEF OfProject
    <3>2. CASE ~(DOMAIN r.layers = DOMAIN input_layer_types(r) /\ r.area_type = "feature")
      <4>1. l = layer[p]
        BY <2>6, <3>2 DEF Limited
      <4> QED BY <1>1, <4>1 DEF OfProject
    <3> QED BY <3>1, <3>2
  <2> QED BY <1>4, <2>7, <2>8, FewerAreFew
<1> QED BY <1>5, <1>6

(* Whatever the request and the project (check_max_feature_cnt and its     *)
(* kin, check_starting_points): no tool works on more features of a layer  *)
(* than it may and the scenario adds, nor starts from more coordinates.    *)
THEOREM AnyAdmittedIsWithinLimits ==
  ASSUME NEW r, NEW given, RequestFits(r, given)
  PROVE  LimitsHold(r, given)
<1> SUFFICES ASSUME Accepted(r), FindsItsLayers(r, given)
             PROVE  /\ \A l \in ReadBy(r, given) :
                         Cardinality(Overlaid(l.features, l.edits)) <= MaxFeatureCnt[r.tool] + Added(l)
                    /\ r.tool \in Catchments /\ ~Names(r, "layer_project_id") =>
                         r.lat = r.lon /\ r.lat \in 1..MaxFeatureCnt[r.tool]
                    /\ AlongTheNetwork(r) => \A l \in ReadBy(r, given) : WithinNetworkPart(r, l)
  BY DEF LimitsHold
<1>1. CASE r.tool \in HeatmapsOfOpportunities
  <2>1. fetch_opportunity_layers(r, given)
    BY <1>1 DEF FindsItsLayers
  <2>2. r.tool \notin Catchments /\ r.tool \notin Aggregations /\ ~AlongTheNetwork(r)
    BY <1>1 DEF HeatmapsOfOpportunities, Catchments, Aggregations, AlongTheNetwork
  <2>3. ASSUME NEW l \in Opportunity_layers(r, given)
        PROVE  Cardinality(Overlaid(l.features, l.edits)) <= MaxFeatureCnt[r.tool] + Added(l)
    <3>1. feature_cnt(l) <= MaxFeatureCnt[r.tool] /\ OfProject(l) /\ r.tool \in DOMAIN MaxFeatureCnt
      BY <1>1, <2>1 DEF fetch_opportunity_layers, check_max_feature_cnt, RequestFits
    <3> QED BY <3>1, CountedAreFew
  <2>4. ASSUME NEW l \in Range(Limited(r, ReadOf(r, given)))
        PROVE  Cardinality(Overlaid(l.features, l.edits)) <= MaxFeatureCnt[r.tool] + Added(l)
    <3>1. Limited(r, ReadOf(r, given)) = ReadOf(r, given)
      BY <2>2, NothingLimits
    <3>2. DOMAIN ReadOf(r, given) \subseteq DOMAIN r.layers
      BY DEF ReadOf
    <3>3. PICK p \in DOMAIN r.layers : TRUE
      BY <3>1, <3>2 DEF Range
    <3>4. Names(r, "opportunity_geofence_layer_project_id")
      BY <1>1, <3>3 DEF Names, RequestFits
    <3>5. get_layers_project(r, given)
      BY <2>1, <3>4 DEF fetch_opportunity_layers
    <3> QED BY <3>5, FoundAreFew
  <2>5. ReadBy(r, given) = Range(Limited(r, ReadOf(r, given))) \cup Opportunity_layers(r, given)
    BY <1>1, ReadIs
  <2> QED BY <2>2, <2>3, <2>4, <2>5
<1>2. CASE r.tool \in Catchments /\ ~Names(r, "layer_project_id")
  <2>1. DOMAIN r.layers \subseteq DOMAIN StreetNetworkTypes
    BY <1>2 DEF RequestFits, Names
  <2>2. DOMAIN ReadOf(r, given) = {}
    BY <2>1 DEF ReadOf
  <2>3. r.tool \notin HeatmapsOfOpportunities /\ r.tool \notin Aggregations
    BY <1>2, TypesOfCatchments
  <2>4. Limited(r, ReadOf(r, given)) = ReadOf(r, given)
    BY <2>3, NothingLimits
  <2>5. ReadBy(r, given) = {}
    BY <2>2, <2>3, <2>4, ReadIs DEF Range
  <2>6. check_starting_points(r)
    BY <1>2 DEF Accepted, Catchments, ICatchmentAreaActiveMobility, ICatchmentAreaCar, ICatchmentAreaPT,
                CatchmentAreaNearbyStationAccess
  <2>7. r.lat > 0 /\ r.lat = r.lon /\ r.lat <= MaxStartingPoints[r.tool]
    BY <1>2, <2>6 DEF check_starting_points
  <2>8. /\ MaxStartingPoints[r.tool] <= MaxFeatureCnt[r.tool]
        /\ MaxStartingPoints[r.tool] \in Nat /\ MaxFeatureCnt[r.tool] \in Nat
    <3>1. r.tool \in DOMAIN MaxStartingPoints \cap DOMAIN MaxFeatureCnt
      BY <1>2, LimitsAssumption DEF Tools_limited
    <3> QED BY <1>2, <3>1, LimitsAssumption
  <2>9. r.lat \in Nat
    BY <1>2 DEF RequestFits
  <2>10. ~AlongTheNetwork(r)
    BY <1>2 DEF Catchments, AlongTheNetwork
  <2> QED BY <2>5, <2>7, <2>8, <2>9, <2>10
<1>3. CASE /\ r.tool \notin HeatmapsOfOpportunities
           /\ ~(r.tool \in Catchments /\ ~Names(r, "layer_project_id"))
  <2>1. get_layers_project(r, given)
    BY <1>3 DEF FindsItsLayers, get_layers_oev_gueteklasse
  <2>2. ReadBy(r, given) = Range(Limited(r, ReadOf(r, given)))
    BY <1>3, ReadIs
  <2>3. ASSUME AlongTheNetwork(r)
        PROVE  \A l \in ReadBy(r, given) : WithinNetworkPart(r, l)
    <3>1. r.tool = "oev_gueteklasse"
      BY <2>3 DEF AlongTheNetwork
    <3>2. WithinNetworkPart(r, given[r.layers["reference_area_layer_project_id"]])
      BY <1>3, <2>3, <3>1 DEF FindsItsLayers, get_layers_oev_gueteklasse, Catchments
    <3>3. DOMAIN r.layers \subseteq DOMAIN input_layer_types(r) /\ Names(r, "reference_area_layer_project_id")
      BY <2>1, <3>1, FoundIs DEF Accepted, IOevGueteklasse
    <3> QED BY <3>1, <3>2, <3>3, ReferenceIsRead
  <2> QED BY <1>3, <2>1, <2>2, <2>3, FoundAreFew
<1> QED BY <1>1, <1>2, <1>3

(* Whatever stations are asked for (crud_nearby_station_access.py): the    *)
(* catchment area the request is turned into is accepted too.              *)
THEOREM AnyStationsAreAskedFor ==
  ASSUME NEW r, r.tool = "nearby_station_access", r.lat \in Nat, r.lon \in Nat
  PROVE  NearbyStationsAreAskedFor(r)
<1> DEFINE c == catchment_area_request(r)
<1> SUFFICES ASSUME Accepted(r) PROVE Accepted(c)
  BY DEF NearbyStationsAreAskedFor
<1>1. INearbyStationAccess(r)
  BY DEF Accepted
<1>2. /\ c.tool = "catchment_area_nearby_station_access" /\ c.layers = r.layers /\ c.lat = r.lat
      /\ c.lon = r.lon /\ c.cost = "time" /\ c.max = r.max /\ c.steps = r.max /\ c.type = "polygon"
      /\ c.difference = "yes"
  BY DEF catchment_area_request
<1> HIDE DEF c
<1>3. r.max \in 1..15 /\ CatchmentAreaStreetNetwork(r) /\ check_starting_points(r)
  BY <1>1 DEF INearbyStationAccess
<1>4. CatchmentAreaStreetNetwork(c)
  BY <1>2, <1>3 DEF CatchmentAreaStreetNetwork, Names
<1>5. check_starting_points(c)
  <2>1. /\ MaxStartingPoints["nearby_station_access"] <= MaxStartingPoints["catchment_area_nearby_station_access"]
        /\ MaxStartingPoints["nearby_station_access"] \in Nat
        /\ MaxStartingPoints["catchment_area_nearby_station_access"] \in Nat
    BY LimitsAssumption DEF Catchments
  <2> QED BY <1>2, <1>3, <2>1 DEF check_starting_points, Names
<1>6. check_polygon_difference(c)
  BY <1>2, NotSetAssumption DEF check_polygon_difference
<1>7. TravelTimeCostActiveMobility(c)
  BY <1>2, <1>3 DEF TravelTimeCostActiveMobility
<1>8. ICatchmentAreaActiveMobility(c)
  BY <1>4, <1>5, <1>6, <1>7 DEF ICatchmentAreaActiveMobility
<1> QED BY <1>2, <1>8 DEF Accepted, CatchmentAreaNearbyStationAccess, Aggregations, Heatmaps, HeatmapsOfOpportunities

(* Buffers, whatever is asked for, of features anywhere: of each step, all *)
(* places it reaches.                                                      *)
InReach(r, those, i) ==
  {q \in Space(r) : \E f \in those : \E p \in f.at : Distance(p, q) * r.distance_step <= i * r.max_distance}

LEMMA OneBufferReaches ==
  ASSUME NEW r, NEW those, NEW i
  PROVE  ST_BUFFER(r, Covered(those), i) = InReach(r, those, i)
<1>1. \A p : p \in Covered(those) <=> \E f \in those : p \in f.at
  BY DEF Covered
<1>2. \A q : q \in ST_BUFFER(r, Covered(those), i) <=> q \in InReach(r, those, i)
  BY <1>1 DEF ST_BUFFER, InReach
<1> QED BY <1>2

KeysOf(r, those) == IF r.union = "yes" /\ those # {} THEN {Null} ELSE {f.id : f \in those}

RowsUnder(r, those, k) == {f \in those : r.union = "yes" \/ f.id = k}

BufferOf(r, those, k, i) == [key |-> k, step |-> i, at |-> ST_BUFFER(r, Covered(RowsUnder(r, those, k)), i)]

LEMMA BuffersAre ==
  ASSUME NEW r, NEW those
  PROVE  buffered(r, those) = {BufferOf(r, those, k, i) : k \in KeysOf(r, those), i \in 1..r.distance_step}
BY DEF buffered, BufferOf, KeysOf, RowsUnder

LEMMA FieldsOfBuffer ==
  ASSUME NEW r, NEW those, NEW k, NEW i
  PROVE  /\ BufferOf(r, those, k, i).key = k /\ BufferOf(r, those, k, i).step = i
         /\ BufferOf(r, those, k, i).at = InReach(r, RowsUnder(r, those, k), i)
BY OneBufferReaches DEF BufferOf

(* What is left of a buffer without another. *)
Ring(x, y) == [x EXCEPT !.at = @ \ y.at]

LEMMA RingIs ==
  ASSUME NEW r, NEW those, NEW k, NEW i, NEW y
  PROVE  Ring(BufferOf(r, those, k, i), y)
           = [key |-> k, step |-> i, at |-> InReach(r, RowsUnder(r, those, k), i) \ y.at]
<1> DEFINE a == ST_BUFFER(r, Covered(RowsUnder(r, those, k)), i)
<1>1. \A c, u : [[key |-> k, step |-> i, at |-> c] EXCEPT !.at = u] = [key |-> k, step |-> i, at |-> u]
  OBVIOUS
<1>2. BufferOf(r, those, k, i) = [key |-> k, step |-> i, at |-> a]
  BY DEF BufferOf
<1>3. a = InReach(r, RowsUnder(r, those, k), i)
  BY OneBufferReaches
<1> HIDE DEF a
<1>4. Ring([key |-> k, step |-> i, at |-> a], y) = [key |-> k, step |-> i, at |-> a \ y.at]
  BY DEF Ring
<1> QED BY <1>2, <1>3, <1>4

(* The rows of all keys are all rows. *)
LEMMA EveryRowHasItsKey ==
  ASSUME NEW r, NEW those
  PROVE  /\ \A k : RowsUnder(r, those, k) \subseteq those
         /\ \A f \in those : \E k \in KeysOf(r, those) : f \in RowsUnder(r, those, k)
BY DEF KeysOf, RowsUnder

InLimits(result, i) == UNION {x.at : x \in {y \in result : y.step = i}}

LEMMA UndividedReach ==
  ASSUME NEW r, NEW those, NEW i \in 1..r.distance_step
  PROVE  InLimits(buffered(r, those), i) = InReach(r, those, i)
<1> DEFINE upto == {y \in buffered(r, those) : y.step = i}
<1>1. \A q : q \in UNION {x.at : x \in upto} <=> \E k \in KeysOf(r, those) : q \in InReach(r, RowsUnder(r, those, k), i)
  <2>1. ASSUME NEW x \in upto PROVE \E k \in KeysOf(r, those) : x.at = InReach(r, RowsUnder(r, those, k), i)
    <3>1. PICK k \in KeysOf(r, those), j \in 1..r.distance_step : x = BufferOf(r, those, k, j)
      BY BuffersAre
    <3>2. j = i
      BY <3>1, FieldsOfBuffer
    <3> QED BY <3>1, <3>2, FieldsOfBuffer
  <2>2. ASSUME NEW k \in KeysOf(r, those) PROVE \E x \in upto : x.at = InReach(r, RowsUnder(r, those, k), i)
    <3>1. BufferOf(r, those, k, i) \in upto
      BY BuffersAre, FieldsOfBuffer
    <3> QED BY <3>1, FieldsOfBuffer
  <2> HIDE DEF upto
  <2> QED BY <2>1, <2>2
<1>2. \A q : (\E k \in KeysOf(r, those) : q \in InReach(r, RowsUnder(r, those, k), i)) <=> q \in InReach(r, those, i)
  BY EveryRowHasItsKey DEF InReach
<1> QED BY <1>1, <1>2 DEF InLimits

(* The rings of united features. *)
LEMMA UnitedIs ==
  ASSUME NEW r, r.union = "yes", NEW those, those # {}, NEW x
  PROVE  x \in buffered(r, those) <=> \E i \in 1..r.distance_step : x = BufferOf(r, those, Null, i)
<1>1. KeysOf(r, those) = {Null}
  BY DEF KeysOf
<1> QED BY <1>1, BuffersAre

LEMMA RingsAre ==
  ASSUME NEW r, r.union = "yes", r.difference = "yes", r.distance_step \in 1..20,
         NEW those, those # {}, NEW kept \in SUBSET (2..r.distance_step), NEW x
  PROVE  x \in buffer(r, those, kept) <=>
           \/ \E i \in kept : x = [key |-> Null, step |-> i, at |-> InReach(r, those, i) \ InReach(r, those, i - 1)]
           \/ x = BufferOf(r, those, Null, 1)
<1> DEFINE b == buffered(r, those)
           prev(z) == {y \in b : y.step = z.step - 1}
           ring(i) == [key |-> Null, step |-> i, at |-> InReach(r, those, i) \ InReach(r, those, i - 1)]
           one(i) == BufferOf(r, those, Null, i)
           n == r.distance_step
           cut == UNION {{Ring(z, y) : y \in prev(z)} : z \in {w \in b : w.step \in kept}}
           first == {z \in b : z.step = 1}
<1>1. RowsUnder(r, those, Null) = those
  BY DEF RowsUnder
<1>2. \A i : one(i).step = i /\ one(i).at = InReach(r, those, i)
  BY <1>1, FieldsOfBuffer
<1>3. \A z : z \in b <=> \E i \in 1..n : z = one(i)
  BY UnitedIs
<1>4. buffer(r, those, kept) = cut \cup first
  BY DEF buffer, Ring
<1>5. x \in first <=> x = one(1)
  <2>1. 1 \in 1..n
    OBVIOUS
  <2> HIDE DEF b, one, n
  <2> QED BY <1>2, <1>3, <2>1
<1>6. \A i \in kept : i \in 1..n /\ i - 1 \in 1..n /\ i \in Int
  OBVIOUS
<1>7. \A i \in kept : \A y : y \in prev(one(i)) <=> y = one(i - 1)
  <2> HIDE DEF b, one, n
  <2> QED BY <1>2, <1>3, <1>6
<1>8. \A i \in kept : Ring(one(i), one(i - 1)) = ring(i)
  <2> TAKE i \in kept
  <2>1. one(i - 1).at = InReach(r, those, i - 1)
    BY <1>2
  <2>2. Ring(one(i), one(i - 1))
          = [key |-> Null, step |-> i, at |-> InReach(r, RowsUnder(r, those, Null), i) \ one(i - 1).at]
    <3>1. \A y : Ring(BufferOf(r, those, Null, i), y)
                    = [key |-> Null, step |-> i, at |-> InReach(r, RowsUnder(r, those, Null), i) \ y.at]
      BY RingIs
    <3> QED BY <3>1
  <2> QED BY <1>1, <2>1, <2>2
<1>9. \A z : z \in {w \in b : w.step \in kept} <=> \E i \in kept : z = one(i)
  <2> HIDE DEF b, one, n
  <2> QED BY <1>2, <1>3, <1>6
<1>10. x \in cut <=> \E i \in kept : x = ring(i)
  <2> DEFINE cuts(z) == {Ring(z, y) : y \in prev(z)}
  <2>1. \A i \in kept : cuts(one(i)) = {ring(i)}
    <3> TAKE i \in kept
    <3>1. prev(one(i)) = {one(i - 1)}
      <4> HIDE DEF b, one, prev
      <4> QED BY <1>7
    <3>2. cuts(one(i)) = {Ring(one(i), one(i - 1))}
      <4> HIDE DEF b, one, prev
      <4> QED BY <3>1
    <3> HIDE DEF b, one, prev, ring, cuts
    <3> QED BY <1>8, <3>2
  <2>2. x \in cut <=> \E z \in {w \in b : w.step \in kept} : x \in cuts(z)
    <3> HIDE DEF b, prev
    <3> QED OBVIOUS
  <2> HIDE DEF b, one, prev, ring, cuts, cut
  <2> QED BY <1>9, <2>1, <2>2
<1> HIDE DEF b, prev, cut, first
<1> QED BY <1>4, <1>5, <1>10

RingOf(r, those, i) == IF i = 1 THEN InReach(r, those, 1) ELSE InReach(r, those, i) \ InReach(r, those, i - 1)

(* Whatever the features, and whichever rings rounding loses (the buffers  *)
(* of crud_geoprocessing.py): the buffers of a step cover what it reaches, *)
(* its ring what no earlier step does.                                     *)
THEOREM AnyBufferReachesItsStep ==
  ASSUME NEW r, r.tool = "buffer", NEW those, NEW kept \in Kept(r)
  PROVE  BuffersReachTheirStep(r, those, kept)
<1> SUFFICES ASSUME Accepted(r), r.difference = "yes" => r.union = "yes", NEW i \in 1..r.distance_step
             PROVE  InLimits(buffer(r, those, kept), i)
                      = IF r.difference # "yes" THEN InReach(r, those, i)
                        ELSE IF i \in kept \cup {1} THEN RingOf(r, those, i) ELSE {}
  BY DEF BuffersReachTheirStep, InReach, RingOf, InLimits
<1>6. PICK result : result = buffer(r, those, kept)
  OBVIOUS
<1>1. r.distance_step \in 1..20
  BY DEF Accepted, IBuffer
<1>2. kept \in SUBSET (2..r.distance_step)
  BY DEF Kept
<1>3. CASE r.difference # "yes"
  <2>1. result = buffered(r, those)
    BY <1>3, <1>6 DEF buffer
  <2> QED BY <1>3, <1>6, <2>1, UndividedReach
<1>4. CASE r.difference = "yes" /\ those = {}
  <2>1. buffered(r, those) = {}
    BY <1>4, BuffersAre DEF KeysOf
  <2>2. result = {}
    BY <1>4, <1>6, <2>1 DEF buffer
  <2>3. \A j : InReach(r, those, j) = {}
    BY <1>4 DEF InReach
  <2> QED BY <1>4, <1>6, <2>2, <2>3 DEF InLimits, RingOf
<1>5. CASE r.difference = "yes" /\ those # {}
  <2> DEFINE one == BufferOf(r, those, Null, 1)
             cut(j) == [key |-> Null, step |-> j, at |-> InReach(r, those, j) \ InReach(r, those, j - 1)]
  <2>1. \A x : x \in result <=> (\E j \in kept : x = cut(j)) \/ x = one
    BY <1>1, <1>2, <1>5, <1>6, RingsAre
  <2>2. one.step = 1 /\ one.at = InReach(r, those, 1)
    <3>1. RowsUnder(r, those, Null) = those
      BY <1>5 DEF RowsUnder
    <3> QED BY <3>1, FieldsOfBuffer
  <2>3. \A j : cut(j).step = j /\ cut(j).at = InReach(r, those, j) \ InReach(r, those, j - 1)
    OBVIOUS
  <2>4. 1 \notin kept
    BY <1>1, <1>2
  <2> HIDE DEF one, cut
  <2>5. CASE i = 1
    <3>1. {y \in result : y.step = i} = {one}
      BY <2>1, <2>2, <2>3, <2>4, <2>5
    <3> QED BY <1>5, <1>6, <2>2, <2>5, <3>1 DEF InLimits, RingOf
  <2>6. CASE i # 1 /\ i \in kept
    <3>1. {y \in result : y.step = i} = {cut(i)}
      BY <2>1, <2>2, <2>3, <2>6
    <3> QED BY <1>5, <1>6, <2>3, <2>6, <3>1 DEF InLimits, RingOf
  <2>7. CASE i # 1 /\ i \notin kept
    <3>1. {y \in result : y.step = i} = {}
      BY <2>1, <2>2, <2>3, <2>7
    <3> QED BY <1>5, <1>6, <2>7, <3>1 DEF InLimits
  <2> QED BY <2>5, <2>6, <2>7
<1> QED BY <1>3, <1>4, <1>5

-----------------------------------------------------------------------------
(* Sums of functions, and least and greatest numbers.                      *)
LEMMA SumOfFunction == ASSUME NEW g PROVE SumFunction(g) = SumOver(g, DOMAIN g)
BY Zenon DEF SumFunction, SumFunctionOnSet, FoldFunctionOnSet, SumOver, MapThenSumSet

LEMMA LeastIs ==
  ASSUME NEW S \in SUBSET Nat, S # {}
  PROVE  Min(S) \in S /\ \A y \in S : Min(S) <= y
<1>1. \E x \in S : \A y \in S : x <= y
  BY LeastExists
<1> QED BY <1>1 DEF Min

LEMMA GreatestIs ==
  ASSUME NEW S \in SUBSET Int, IsFiniteSet(S), S # {}
  PROVE  Max(S) \in S /\ \A y \in S : y <= Max(S)
<1>1. \E x \in S : \A y \in S : x >= y
  <2>1. PICK x \in S : \A y \in S : y <= x
    BY GreatestExists
  <2> QED BY <2>1
<1> QED BY <1>1 DEF Max

LEMMA LesserOfTwo ==
  ASSUME NEW m \in Nat, NEW n \in Nat
  PROVE  Min({m, n}) = IF m <= n THEN m ELSE n
<1>1. {m, n} \in SUBSET Nat /\ {m, n} # {}
  OBVIOUS
<1>2. Min({m, n}) \in {m, n} /\ \A y \in {m, n} : Min({m, n}) <= y
  BY <1>1, LeastIs
<1> QED BY <1>2

-----------------------------------------------------------------------------
(* Taking the fastest rows, one after the other.                           *)
FastestOf(left) == CHOOSE r \in left : \A s \in left : r.traveltime <= s.traveltime

Taking(those, n, taken) ==
  taken = [k \in 0..n |-> IF k = 0 THEN {} ELSE taken[k - 1] \cup {FastestOf(those \ taken[k - 1])}]

(* So many of some rows, and none left out is faster. *)
Fastest_of(those, k, some) ==
  /\ some \in SUBSET those /\ Cardinality(some) = k
  /\ \A r \in some, s \in those \ some : r.traveltime <= s.traveltime

LEMMA TakingExists ==
  ASSUME NEW those
  PROVE  \A n \in Nat : \E taken : Taking(those, n, taken)
<1> DEFINE Bad == {n \in Nat : ~ \E taken : Taking(those, n, taken)}
<1>1. SUFFICES ASSUME Bad # {} PROVE FALSE
  OBVIOUS
<1>2. PICK m \in Bad : \A n \in Bad : m <= n
  <2>1. Bad \in SUBSET Nat
    OBVIOUS
  <2> HIDE DEF Bad
  <2> QED BY <1>1, <2>1, LeastExists
<1>3. CASE m = 0
  <2> DEFINE f == [k \in 0..0 |-> {}]
  <2>1. f = [k \in 0..0 |-> IF k = 0 THEN {} ELSE f[k - 1] \cup {FastestOf(those \ f[k - 1])}]
    OBVIOUS
  <2>2. Taking(those, 0, f)
    BY <2>1 DEF Taking
  <2> HIDE DEF f
  <2> QED BY <1>3, <2>2
<1>4. CASE m # 0
  <2>1. m - 1 \in Nat /\ m \in Nat /\ m - 1 < m
    BY <1>4
  <2>2. m - 1 \notin Bad
    <3> HIDE DEF Bad
    <3> QED BY <1>2, <2>1
  <2>3. PICK f : Taking(those, m - 1, f)
    BY <2>1, <2>2
  <2> DEFINE g == [k \in 0..m |-> IF k = m THEN f[m - 1] \cup {FastestOf(those \ f[m - 1])} ELSE f[k]]
  <2>4. g[m - 1] = f[m - 1] /\ \A k \in 0..(m - 1) : g[k] = f[k]
    BY <2>1
  <2>5. \A k \in 0..(m - 1) : f[k] = IF k = 0 THEN {} ELSE f[k - 1] \cup {FastestOf(those \ f[k - 1])}
    BY <2>3, Zenon DEF Taking
  <2>6. ASSUME NEW k \in 0..m
        PROVE  g[k] = IF k = 0 THEN {} ELSE g[k - 1] \cup {FastestOf(those \ g[k - 1])}
    <3>1. CASE k = m
      <4>1. g[k] = f[m - 1] \cup {FastestOf(those \ f[m - 1])}
        BY <3>1
      <4> HIDE DEF g
      <4> QED BY <1>4, <2>4, <3>1, <4>1
    <3>2. CASE k # m
      <4>1. k \in 0..(m - 1) /\ (k # 0 => k - 1 \in 0..(m - 1))
        BY <2>1, <3>2
      <4>2. g[k] = f[k] /\ (k # 0 => g[k - 1] = f[k - 1])
        <5> HIDE DEF g
        <5> QED BY <2>4, <4>1
      <4>3. f[k] = IF k = 0 THEN {} ELSE f[k - 1] \cup {FastestOf(those \ f[k - 1])}
        BY <2>5, <4>1
      <4> HIDE DEF g
      <4> QED BY <4>2, <4>3
    <3> QED BY <3>1, <3>2
  <2>7. g = [k \in 0..m |-> IF k = 0 THEN {} ELSE g[k - 1] \cup {FastestOf(those \ g[k - 1])}]
    <3>1. g = [k \in 0..m |-> g[k]]
      OBVIOUS
    <3> HIDE DEF g
    <3> QED BY <2>6, <3>1
  <2>8. Taking(those, m, g)
    <3> HIDE DEF g
    <3> QED BY <2>7, Zenon DEF Taking
  <2> HIDE DEF g
  <2> QED BY <2>8
<1> QED BY <1>3, <1>4

LEMMA OneMoreIsTaken ==
  ASSUME NEW those, IsFiniteSet(those), \A r \in those : r.traveltime \in Nat,
         NEW k \in Nat, k < Cardinality(those), NEW some, Fastest_of(those, k, some)
  PROVE  Fastest_of(those, k + 1, some \cup {FastestOf(those \ some)})
<1> DEFINE left == those \ some
           times == {r.traveltime : r \in left}
<1>1. some \in SUBSET those /\ IsFiniteSet(some) /\ Cardinality(some) = k
  BY FS_Subset DEF Fastest_of
<1>2. left # {}
  BY <1>1
<1>3. PICK t \in times : \A u \in times : t <= u
  <2>1. times \in SUBSET Nat /\ times # {}
    BY <1>2
  <2> HIDE DEF times
  <2> QED BY <2>1, LeastExists
<1>4. \E r \in left : \A s \in left : r.traveltime <= s.traveltime
  <2>1. PICK r \in left : t = r.traveltime
    OBVIOUS
  <2>2. \A s \in left : s.traveltime \in times
    OBVIOUS
  <2> HIDE DEF left, times
  <2> QED BY <1>3, <2>1, <2>2
<1>5. FastestOf(left) \in left /\ \A s \in left : FastestOf(left).traveltime <= s.traveltime
  <2> HIDE DEF left
  <2> QED BY <1>4 DEF FastestOf
<1>6. PICK r \in left : r = FastestOf(left) /\ \A s \in left : r.traveltime <= s.traveltime
  BY <1>5
<1>7. Cardinality(some \cup {r}) = k + 1
  BY <1>1, <1>6, FS_AddElement
<1>8. \A x \in some \cup {r}, s \in those \ (some \cup {r}) : x.traveltime <= s.traveltime
  BY <1>6 DEF Fastest_of
<1>9. some \cup {r} \in SUBSET those
  BY <1>1, <1>6
<1>10. Fastest_of(those, k + 1, some \cup {r})
  BY <1>7, <1>8, <1>9 DEF Fastest_of
<1> QED BY <1>6, <1>10

LEMMA FirstAreFastest ==
  ASSUME NEW those, IsFiniteSet(those), \A r \in those : r.traveltime \in Nat, NEW n \in Nat
  PROVE  Fastest_of(those, Min({n, Cardinality(those)}), FirstN(n, those))
<1>1. PICK c : c = Cardinality(those)
  OBVIOUS
<1>2. c \in Nat
  BY <1>1, FS_CardinalityType
<1>3. PICK taken : Taking(those, c, taken) /\ FirstN(n, those) = taken[Min({n, c})]
  <2> DEFINE it == CHOOSE f : Taking(those, c, f)
  <2>1. Taking(those, c, it)
    BY <1>2, TakingExists
  <2>2. FirstN(n, those) = it[Min({n, c})]
    BY <1>1, Zenon DEF FirstN, Taking, FastestOf
  <2> QED BY <2>1, <2>2
<1>4. \A k \in 0..c : taken[k] = IF k = 0 THEN {} ELSE taken[k - 1] \cup {FastestOf(those \ taken[k - 1])}
  BY <1>3, Zenon DEF Taking
<1> DEFINE Bad == {k \in 0..c : ~Fastest_of(those, k, taken[k])}
<1>5. Bad = {}
  <2>1. SUFFICES ASSUME Bad # {} PROVE FALSE
    OBVIOUS
  <2>2. PICK k \in Bad : \A m \in Bad : k <= m
    <3>1. Bad \in SUBSET Nat
      OBVIOUS
    <3> HIDE DEF Bad
    <3> QED BY <2>1, <3>1, LeastExists
  <2>3. k \in 0..c /\ ~Fastest_of(those, k, taken[k])
    OBVIOUS
  <2>4. CASE k = 0
    <3>1. taken[k] = {}
      BY <1>4, <2>3, <2>4
    <3> QED BY <2>3, <2>4, <3>1, FS_EmptySet DEF Fastest_of
  <2>5. CASE k # 0
    <3>1. k - 1 \in Nat /\ k - 1 < c /\ k - 1 \in 0..c /\ k - 1 < k /\ k - 1 + 1 = k
      BY <1>2, <2>3, <2>5
    <3>2. k - 1 \notin Bad
      <4> HIDE DEF Bad
      <4> QED BY <2>2, <2>3, <3>1
    <3>3. Fastest_of(those, k - 1, taken[k - 1])
      BY <3>1, <3>2
    <3>4. Fastest_of(those, k - 1 + 1, taken[k - 1] \cup {FastestOf(those \ taken[k - 1])})
      BY <1>1, <3>1, <3>3, OneMoreIsTaken
    <3>5. taken[k] = taken[k - 1] \cup {FastestOf(those \ taken[k - 1])}
      BY <1>4, <2>3, <2>5
    <3> QED BY <2>3, <3>1, <3>4, <3>5
  <2> QED BY <2>4, <2>5
<1>6. Min({n, c}) \in 0..c
  BY <1>2, LesserOfTwo
<1>7. Fastest_of(those, Min({n, c}), taken[Min({n, c})])
  <2>1. Min({n, c}) \notin Bad
    BY <1>5
  <2> QED BY <1>6, <2>1
<1> QED BY <1>1, <1>3, <1>7

-----------------------------------------------------------------------------
(* Sets that lie apart have together as many elements as all of them.      *)
LEMMA ApartAreCounted ==
  ASSUME NEW M, IsFiniteSet(M), NEW of, \A m \in M : IsFiniteSet(of[m]),
         \A m, k \in M : m = k \/ of[m] \cap of[k] = {},
         NEW sizes, \A m \in M : sizes[m] = Cardinality(of[m])
  PROVE  Cardinality(UNION {of[m] : m \in M}) = SumOver(sizes, M)
<1> DEFINE all == UNION {of[m] : m \in M}
           one == [d \in all |-> 1]
           kind == [d \in all |-> CHOOSE m \in M : d \in of[m]]
<1>1. IsFiniteSet(all)
  <2>1. IsFiniteSet({of[m] : m \in M})
    BY ImageIsFinite
  <2> QED BY <2>1, FS_UNION
<1>2. \A d \in all : kind[d] \in M /\ d \in of[kind[d]]
  OBVIOUS
<1>3. ASSUME NEW m \in M PROVE sizes[m] = SumOver(one, PartOf(all, kind, m))
  <2>1. PartOf(all, kind, m) = of[m]
    <3>1. of[m] \in SUBSET all
      OBVIOUS
    <3> HIDE DEF kind, all
    <3> QED BY <1>2, <3>1 DEF PartOf
  <2>2. \A d \in of[m] : one[d] = 1
    OBVIOUS
  <2>3. SumOver(one, of[m]) = Cardinality(of[m])
    <3> HIDE DEF one
    <3> QED BY <2>2, SumOfOnes
  <2> HIDE DEF one, all, kind
  <2> QED BY <2>1, <2>3
<1>4. (\A d \in all : one[d] = 1 /\ one[d] \in Int) /\ (\A d \in all : kind[d] \in M)
  BY <1>2
<1>5. SumOver(sizes, M) = SumOver(one, all)
  <2> HIDE DEF all, one, kind
  <2> QED BY <1>1, <1>3, <1>4, SumOfParts
<1>6. SumOver(one, all) = Cardinality(all)
  <2> HIDE DEF all, one
  <2> QED BY <1>1, <1>4, SumOfOnes
<1> QED BY <1>5, <1>6

(* Where things that are summed get the same name, the sum grows smaller.  *)
LEMMA SumOfNames ==
  ASSUME NEW g, NEW h, NEW f, NEW S, IsFiniteSet(S), \A x \in S : g[x] = h[f[x]] /\ g[x] \in Nat
  PROVE  SumOver(h, {f[x] : x \in S}) <= SumOver(g, S)
<1> DEFINE names == {f[x] : x \in S}
           pick == [y \in names |-> CHOOSE x \in S : f[x] = y]
           T == {pick[y] : y \in names}
<1>1. \A y \in names : pick[y] \in S /\ f[pick[y]] = y
  OBVIOUS
<1>2. T \in SUBSET S /\ \A x, y \in T : f[x] = f[y] => x = y
  <2> HIDE DEF pick, names
  <2> QED BY <1>1
<1>3. {f[x] : x \in T} = names
  <2>1. \A x \in T : f[x] \in names
    BY <1>2
  <2>2. ASSUME NEW y \in names PROVE \E x \in T : f[x] = y
    <3> HIDE DEF pick, names
    <3> QED BY <1>1
  <2> HIDE DEF T, names
  <2> QED BY <2>1, <2>2
<1> HIDE DEF T, pick, names
<1>4. IsFiniteSet(T) /\ \A x \in T : g[x] = h[f[x]] /\ g[x] \in Int
  BY <1>2, FS_Subset
<1>5. SumOver(h, {f[x] : x \in T}) = SumOver(g, T)
  BY <1>2, <1>4, SumOfImage
<1>6. SumOver(g, T) <= SumOver(g, S)
  BY <1>2, SumOfPart
<1> QED BY <1>3, <1>5, <1>6 DEF names

(* So many of the least have the same sum, whichever they are.             *)
Lowest(g, S, A) == A \in SUBSET S /\ \A x \in A, y \in S \ A : g[x] <= g[y]

LEMMA LowestSumTheSame ==
  ASSUME NEW g, NEW S, IsFiniteSet(S), \A x \in S : g[x] \in Int, NEW A, NEW B,
         Lowest(g, S, A), Lowest(g, S, B), Cardinality(A) = Cardinality(B)
  PROVE  SumOver(g, A) = SumOver(g, B)
<1> DEFINE C == A \cap B
           P == A \ B
           Q == B \ A
<1>1. /\ A \in SUBSET S /\ B \in SUBSET S
      /\ IsFiniteSet(A) /\ IsFiniteSet(B) /\ IsFiniteSet(C) /\ IsFiniteSet(P) /\ IsFiniteSet(Q)
  BY FS_Subset DEF Lowest
<1>2. Cardinality(P) = Cardinality(Q)
  <2>1. C = B \cap A
    OBVIOUS
  <2>2. Cardinality(P) = Cardinality(A) - Cardinality(C) /\ Cardinality(Q) = Cardinality(B) - Cardinality(C)
    BY <1>1, <2>1, FS_Difference
  <2> QED BY <2>2
<1>3. PICK f \in Bijection(P, Q) : TRUE
  BY <1>1, <1>2, FS_SameCardinalityBij DEF ExistsBijection
<1>4. /\ \A x \in P : f[x] \in Q
      /\ \A x, y \in P : f[x] = f[y] => x = y
      /\ \A y \in Q : \E x \in P : f[x] = y
  BY <1>3, Zenon DEF Bijection, Injection, Surjection, IsInjective
<1>5. {f[x] : x \in P} = Q
  <2> HIDE DEF P, Q
  <2> QED BY <1>4
<1>6. \A x \in P, y \in Q : g[x] = g[y]
  <2> TAKE x \in P, y \in Q
  <2>1. g[x] \in Int /\ g[y] \in Int
    BY <1>1
  <2>2. g[x] <= g[y] /\ g[y] <= g[x]
    BY <1>1 DEF Lowest
  <2> QED BY <2>1, <2>2
<1>7. \A x \in P : g[x] = g[f[x]] /\ g[x] \in Int
  <2>1. \A x \in P : g[x] \in Int
    BY <1>1
  <2> HIDE DEF P, Q
  <2> QED BY <1>4, <1>6, <2>1
<1>8. SumOver(g, Q) = SumOver(g, P)
  <2> HIDE DEF P, Q
  <2> QED BY <1>1, <1>4, <1>5, <1>7, SumOfImage
<1>9. /\ A = C \cup P /\ C \cap P = {} /\ B = C \cup Q /\ C \cap Q = {}
      /\ \A x \in C \cup P : g[x] \in Int
      /\ \A x \in C \cup Q : g[x] \in Int
  BY <1>1
<1>10. SumOver(g, C \cup P) = SumOver(g, C) + SumOver(g, P) /\ SumOver(g, C \cup Q) = SumOver(g, C) + SumOver(g, Q)
  <2> HIDE DEF C, P, Q
  <2> QED BY <1>1, <1>9, SumOfUnion
<1> HIDE DEF C, P, Q
<1> QED BY <1>8, <1>9, <1>10

-----------------------------------------------------------------------------
(* Connectivity.  The pairs of a row of the reference table and one of the *)
(* matrix that are joined.                                                 *)
CellOf(f, h) == [id |-> f.id, h3_index |-> h, h3_3 |-> ShardOf[Centre[h]]]

Filled(layer) == UNION {{CellOf(f, h) : h \in f.inside} : f \in Opportunities(layer)}

Joins(layer) ==
  {x \in Filled(layer) \X Matrix : /\ x[2].h3_3 = x[1].h3_3 /\ x[2].orig = x[1].h3_index
                                  /\ x[2].traveltime <= layer.max_traveltime}

JoinsFrom(layer, h) == {x \in Joins(layer) : x[2].orig = h}

RowsWithin(layer, h) == {m \in Matrix : m.orig = h /\ m.traveltime <= layer.max_traveltime}

KeptAtItsCentre(h) == \A m \in Matrix : m.orig = h => m.h3_3 = ShardOf[Centre[h]]

Holders(layer, h) == {f \in Opportunities(layer) : h \in f.inside}

LEMMA JoinsOfTheOnlyHolder ==
  ASSUME NEW layer, NEW h, NEW f, Holders(layer, h) = {f}, KeptAtItsCentre(h)
  PROVE  JoinsFrom(layer, h) = {<<CellOf(f, h), m>> : m \in RowsWithin(layer, h)}
<1> DEFINE b == CellOf(f, h)
<1>1. f \in Opportunities(layer) /\ h \in f.inside
  BY DEF Holders
<1>2. b \in Filled(layer)
  BY <1>1 DEF Filled
<1>3. ASSUME NEW m \in RowsWithin(layer, h) PROVE <<b, m>> \in JoinsFrom(layer, h)
  <2>1. m \in Matrix /\ m.orig = h /\ m.traveltime <= layer.max_traveltime /\ m.h3_3 = ShardOf[Centre[h]]
    BY DEF RowsWithin, KeptAtItsCentre
  <2>2. b.h3_index = h /\ b.h3_3 = ShardOf[Centre[h]]
    BY DEF CellOf
  <2>3. <<b, m>> \in Filled(layer) \X Matrix /\ <<b, m>>[1] = b /\ <<b, m>>[2] = m
    BY <1>2, <2>1
  <2> HIDE DEF b
  <2> QED BY <2>1, <2>2, <2>3 DEF Joins, JoinsFrom
<1>4. ASSUME NEW x \in JoinsFrom(layer, h) PROVE \E m \in RowsWithin(layer, h) : x = <<b, m>>
  <2>1. /\ x \in Filled(layer) \X Matrix /\ x[2].orig = x[1].h3_index /\ x[2].orig = h
        /\ x[2].traveltime <= layer.max_traveltime
    BY DEF JoinsFrom, Joins
  <2>2. x[1] \in Filled(layer) /\ x[2] \in Matrix /\ x = <<x[1], x[2]>>
    BY <2>1
  <2>3. PICK g \in Opportunities(layer) : \E k \in g.inside : x[1] = CellOf(g, k)
    BY <2>2 DEF Filled
  <2>4. PICK k \in g.inside : x[1] = CellOf(g, k)
    BY <2>3
  <2>5. k = h
    <3>1. CellOf(g, k).h3_index = k
      BY DEF CellOf
    <3> QED BY <2>1, <2>4, <3>1
  <2>6. g \in Holders(layer, h)
    BY <2>5 DEF Holders
  <2>7. g = f
    BY <2>6
  <2>8. x[2] \in RowsWithin(layer, h)
    BY <2>1, <2>2 DEF RowsWithin
  <2> QED BY <2>2, <2>4, <2>5, <2>7, <2>8
<1> HIDE DEF b
<1>5. JoinsFrom(layer, h) = {<<b, m>> : m \in RowsWithin(layer, h)}
  BY <1>3, <1>4
<1> QED BY <1>5 DEF b

(* crud_heatmap_connectivity.py: a cell in one polygon of the reference    *)
(* area, kept in the shard of its centre, is worth the cells it reaches in *)
(* time, for every layer of finitely many polygons.                        *)
THEOREM AnyConnectivityIsExact ==
  ASSUME NEW layer, IsFiniteSet(Opportunities(layer))
  PROVE  ConnectivityIsExact(layer)
<1> SUFFICES ASSUME NEW r \in connectivity(layer), Cardinality(Holders(layer, r.cell)) = 1,
                    KeptAtItsCentre(r.cell)
             PROVE  r.accessibility = Cardinality(UNION {m.dests : m \in RowsWithin(layer, r.cell)})
  BY Zenon DEF ConnectivityIsExact, Holders, RowsWithin, KeptAtItsCentre
<1>1. PICK h : r.cell = h /\ r.accessibility = SumFunction([x \in JoinsFrom(layer, h) |-> Cardinality(x[2].dests)])
  <2>1. PICK h \in {x[2].orig : x \in Joins(layer)} :
          r = [cell |-> h, accessibility |-> SumFunction([x \in JoinsFrom(layer, h) |-> Cardinality(x[2].dests)])]
    BY Zenon DEF connectivity, Joins, JoinsFrom, Filled, CellOf
  <2> QED BY <2>1
<1>2. PICK f : Holders(layer, h) = {f}
  <2>1. IsFiniteSet(Holders(layer, h))
    BY FS_Subset DEF Holders
  <2> QED BY <1>1, <2>1, FS_Singleton
<1> DEFINE M == RowsWithin(layer, h)
           J == JoinsFrom(layer, h)
           pair == [m \in M |-> <<CellOf(f, h), m>>]
           counts == [x \in J |-> Cardinality(x[2].dests)]
           sizes == [m \in M |-> Cardinality(m.dests)]
           dests == [m \in M |-> m.dests]
<1>3. J = {pair[m] : m \in M}
  <2>1. KeptAtItsCentre(h)
    BY <1>1
  <2>2. J = {<<CellOf(f, h), m>> : m \in M}
    BY <1>2, <2>1, JoinsOfTheOnlyHolder
  <2> QED BY <2>2
<1>4. /\ IsFiniteSet(M)
      /\ \A m \in M : IsFiniteSet(m.dests) /\ Cardinality(m.dests) \in Int
      /\ \A m, k \in M : m = k \/ m.dests \cap k.dests = {}
  <2>1. IsFiniteSet(M)
    BY MatrixAssumption, FS_Subset DEF RowsWithin
  <2>2. \A m \in M : IsFiniteSet(m.dests)
    BY MatrixAssumption DEF RowsWithin
  <2>3. \A m, k \in M : m = k \/ m.dests \cap k.dests = {}
    BY MatrixAssumption DEF RowsWithin
  <2> QED BY <2>1, <2>2, <2>3, FS_CardinalityType
<1>5. /\ \A m \in M : sizes[m] = counts[pair[m]] /\ sizes[m] \in Int
      /\ \A m, k \in M : pair[m] = pair[k] => m = k
  <2>1. \A m \in M : pair[m] \in J /\ pair[m][2] = m
    BY <1>3
  <2>2. \A m \in M : counts[pair[m]] = Cardinality(m.dests)
    <3> HIDE DEF pair, J
    <3> QED BY <2>1
  <2>3. \A m \in M : sizes[m] = Cardinality(m.dests)
    OBVIOUS
  <2> HIDE DEF pair, counts, sizes, M, J
  <2> QED BY <1>4, <2>1, <2>2, <2>3
<1>6. SumOver(counts, {pair[m] : m \in M}) = SumOver(sizes, M)
  <2> HIDE DEF pair, counts, sizes, M, J
  <2> QED BY <1>4, <1>5, SumOfImage
<1>7. r.accessibility = SumOver(counts, J)
  <2>1. DOMAIN counts = J
    OBVIOUS
  <2>2. r.accessibility = SumFunction(counts)
    BY <1>1
  <2> HIDE DEF counts, J
  <2> QED BY <2>1, <2>2, SumOfFunction
<1>8. Cardinality(UNION {dests[m] : m \in M}) = SumOver(sizes, M)
  <2>1. /\ \A m \in M : IsFiniteSet(dests[m]) /\ sizes[m] = Cardinality(dests[m])
        /\ \A m, k \in M : m = k \/ dests[m] \cap dests[k] = {}
    BY <1>4
  <2> HIDE DEF dests, sizes, M
  <2> QED BY <1>4, <2>1, ApartAreCounted
<1>9. {dests[m] : m \in M} = {m.dests : m \in RowsWithin(layer, r.cell)}
  BY <1>1
<1> HIDE DEF M, J, pair, counts, sizes, dests
<1> QED BY <1>3, <1>6, <1>7, <1>8, <1>9

-----------------------------------------------------------------------------
(* The rows of the opportunity table and what the matrix says of them.     *)
RowOf(l, f, p) ==
  [id |-> f.id, h3_index |-> HexOf[p], h3_3 |-> ShardOf[p], max_traveltime |-> l.max_traveltime,
   n |-> l.n, sensitivity |-> l.sensitivity, potential |-> f.value]

Way(o, d, t) == [of |-> o, dest |-> d, traveltime |-> t]

TimesOf(x, fence, d) == Times(x[2].at \cap fence[x[1].max_traveltime], d, x[1].max_traveltime)

LEMMA OfLayers ==
  ASSUME NEW ls
  PROVE  /\ \A x \in OpportunitiesOf(ls) :
              x[1] \in ls /\ x[2] \in Opportunities(x[1]) /\ x = <<x[1], x[2]>>
         /\ \A l \in ls : \A f \in Opportunities(l) :
              <<l, f>> \in OpportunitiesOf(ls) /\ <<l, f>>[1] = l /\ <<l, f>>[2] = f
<1>1. ASSUME NEW x \in OpportunitiesOf(ls)
      PROVE  x[1] \in ls /\ x[2] \in Opportunities(x[1]) /\ x = <<x[1], x[2]>>
  <2>1. PICK l \in ls : \E f \in Opportunities(l) : x = <<l, f>>
    BY DEF OpportunitiesOf
  <2> QED BY <2>1
<1>2. ASSUME NEW l \in ls, NEW f \in Opportunities(l)
      PROVE  <<l, f>> \in OpportunitiesOf(ls)
  <2> DEFINE of(k) == {<<k, g>> : g \in Opportunities(k)}
  <2>1. <<l, f>> \in of(l)
    OBVIOUS
  <2>2. OpportunitiesOf(ls) = UNION {of(k) : k \in ls}
    BY DEF OpportunitiesOf
  <2> HIDE DEF of
  <2> QED BY <2>1, <2>2
<1> QED BY <1>1, <1>2

LEMMA RowsAreOfPlaces ==
  ASSUME NEW ls, NEW fence, NEW o
  PROVE  o \in opportunity_table(ls, fence) <=>
           \E x \in OpportunitiesOf(ls) : \E p \in x[2].at \cap fence[x[1].max_traveltime] : o = RowOf(x[1], x[2], p)
<1> DEFINE MetBy(l) == {y \in Opportunities(l) \X fence[l.max_traveltime] : y[2] \in y[1].at}
<1>1. o \in opportunity_table(ls, fence) <=>
        \E l \in ls : \E y \in MetBy(l) : o = RowOf(l, y[1], y[2])
  <2> DEFINE of(l) == {RowOf(l, y[1], y[2]) : y \in MetBy(l)}
  <2>1. opportunity_table(ls, fence) = UNION {of(l) : l \in ls}
    BY DEF opportunity_table, RowOf
  <2>2. \A l : o \in of(l) <=> \E y \in MetBy(l) : o = RowOf(l, y[1], y[2])
    OBVIOUS
  <2> HIDE DEF of, MetBy
  <2> QED BY <2>1, <2>2
<1>2. ASSUME NEW l \in ls, NEW y \in MetBy(l), o = RowOf(l, y[1], y[2])
      PROVE  \E x \in OpportunitiesOf(ls) : \E p \in x[2].at \cap fence[x[1].max_traveltime] : o = RowOf(x[1], x[2], p)
  <2>1. y[1] \in Opportunities(l) /\ y[2] \in fence[l.max_traveltime] /\ y[2] \in y[1].at
    OBVIOUS
  <2>2. PICK x \in OpportunitiesOf(ls) : x[1] = l /\ x[2] = y[1]
    <3>1. PICK x : x = <<l, y[1]>>
      OBVIOUS
    <3>2. x \in OpportunitiesOf(ls) /\ x[1] = l /\ x[2] = y[1]
      BY <2>1, <3>1, OfLayers
    <3> QED BY <3>2
  <2>3. y[2] \in x[2].at \cap fence[x[1].max_traveltime]
    BY <2>1, <2>2
  <2> QED BY <1>2, <2>2, <2>3
<1>3. ASSUME NEW x \in OpportunitiesOf(ls), NEW p \in x[2].at \cap fence[x[1].max_traveltime], o = RowOf(x[1], x[2], p)
      PROVE  \E l \in ls : \E y \in MetBy(l) : o = RowOf(l, y[1], y[2])
  <2>1. x[1] \in ls /\ x[2] \in Opportunities(x[1])
    BY OfLayers
  <2>2. <<x[2], p>> \in MetBy(x[1]) /\ <<x[2], p>>[1] = x[2] /\ <<x[2], p>>[2] = p
    BY <2>1
  <2> HIDE DEF MetBy
  <2> QED BY <1>3, <2>1, <2>2
<1> HIDE DEF MetBy
<1> QED BY <1>1, <1>2, <1>3

(* A row of the table leads to the cells the matrix has a time to.         *)
LEMMA WaysOfRows ==
  ASSUME NEW table, NEW r
  PROVE  r \in sub_matrix(table) <=>
           \E o \in table : \E m \in Matrix : \E d \in m.dests :
             /\ m.h3_3 = o.h3_3 /\ m.orig = o.h3_index /\ m.traveltime <= o.max_traveltime
             /\ r = Way(o, d, m.traveltime)
<1> DEFINE MetBy == {y \in table \X Matrix :
                     /\ y[2].h3_3 = y[1].h3_3 /\ y[2].orig = y[1].h3_index
                     /\ y[2].traveltime <= y[1].max_traveltime}
<1>1. r \in sub_matrix(table) <=> \E y \in MetBy : \E d \in y[2].dests : r = Way(y[1], d, y[2].traveltime)
  <2> DEFINE of(y) == {Way(y[1], d, y[2].traveltime) : d \in y[2].dests}
  <2>1. sub_matrix(table) = UNION {of(y) : y \in MetBy}
    BY DEF sub_matrix, Way
  <2>2. \A y : r \in of(y) <=> \E d \in y[2].dests : r = Way(y[1], d, y[2].traveltime)
    OBVIOUS
  <2> HIDE DEF of, MetBy
  <2> QED BY <2>1, <2>2
<1>2. ASSUME NEW y \in MetBy
      PROVE  y[1] \in table /\ y[2] \in Matrix /\ y[2].h3_3 = y[1].h3_3 /\ y[2].orig = y[1].h3_index
             /\ y[2].traveltime <= y[1].max_traveltime
  OBVIOUS
<1>3. ASSUME NEW o \in table, NEW m \in Matrix, m.h3_3 = o.h3_3, m.orig = o.h3_index,
             m.traveltime <= o.max_traveltime
      PROVE  \E y \in MetBy : y[1] = o /\ y[2] = m
  <2>1. <<o, m>> \in MetBy /\ <<o, m>>[1] = o /\ <<o, m>>[2] = m
    BY <1>3
  <2> HIDE DEF MetBy
  <2> QED BY <2>1
<1> HIDE DEF MetBy
<1>4. ASSUME r \in sub_matrix(table)
      PROVE  \E o \in table : \E m \in Matrix : \E d \in m.dests :
             /\ m.h3_3 = o.h3_3 /\ m.orig = o.h3_index /\ m.traveltime <= o.max_traveltime
             /\ r = Way(o, d, m.traveltime)
  <2>1. PICK y \in MetBy : \E d \in y[2].dests : r = Way(y[1], d, y[2].traveltime)
    BY <1>1, <1>4
  <2> QED BY <1>2, <2>1
<1>5. ASSUME NEW o \in table, NEW m \in Matrix, NEW d \in m.dests,
             m.h3_3 = o.h3_3, m.orig = o.h3_index, m.traveltime <= o.max_traveltime,
             r = Way(o, d, m.traveltime)
      PROVE  r \in sub_matrix(table)
  <2>1. PICK y \in MetBy : y[1] = o /\ y[2] = m
    BY <1>3, <1>5
  <2> QED BY <1>1, <1>5, <2>1
<1> QED BY <1>4, <1>5

LEMMA WaysOfOpportunities ==
  ASSUME NEW ls, NEW fence, Known(ls), NEW r
  PROVE  r \in sub_matrix(opportunity_table(ls, fence)) <=>
           \E x \in OpportunitiesOf(ls) : \E p \in x[2].at \cap fence[x[1].max_traveltime] : \E m \in Matrix : \E d \in m.dests :
             /\ m.orig = HexOf[p] /\ m.traveltime <= x[1].max_traveltime
             /\ r = Way(RowOf(x[1], x[2], p), d, m.traveltime)
<1>1. \A x \in OpportunitiesOf(ls) : \A p \in x[2].at, m \in Matrix :
        m.orig = HexOf[p] => m.h3_3 = ShardOf[p]
  BY OfLayers DEF Known
<1>2. \A l, f, p : /\ RowOf(l, f, p).h3_3 = ShardOf[p] /\ RowOf(l, f, p).h3_index = HexOf[p]
                   /\ RowOf(l, f, p).max_traveltime = l.max_traveltime
  BY DEF RowOf
<1> DEFINE table == opportunity_table(ls, fence)
<1>3. \A o : o \in table <=>
        \E x \in OpportunitiesOf(ls) : \E p \in x[2].at \cap fence[x[1].max_traveltime] : o = RowOf(x[1], x[2], p)
  BY RowsAreOfPlaces
<1> HIDE DEF table
<1>4. ASSUME r \in sub_matrix(table)
      PROVE  \E x \in OpportunitiesOf(ls) : \E p \in x[2].at \cap fence[x[1].max_traveltime] : \E m \in Matrix : \E d \in m.dests :
             /\ m.orig = HexOf[p] /\ m.traveltime <= x[1].max_traveltime
             /\ r = Way(RowOf(x[1], x[2], p), d, m.traveltime)
  <2>1. PICK o \in table : \E m \in Matrix : \E d \in m.dests :
             /\ m.h3_3 = o.h3_3 /\ m.orig = o.h3_index /\ m.traveltime <= o.max_traveltime
             /\ r = Way(o, d, m.traveltime)
    BY <1>4, WaysOfRows
  <2>2. PICK x \in OpportunitiesOf(ls) : \E p \in x[2].at \cap fence[x[1].max_traveltime] : o = RowOf(x[1], x[2], p)
    BY <1>3
  <2>3. PICK p \in x[2].at \cap fence[x[1].max_traveltime] : o = RowOf(x[1], x[2], p)
    BY <2>2
  <2>4. o.h3_index = HexOf[p] /\ o.max_traveltime = x[1].max_traveltime
    BY <1>2, <2>3
  <2> QED BY <2>1, <2>3, <2>4
<1>5. ASSUME NEW x \in OpportunitiesOf(ls), NEW p \in x[2].at \cap fence[x[1].max_traveltime], NEW m \in Matrix, NEW d \in m.dests,
             m.orig = HexOf[p], m.traveltime <= x[1].max_traveltime,
             r = Way(RowOf(x[1], x[2], p), d, m.traveltime)
      PROVE  r \in sub_matrix(table)
  <2>1. RowOf(x[1], x[2], p) \in table
    BY <1>3
  <2>2. PICK o \in table : o = RowOf(x[1], x[2], p)
    BY <2>1
  <2>3. m.h3_3 = o.h3_3 /\ m.orig = o.h3_index /\ m.traveltime <= o.max_traveltime
    BY <1>1, <1>2, <1>5, <2>2
  <2> QED BY <1>5, <2>2, <2>3, WaysOfRows
<1> QED BY <1>4, <1>5 DEF table

(* Grouped by what tells opportunities apart, there is a way for each time *)
(* from one of its places.                                                 *)
Regrouped(ways, key) == {[r EXCEPT !.of = key[r.of]] : r \in ways}

NamesFor(ls, fence, key, name) ==
  \A x \in OpportunitiesOf(ls) :
    /\ \A p \in x[2].at \cap fence[x[1].max_traveltime] : key[RowOf(x[1], x[2], p)] = name[x]
    /\ \A y \in OpportunitiesOf(ls) : name[x] = name[y] => x = y

LEMMA TimesAreOfTheMatrix ==
  ASSUME NEW x, NEW fence, NEW d, NEW t
  PROVE  t \in TimesOf(x, fence, d) <=>
           \E p \in x[2].at \cap fence[x[1].max_traveltime] : \E m \in Matrix :
             /\ m.orig = HexOf[p] /\ m.traveltime <= x[1].max_traveltime /\ d \in m.dests
             /\ t = m.traveltime
<1>1. t \in TimesOf(x, fence, d) <=>
        \E m \in {k \in Matrix : /\ k.traveltime <= x[1].max_traveltime /\ d \in k.dests
                                 /\ \E p \in x[2].at \cap fence[x[1].max_traveltime] : HexOf[p] = k.orig} : t = m.traveltime
  BY Zenon DEF TimesOf, Times
<1> QED BY <1>1

LEMMA RenamedWays ==
  ASSUME NEW ls, NEW fence, Known(ls), NEW key, NEW name, NamesFor(ls, fence, key, name), NEW r
  PROVE  r \in Regrouped(sub_matrix(opportunity_table(ls, fence)), key) <=>
           \E x \in OpportunitiesOf(ls) : \E d \in Range(HexOf) : \E t \in TimesOf(x, fence, d) :
             r = Way(name[x], d, t)
<1> DEFINE ways == sub_matrix(opportunity_table(ls, fence))
<1>1. \A w : w \in ways <=>
           \E x \in OpportunitiesOf(ls) : \E p \in x[2].at \cap fence[x[1].max_traveltime] : \E m \in Matrix : \E d \in m.dests :
             /\ m.orig = HexOf[p] /\ m.traveltime <= x[1].max_traveltime
             /\ w = Way(RowOf(x[1], x[2], p), d, m.traveltime)
  BY WaysOfOpportunities
<1> HIDE DEF ways
<1>2. \A o, d, t : [Way(o, d, t) EXCEPT !.of = key[Way(o, d, t).of]] = Way(key[o], d, t)
  BY DEF Way
<1>3. r \in Regrouped(ways, key) <=> \E w \in ways : r = [w EXCEPT !.of = key[w.of]]
  BY Zenon DEF Regrouped
<1>4. ASSUME r \in Regrouped(ways, key)
      PROVE  \E x \in OpportunitiesOf(ls) : \E d \in Range(HexOf) : \E t \in TimesOf(x, fence, d) :
               r = Way(name[x], d, t)
  <2>1. PICK w \in ways : r = [w EXCEPT !.of = key[w.of]]
    BY <1>3, <1>4
  <2>2. PICK x \in OpportunitiesOf(ls) : \E p \in x[2].at \cap fence[x[1].max_traveltime] : \E m \in Matrix : \E d \in m.dests :
             /\ m.orig = HexOf[p] /\ m.traveltime <= x[1].max_traveltime
             /\ w = Way(RowOf(x[1], x[2], p), d, m.traveltime)
    BY <1>1
  <2>3. PICK p \in x[2].at \cap fence[x[1].max_traveltime] : \E m \in Matrix : \E d \in m.dests :
             /\ m.orig = HexOf[p] /\ m.traveltime <= x[1].max_traveltime
             /\ w = Way(RowOf(x[1], x[2], p), d, m.traveltime)
    BY <2>2
  <2>4. PICK m \in Matrix : \E d \in m.dests :
             /\ m.orig = HexOf[p] /\ m.traveltime <= x[1].max_traveltime
             /\ w = Way(RowOf(x[1], x[2], p), d, m.traveltime)
    BY <2>3
  <2>5. PICK d \in m.dests :
             /\ m.orig = HexOf[p] /\ m.traveltime <= x[1].max_traveltime
             /\ w = Way(RowOf(x[1], x[2], p), d, m.traveltime)
    BY <2>4
  <2>6. r = Way(name[x], d, m.traveltime)
    <3>1. key[RowOf(x[1], x[2], p)] = name[x]
      BY DEF NamesFor
    <3> QED BY <1>2, <2>1, <2>5, <3>1
  <2>7. m.traveltime \in TimesOf(x, fence, d)
    BY <2>5, TimesAreOfTheMatrix
  <2>8. d \in Range(HexOf)
    BY MatrixAssumption
  <2> QED BY <2>6, <2>7, <2>8
<1>5. ASSUME NEW x \in OpportunitiesOf(ls), NEW d \in Range(HexOf), NEW t \in TimesOf(x, fence, d),
             r = Way(name[x], d, t)
      PROVE  r \in Regrouped(ways, key)
  <2>1. PICK p \in x[2].at \cap fence[x[1].max_traveltime] : \E m \in Matrix :
             /\ m.orig = HexOf[p] /\ m.traveltime <= x[1].max_traveltime /\ d \in m.dests
             /\ t = m.traveltime
    BY TimesAreOfTheMatrix
  <2>2. PICK m \in Matrix :
             /\ m.orig = HexOf[p] /\ m.traveltime <= x[1].max_traveltime /\ d \in m.dests
             /\ t = m.traveltime
    BY <2>1
  <2>3. PICK w : w = Way(RowOf(x[1], x[2], p), d, m.traveltime)
    OBVIOUS
  <2>4. w \in ways
    BY <1>1, <2>2, <2>3
  <2>5. [w EXCEPT !.of = key[w.of]] = Way(key[RowOf(x[1], x[2], p)], d, m.traveltime)
    BY <1>2, <2>3
  <2>6. key[RowOf(x[1], x[2], p)] = name[x]
    BY DEF NamesFor
  <2> QED BY <1>3, <1>5, <2>2, <2>4, <2>5, <2>6
<1> QED BY <1>4, <1>5 DEF ways

(* The fastest of them is the one way kept for an opportunity and a cell.  *)
LEMMA FastestWays ==
  ASSUME NEW ls, NEW fence, Known(ls), NEW key, NEW name, NamesFor(ls, fence, key, name), NEW r
  PROVE  r \in Fastest(Regrouped(sub_matrix(opportunity_table(ls, fence)), key)) <=>
           \E x \in OpportunitiesOf(ls) : \E d \in Range(HexOf) :
             TimesOf(x, fence, d) # {} /\ r = Way(name[x], d, Min(TimesOf(x, fence, d)))
<1> DEFINE ways == Regrouped(sub_matrix(opportunity_table(ls, fence)), key)
           same(w) == {s.traveltime : s \in {u \in ways : u.dest = w.dest /\ u.of = w.of}}
<1>1. \A w : w \in ways <=>
           \E x \in OpportunitiesOf(ls) : \E d \in Range(HexOf) : \E t \in TimesOf(x, fence, d) :
             w = Way(name[x], d, t)
  BY RenamedWays
<1> HIDE DEF ways
<1>2. r \in Fastest(ways) <=> \E w \in ways : r = [w EXCEPT !.traveltime = Min(same(w))]
  BY Zenon DEF Fastest
<1>3. \A o, d, t : /\ Way(o, d, t).of = o /\ Way(o, d, t).dest = d /\ Way(o, d, t).traveltime = t
                   /\ \A u : [Way(o, d, t) EXCEPT !.traveltime = u] = Way(o, d, u)
  BY DEF Way
<1>4. ASSUME NEW x \in OpportunitiesOf(ls), NEW d \in Range(HexOf), NEW t
      PROVE  same(Way(name[x], d, t)) = TimesOf(x, fence, d)
  <2>1. ASSUME NEW u \in TimesOf(x, fence, d) PROVE u \in same(Way(name[x], d, t))
    <3>1. PICK w : w = Way(name[x], d, u)
      OBVIOUS
    <3>2. w \in ways
      BY <1>1, <3>1
    <3> QED BY <1>3, <3>1, <3>2
  <2>2. ASSUME NEW u \in same(Way(name[x], d, t)) PROVE u \in TimesOf(x, fence, d)
    <3>1. PICK s \in ways : s.dest = d /\ s.of = name[x] /\ u = s.traveltime
      BY <1>3
    <3>2. PICK y \in OpportunitiesOf(ls), e \in Range(HexOf) :
             \E v \in TimesOf(y, fence, e) : s = Way(name[y], e, v)
      BY <1>1
    <3>3. PICK v \in TimesOf(y, fence, e) : s = Way(name[y], e, v)
      BY <3>2
    <3>4. e = d /\ name[y] = name[x] /\ u = v
      BY <1>3, <3>1, <3>3
    <3>5. y = x
      BY <3>4 DEF NamesFor
    <3> QED BY <3>4, <3>5
  <2> HIDE DEF same
  <2> QED BY <2>1, <2>2
<1> HIDE DEF same
<1>5. ASSUME r \in Fastest(ways)
      PROVE  \E x \in OpportunitiesOf(ls) : \E d \in Range(HexOf) :
               TimesOf(x, fence, d) # {} /\ r = Way(name[x], d, Min(TimesOf(x, fence, d)))
  <2>1. PICK w \in ways : r = [w EXCEPT !.traveltime = Min(same(w))]
    BY <1>2, <1>5
  <2>2. PICK x \in OpportunitiesOf(ls), d \in Range(HexOf) :
          \E t \in TimesOf(x, fence, d) : w = Way(name[x], d, t)
    BY <1>1
  <2>3. PICK t \in TimesOf(x, fence, d) : w = Way(name[x], d, t)
    BY <2>2
  <2>4. r = Way(name[x], d, Min(TimesOf(x, fence, d)))
    BY <1>3, <1>4, <2>1, <2>3
  <2> QED BY <2>3, <2>4
<1>6. ASSUME NEW x \in OpportunitiesOf(ls), NEW d \in Range(HexOf), TimesOf(x, fence, d) # {},
             r = Way(name[x], d, Min(TimesOf(x, fence, d)))
      PROVE  r \in Fastest(ways)
  <2>1. PICK t \in TimesOf(x, fence, d) : TRUE
    BY <1>6
  <2>2. PICK w : w = Way(name[x], d, t)
    OBVIOUS
  <2>3. w \in ways
    BY <1>1, <2>2
  <2>4. [w EXCEPT !.traveltime = Min(same(w))] = Way(name[x], d, Min(TimesOf(x, fence, d)))
    BY <1>3, <1>4, <2>2
  <2> QED BY <1>2, <1>6, <2>3, <2>4
<1> QED BY <1>5, <1>6 DEF ways

-----------------------------------------------------------------------------
(* Layers a heatmap can be asked for.                                      *)
LayersFit(ls) ==
  /\ IsFiniteSet(ls)
  /\ \A l \in ls : IsFiniteSet(Opportunities(l)) /\ l.n \in Nat

LEMMA TimesAreNumbers ==
  ASSUME NEW places, NEW d, NEW limit
  PROVE  /\ Times(places, d, limit) \in SUBSET Nat
         /\ \A t \in Times(places, d, limit) : t <= limit
BY MatrixAssumption DEF Times

LEMMA TimeToIs ==
  ASSUME NEW l, NEW fence, NEW d, NEW f \in Reached(l, fence, d)
  PROVE  TimeTo(l, fence, f, d) \in Nat /\ TimeTo(l, fence, f, d) <= l.max_traveltime
<1>1. PICK T : T = Times(f.at \cap fence[l.max_traveltime], d, l.max_traveltime)
  OBVIOUS
<1>2. T \in SUBSET Nat /\ T # {} /\ \A t \in T : t <= l.max_traveltime
  BY <1>1, TimesAreNumbers DEF Reached
<1>3. Min(T) \in T
  BY <1>2, LeastIs
<1> QED BY <1>1, <1>2, <1>3 DEF TimeTo

-----------------------------------------------------------------------------
(* Closest average.  The ways of a layer to a cell, and its nearest.       *)
NameOfNearest(l, f) == [id |-> f.id, n |-> l.n]

WaysTo(l, fence, d) ==
  {Way(NameOfNearest(l, f), d, TimeTo(l, fence, f, d)) : f \in Reached(l, fence, d)}

IsNearest(l, fence, d, s) ==
  /\ s \in SUBSET Reached(l, fence, d)
  /\ Cardinality(s) = Min({l.n, Cardinality(Reached(l, fence, d))})
  /\ \A f \in s, g \in Reached(l, fence, d) \ s : TimeTo(l, fence, f, d) <= TimeTo(l, fence, g, d)

LEMMA NearestIs ==
  ASSUME NEW l, NEW fence, NEW d, NEW s, IsNearest(l, fence, d, s)
  PROVE  IsNearest(l, fence, d, Nearest(l, fence, d))
<1>1. \E u \in SUBSET Reached(l, fence, d) : IsNearest(l, fence, d, u)
  BY DEF IsNearest
<1>2. Nearest(l, fence, d) = CHOOSE u \in SUBSET Reached(l, fence, d) : IsNearest(l, fence, d, u)
  <2>1. \A u \in SUBSET Reached(l, fence, d) :
          IsNearest(l, fence, d, u) <=>
            /\ Cardinality(u) = Min({l.n, Cardinality(Reached(l, fence, d))})
            /\ \A f \in u, g \in Reached(l, fence, d) \ u : TimeTo(l, fence, f, d) <= TimeTo(l, fence, g, d)
    BY DEF IsNearest
  <2> QED BY <2>1 DEF Nearest
<1> QED BY <1>1, <1>2

(* The first n ways of a layer to a cell are those of its nearest          *)
(* opportunities, as many and of the same sum.                             *)
LEMMA FirstWaysAreNearest ==
  ASSUME NEW l, NEW fence, NEW d, IsFiniteSet(Opportunities(l)), l.n \in Nat,
         \A f, g \in Opportunities(l) : f.id = g.id => f = g,
         NEW g, \A r \in WaysTo(l, fence, d) : g[r] = r.traveltime
  PROVE  LET first == FirstN(l.n, WaysTo(l, fence, d))
         IN /\ first \in SUBSET WaysTo(l, fence, d) /\ IsFiniteSet(WaysTo(l, fence, d))
            /\ Cardinality(first) = Cardinality(Nearest(l, fence, d))
            /\ SumOver(g, first) =
                 SumFunction([f \in Nearest(l, fence, d) |-> TimeTo(l, fence, f, d)])
<1> DEFINE R == Reached(l, fence, d)
           W == WaysTo(l, fence, d)
           way == [f \in R |-> Way(NameOfNearest(l, f), d, TimeTo(l, fence, f, d))]
           time == [f \in R |-> TimeTo(l, fence, f, d)]
<1>1. IsFiniteSet(R) /\ \A f \in R : time[f] \in Nat
  BY TimeToIs, FS_Subset DEF Reached
<1>2. W = {way[f] : f \in R} /\ \A f \in R : way[f].traveltime = time[f]
  BY DEF WaysTo, Way
<1>3. \A f, h \in R : way[f] = way[h] => f = h
  <2> TAKE f, h \in R
  <2> HAVE way[f] = way[h]
  <2>1. NameOfNearest(l, f) = NameOfNearest(l, h)
    BY DEF Way
  <2>2. f.id = h.id
    BY <2>1 DEF NameOfNearest
  <2> QED BY <2>2 DEF Reached
<1> HIDE DEF R, W, way, time
<1>4. IsFiniteSet(W) /\ Cardinality(W) = Cardinality(R)
  BY <1>1, <1>2, <1>3, AsMany
<1>5. \A r \in W : r.traveltime \in Nat
  BY <1>1, <1>2
<1>6. PICK k : k = Min({l.n, Cardinality(R)})
  OBVIOUS
<1>7. PICK first : first = FirstN(l.n, W) /\ Fastest_of(W, k, first)
  BY <1>4, <1>5, <1>6, FirstAreFastest
<1> DEFINE T == {f \in R : way[f] \in first}
<1>8. {way[f] : f \in T} = first
  <2>1. first \in SUBSET W
    BY <1>7 DEF Fastest_of
  <2> QED BY <1>2, <2>1
<1>9. Cardinality(T) = k /\ IsFiniteSet(T)
  <2>1. IsFiniteSet(T) /\ \A f, h \in T : way[f] = way[h] => f = h
    BY <1>1, <1>3, FS_Subset
  <2>2. Cardinality({way[f] : f \in T}) = Cardinality(T)
    <3> HIDE DEF T
    <3> QED BY <2>1, AsMany
  <2> QED BY <1>7, <1>8, <2>1, <2>2 DEF Fastest_of
<1>10. \A f \in T, h \in R \ T : time[f] <= time[h]
  <2> TAKE f \in T, h \in R \ T
  <2>1. way[f] \in first /\ way[h] \in W \ first
    BY <1>2
  <2> QED BY <1>2, <1>7, <2>1 DEF Fastest_of
<1>11. \A f \in R : time[f] = TimeTo(l, fence, f, d)
  BY DEF time
<1>12. IsNearest(l, fence, d, T)
  BY <1>6, <1>9, <1>10, <1>11 DEF IsNearest, R
<1>13. PICK N : N = Nearest(l, fence, d) /\ IsNearest(l, fence, d, N)
  BY <1>12, NearestIs
<1>14. /\ Cardinality(N) = k /\ N \in SUBSET R
       /\ \A f \in N, h \in R \ N : time[f] <= time[h]
  BY <1>6, <1>11, <1>13 DEF IsNearest, R
<1>15. SumOver(time, N) = SumOver(time, T)
  <2>1. Lowest(time, R, N) /\ Lowest(time, R, T)
    BY <1>10, <1>14 DEF Lowest
  <2> HIDE DEF T
  <2> QED BY <1>1, <1>9, <1>14, <2>1, LowestSumTheSame
<1>16. SumOver(g, {way[f] : f \in T}) = SumOver(time, T)
  <2>1. \A f \in T : time[f] = g[way[f]] /\ time[f] \in Int
    BY <1>1, <1>2 DEF W
  <2>2. \A f, h \in T : way[f] = way[h] => f = h
    BY <1>3
  <2> HIDE DEF T
  <2> QED BY <1>9, <2>1, <2>2, SumOfImage
<1>17. SumFunction([f \in N |-> TimeTo(l, fence, f, d)]) = SumOver(time, N)
  <2> DEFINE near == [f \in N |-> TimeTo(l, fence, f, d)]
  <2>1. DOMAIN near = N /\ \A f \in N : near[f] = time[f]
    BY <1>11, <1>14
  <2>2. IsFiniteSet(N)
    BY <1>1, <1>14, FS_Subset
  <2> HIDE DEF near
  <2>3. SumFunction(near) = SumOver(near, N)
    BY <2>1, SumOfFunction
  <2>4. SumOver(near, N) = SumOver(time, N)
    BY <2>1, <2>2, SumAgrees
  <2> QED BY <2>3, <2>4 DEF near
<1>18. first \in SUBSET W /\ Cardinality(first) = k
  BY <1>7 DEF Fastest_of
<1> HIDE DEF T
<1>19. SumOver(g, first) = SumFunction([f \in N |-> TimeTo(l, fence, f, d)])
  BY <1>8, <1>15, <1>16, <1>17
<1> QED BY <1>4, <1>7, <1>13, <1>14, <1>18, <1>19 DEF W

(* The ways kept for closest average, and the first of all the layers.     *)
Grouped_nearest(ls, fence) ==
  Fastest({[r EXCEPT !.of = [id |-> r.of.id, n |-> r.of.n]] :
             r \in sub_matrix(opportunity_table(ls, fence))})

WaysFor(ls, fence, d, n) == {r \in Grouped_nearest(ls, fence) : r.dest = d /\ r.of.n = n}

FirstWays(ls, fence, d) ==
  UNION {FirstN(n, WaysFor(ls, fence, d, n)) : n \in {r.of.n : r \in Grouped_nearest(ls, fence)}}

LEMMA KnownApart ==
  ASSUME NEW ls, Known(ls)
  PROVE  /\ \A x, y \in OpportunitiesOf(ls) : x[2].id = y[2].id => x = y
         /\ \A l \in ls : \A f, g \in Opportunities(l) : f.id = g.id => f = g
<1>1. ASSUME NEW x \in OpportunitiesOf(ls), NEW y \in OpportunitiesOf(ls), x[2].id = y[2].id
      PROVE  x = y
  <2>1. /\ x[1] \in ls /\ x[2] \in Opportunities(x[1]) /\ x = <<x[1], x[2]>>
        /\ y[1] \in ls /\ y[2] \in Opportunities(y[1]) /\ y = <<y[1], y[2]>>
    BY OfLayers
  <2>2. x[2] = y[2] /\ x[1] = y[1]
    BY <1>1, <2>1 DEF Known
  <2> QED BY <2>1, <2>2
<1>2. \A l \in ls : \A f, g \in Opportunities(l) : f.id = g.id => f = g
  BY DEF Known
<1> QED BY <1>1, <1>2

LEMMA NearestAreGrouped ==
  ASSUME NEW ls, NEW fence, Known(ls), NEW r
  PROVE  r \in Grouped_nearest(ls, fence) <=>
           \E l \in ls : \E d \in Range(HexOf) : r \in WaysTo(l, fence, d)
<1> DEFINE table == opportunity_table(ls, fence)
           key == [o \in table |-> [id |-> o.id, n |-> o.n]]
           name == [x \in OpportunitiesOf(ls) |-> NameOfNearest(x[1], x[2])]
           ways == sub_matrix(table)
<1>1. NamesFor(ls, fence, key, name)
  <2>1. ASSUME NEW x \in OpportunitiesOf(ls), NEW p \in x[2].at \cap fence[x[1].max_traveltime]
        PROVE  key[RowOf(x[1], x[2], p)] = name[x]
    <3>1. PICK o : o = RowOf(x[1], x[2], p)
      OBVIOUS
    <3>2. o \in table
      BY <3>1, RowsAreOfPlaces
    <3>3. o.id = x[2].id /\ o.n = x[1].n
      BY <3>1 DEF RowOf
    <3>4. key[o] = [id |-> o.id, n |-> o.n]
      BY <3>2
    <3> HIDE DEF key
    <3> QED BY <3>1, <3>3, <3>4 DEF NameOfNearest
  <2>2. ASSUME NEW x \in OpportunitiesOf(ls), NEW y \in OpportunitiesOf(ls), name[x] = name[y]
        PROVE  x = y
    <3>1. x[2].id = y[2].id
      BY <2>2 DEF NameOfNearest
    <3> QED BY <3>1, KnownApart
  <2> HIDE DEF key, name
  <2> QED BY <2>1, <2>2 DEF NamesFor
<1>2. Grouped_nearest(ls, fence) = Fastest(Regrouped(ways, key))
  <2>1. \A w \in ways : w.of \in table
    <3> TAKE w \in ways
    <3>1. PICK o \in table : \E m \in Matrix : \E d \in m.dests : w = Way(o, d, m.traveltime)
      BY WaysOfRows
    <3> HIDE DEF table, ways
    <3> QED BY <3>1 DEF Way
  <2>2. \A w \in ways : key[w.of] = [id |-> w.of.id, n |-> w.of.n]
    <3> HIDE DEF table, ways
    <3> QED BY <2>1
  <2>3. Regrouped(ways, key) = {[w EXCEPT !.of = [id |-> w.of.id, n |-> w.of.n]] : w \in ways}
    <3> HIDE DEF key, ways, table
    <3> QED BY <2>2 DEF Regrouped
  <2> HIDE DEF key
  <2> QED BY <2>3 DEF Grouped_nearest
<1>3. \A x \in OpportunitiesOf(ls) : name[x] = NameOfNearest(x[1], x[2])
  OBVIOUS
<1>4. r \in Fastest(Regrouped(ways, key)) <=>
        \E x \in OpportunitiesOf(ls) : \E d \in Range(HexOf) :
          TimesOf(x, fence, d) # {} /\ r = Way(name[x], d, Min(TimesOf(x, fence, d)))
  <2> HIDE DEF key, name
  <2> QED BY <1>1, FastestWays
<1> HIDE DEF key, name, ways, table
<1>5. ASSUME NEW x \in OpportunitiesOf(ls), NEW d \in Range(HexOf), TimesOf(x, fence, d) # {},
             r = Way(name[x], d, Min(TimesOf(x, fence, d)))
      PROVE  \E l \in ls : \E e \in Range(HexOf) : r \in WaysTo(l, fence, e)
  <2>1. x[1] \in ls /\ x[2] \in Opportunities(x[1])
    BY OfLayers
  <2>2. x[2] \in Reached(x[1], fence, d) /\ Min(TimesOf(x, fence, d)) = TimeTo(x[1], fence, x[2], d)
    BY <1>5, <2>1 DEF Reached, TimeTo, TimesOf
  <2>3. r \in WaysTo(x[1], fence, d)
    BY <1>3, <1>5, <2>2 DEF WaysTo
  <2> QED BY <2>1, <2>3
<1>6. ASSUME NEW l \in ls, NEW d \in Range(HexOf), r \in WaysTo(l, fence, d)
      PROVE  \E x \in OpportunitiesOf(ls) : \E e \in Range(HexOf) :
               TimesOf(x, fence, e) # {} /\ r = Way(name[x], e, Min(TimesOf(x, fence, e)))
  <2>1. PICK f \in Reached(l, fence, d) : r = Way(NameOfNearest(l, f), d, TimeTo(l, fence, f, d))
    BY <1>6 DEF WaysTo
  <2>2. f \in Opportunities(l)
    BY DEF Reached
  <2>3. PICK x \in OpportunitiesOf(ls) : x[1] = l /\ x[2] = f
    <3>1. PICK x : x = <<l, f>>
      OBVIOUS
    <3>2. x \in OpportunitiesOf(ls) /\ x[1] = l /\ x[2] = f
      BY <2>2, <3>1, OfLayers
    <3> QED BY <3>2
  <2>4. TimesOf(x, fence, d) # {} /\ Min(TimesOf(x, fence, d)) = TimeTo(l, fence, f, d)
    BY <2>3 DEF Reached, TimeTo, TimesOf
  <2> QED BY <1>3, <2>1, <2>3, <2>4
<1> QED BY <1>2, <1>4, <1>5, <1>6

(* Where layers ask for different numbers, the ways that ask for a number  *)
(* are those of one layer.                                                 *)
LEMMA WaysForAreOfTheLayer ==
  ASSUME NEW ls, NEW fence, Known(ls), \A l, k \in ls : l.n = k.n => l = k,
         NEW d \in Range(HexOf), NEW l \in ls
  PROVE  WaysFor(ls, fence, d, l.n) = WaysTo(l, fence, d)
<1>1. \A k, e, w : w \in WaysTo(k, fence, e) => w.dest = e /\ w.of.n = k.n
  BY DEF WaysTo, Way, NameOfNearest
<1>2. ASSUME NEW w \in WaysFor(ls, fence, d, l.n) PROVE w \in WaysTo(l, fence, d)
  <2>1. w \in Grouped_nearest(ls, fence) /\ w.dest = d /\ w.of.n = l.n
    BY DEF WaysFor
  <2>2. PICK k \in ls, e \in Range(HexOf) : w \in WaysTo(k, fence, e)
    BY <2>1, NearestAreGrouped
  <2>3. e = d /\ k = l
    BY <1>1, <2>1, <2>2
  <2> QED BY <2>2, <2>3
<1>3. ASSUME NEW w \in WaysTo(l, fence, d) PROVE w \in WaysFor(ls, fence, d, l.n)
  <2>1. w \in Grouped_nearest(ls, fence)
    BY NearestAreGrouped
  <2> QED BY <1>1, <2>1 DEF WaysFor
<1> QED BY <1>2, <1>3

FirstOf(l, fence, d) == FirstN(l.n, WaysTo(l, fence, d))

AverageAt(ls, fence, d) ==
  [cell |-> d, sum |-> Total(FirstWays(ls, fence, d)), count |-> Cardinality(FirstWays(ls, fence, d))]

ExactAt(ls, fence, d) ==
  [cell |-> d,
   sum |-> SumFunction([l \in ls |->
             SumFunction([f \in Nearest(l, fence, d) |-> TimeTo(l, fence, f, d)])]),
   count |-> SumFunction([l \in ls |-> Cardinality(Nearest(l, fence, d))])]

LEMMA FirstWaysAreOfLayers ==
  ASSUME NEW ls, NEW fence, LayersFit(ls), Known(ls), \A l, k \in ls : l.n = k.n => l = k,
         NEW d \in Range(HexOf)
  PROVE  FirstWays(ls, fence, d) = UNION {FirstOf(l, fence, d) : l \in ls}
<1> DEFINE numbers == {r.of.n : r \in Grouped_nearest(ls, fence)}
           first(n) == FirstN(n, WaysFor(ls, fence, d, n))
<1>1. FirstWays(ls, fence, d) = UNION {first(n) : n \in numbers}
  BY DEF FirstWays
<1>2. \A l \in ls : first(l.n) = FirstOf(l, fence, d)
  BY WaysForAreOfTheLayer, Zenon DEF FirstOf
<1>3. ASSUME NEW n \in numbers PROVE \E l \in ls : l.n = n
  <2>1. PICK r \in Grouped_nearest(ls, fence) : n = r.of.n
    OBVIOUS
  <2>2. PICK l \in ls, e \in Range(HexOf) : r \in WaysTo(l, fence, e)
    BY NearestAreGrouped
  <2>3. r.of.n = l.n
    BY <2>2 DEF WaysTo, Way, NameOfNearest
  <2> QED BY <2>1, <2>3
<1>4. ASSUME NEW l \in ls, NEW r \in FirstOf(l, fence, d) PROVE l.n \in numbers
  <2>1. FirstOf(l, fence, d) \in SUBSET WaysTo(l, fence, d)
    <3> DEFINE g == [w \in WaysTo(l, fence, d) |-> w.traveltime]
    <3>1. IsFiniteSet(Opportunities(l)) /\ l.n \in Nat /\ \A f, h \in Opportunities(l) : f.id = h.id => f = h
      BY KnownApart DEF LayersFit
    <3>2. \A w \in WaysTo(l, fence, d) : g[w] = w.traveltime
      OBVIOUS
    <3> HIDE DEF g
    <3> QED BY <3>1, <3>2, FirstWaysAreNearest DEF FirstOf
  <2>2. r \in WaysTo(l, fence, d)
    BY <2>1
  <2>3. r \in Grouped_nearest(ls, fence) /\ r.of.n = l.n
    BY <2>2, NearestAreGrouped DEF WaysTo, Way, NameOfNearest
  <2> QED BY <2>3
<1> HIDE DEF numbers, first
<1> QED BY <1>1, <1>2, <1>3, <1>4

LEMMA AverageIsExactAt ==
  ASSUME NEW ls, NEW fence, LayersFit(ls), Known(ls), \A l, k \in ls : l.n = k.n => l = k,
         NEW d \in Range(HexOf)
  PROVE  AverageAt(ls, fence, d) = ExactAt(ls, fence, d)
<1> DEFINE all == UNION {WaysTo(l, fence, d) : l \in ls}
           time == [r \in all |-> r.traveltime]
           one == [r \in all |-> 1]
           kind == [r \in all |-> CHOOSE l \in ls : l.n = r.of.n]
           sums == [l \in ls |-> SumFunction([f \in Nearest(l, fence, d) |-> TimeTo(l, fence, f, d)])]
           counts == [l \in ls |-> Cardinality(Nearest(l, fence, d))]
<1>1. PICK first : first = FirstWays(ls, fence, d)
  OBVIOUS
<1>2. first = UNION {FirstOf(l, fence, d) : l \in ls}
  BY <1>1, FirstWaysAreOfLayers
<1>3. \A l \in ls : \A r \in WaysTo(l, fence, d) : r \in all /\ time[r] = r.traveltime
  OBVIOUS
<1>4. ASSUME NEW l \in ls
      PROVE  /\ FirstOf(l, fence, d) \in SUBSET WaysTo(l, fence, d) /\ IsFiniteSet(WaysTo(l, fence, d))
             /\ Cardinality(FirstOf(l, fence, d)) = counts[l]
             /\ SumOver(time, FirstOf(l, fence, d)) = sums[l]
  <2>1. IsFiniteSet(Opportunities(l)) /\ l.n \in Nat /\ \A f, h \in Opportunities(l) : f.id = h.id => f = h
    BY KnownApart DEF LayersFit
  <2>2. \A w \in WaysTo(l, fence, d) : time[w] = w.traveltime
    BY <1>3
  <2>3. counts[l] = Cardinality(Nearest(l, fence, d))
    OBVIOUS
  <2>4. sums[l] = SumFunction([f \in Nearest(l, fence, d) |-> TimeTo(l, fence, f, d)])
    OBVIOUS
  <2> HIDE DEF time, counts, sums
  <2> QED BY <2>1, <2>2, <2>3, <2>4, FirstWaysAreNearest DEF FirstOf
<1>5. \A l \in ls : FirstOf(l, fence, d) \in SUBSET WaysTo(l, fence, d)
  BY <1>4
<1>6. IsFiniteSet(all) /\ first \in SUBSET all /\ IsFiniteSet(first)
  <2>1. IsFiniteSet(ls)
    BY DEF LayersFit
  <2>2. IsFiniteSet(all)
    <3> DEFINE to == [l \in ls |-> WaysTo(l, fence, d)]
    <3>1. all = UNION {to[l] : l \in ls} /\ \A l \in ls : IsFiniteSet(to[l])
      BY <1>4
    <3>2. IsFiniteSet({to[l] : l \in ls})
      <4> HIDE DEF to
      <4> QED BY <2>1, ImageIsFinite
    <3> HIDE DEF all, to
    <3> QED BY <3>1, <3>2, FS_UNION
  <2>3. first \in SUBSET all
    <3>1. \A r \in first : \E l \in ls : r \in WaysTo(l, fence, d)
      BY <1>2, <1>5
    <3> QED BY <3>1
  <2> QED BY <2>2, <2>3, FS_Subset
<1>7. \A r \in all : time[r] \in Int /\ time[r] = r.traveltime /\ one[r] = 1
  <2> TAKE r \in all
  <2>1. PICK l \in ls : r \in WaysTo(l, fence, d)
    OBVIOUS
  <2>2. PICK f \in Reached(l, fence, d) : r = Way(NameOfNearest(l, f), d, TimeTo(l, fence, f, d))
    BY <2>1 DEF WaysTo
  <2>3. r.traveltime \in Nat
    BY <2>2, TimeToIs DEF Way
  <2> QED BY <2>3
<1>8. \A l \in ls : \A r \in WaysTo(l, fence, d) : kind[r] = l
  <2> TAKE l \in ls
  <2> TAKE r \in WaysTo(l, fence, d)
  <2>1. r.of.n = l.n
    BY DEF WaysTo, Way, NameOfNearest
  <2>2. kind[r] = CHOOSE k \in ls : k.n = r.of.n
    BY <1>3
  <2> HIDE DEF kind, all
  <2> QED BY <2>1, <2>2
<1>9. \A l \in ls : PartOf(first, kind, l) = FirstOf(l, fence, d)
  <2> TAKE l \in ls
  <2> HIDE DEF kind
  <2>1. \A r \in first : \E k \in ls : r \in FirstOf(k, fence, d) /\ kind[r] = k
    BY <1>2, <1>5, <1>8
  <2>2. \A r \in FirstOf(l, fence, d) : r \in first /\ kind[r] = l
    BY <1>2, <1>5, <1>8
  <2> QED BY <2>1, <2>2 DEF PartOf
<1>10. \A r \in first : kind[r] \in ls
  <2> HIDE DEF kind
  <2> QED BY <1>2, <1>5, <1>8
<1> HIDE DEF all, time, one, kind, sums, counts
<1>11. \A l \in ls : counts[l] = SumOver(one, PartOf(first, kind, l))
  <2> TAKE l \in ls
  <2>1. PICK F : F = FirstOf(l, fence, d)
    OBVIOUS
  <2>2. F \in SUBSET first
    BY <1>9, <2>1 DEF PartOf
  <2>3. IsFiniteSet(F) /\ \A r \in F : one[r] = 1
    BY <1>6, <1>7, <2>2, FS_Subset
  <2>4. SumOver(one, F) = Cardinality(F)
    BY <2>3, SumOfOnes
  <2> QED BY <1>4, <1>9, <2>1, <2>4
<1>12. IsFiniteSet(ls) /\ \A r \in first : time[r] \in Int /\ one[r] \in Int
  BY <1>6, <1>7 DEF LayersFit
<1>13. SumOver(sums, ls) = SumOver(time, first)
  <2>1. \A l \in ls : sums[l] = SumOver(time, PartOf(first, kind, l))
    BY <1>4, <1>9
  <2> QED BY <1>6, <1>10, <1>12, <2>1, SumOfParts
<1>14. SumOver(counts, ls) = SumOver(one, first)
  BY <1>6, <1>10, <1>11, <1>12, SumOfParts
<1>15. SumOver(one, first) = Cardinality(first)
  BY <1>6, <1>7, SumOfOnes
<1>16. Total(first) = SumOver(time, first)
  <2> DEFINE g == [r \in first |-> r.traveltime]
  <2>1. Total(first) = SumFunction(g) /\ DOMAIN g = first /\ \A r \in first : g[r] = time[r]
    BY <1>6, <1>7 DEF Total
  <2> HIDE DEF g
  <2>2. SumFunction(g) = SumOver(g, first)
    BY <2>1, SumOfFunction
  <2>3. SumOver(g, first) = SumOver(time, first)
    BY <1>6, <2>1, SumAgrees
  <2> QED BY <2>1, <2>2, <2>3
<1>17. SumFunction(sums) = SumOver(sums, ls) /\ SumFunction(counts) = SumOver(counts, ls)
  <2>1. DOMAIN sums = ls /\ DOMAIN counts = ls
    BY DEF sums, counts
  <2> QED BY <2>1, SumOfFunction
<1>18. Total(first) = SumFunction(sums) /\ Cardinality(first) = SumFunction(counts)
  BY <1>13, <1>14, <1>15, <1>16, <1>17
<1> QED BY <1>1, <1>18, Zenon DEF AverageAt, ExactAt, sums, counts

(* crud_heatmap_closest_average.py: a cell is given the average time of    *)
(* the nearest opportunities of each layer, whatever the layers, the       *)
(* matrix and the geofence.                                                *)
THEOREM AnyClosestAverageIsExact ==
  ASSUME NEW ls, NEW fence, LayersFit(ls)
  PROVE  ClosestAverageIsExact(ls, fence)
<1> SUFFICES ASSUME Known(ls), \A l, k \in ls : l.n = k.n => l = k
             PROVE  closest_average(ls, fence) =
                      {ExactAt(ls, fence, d) :
                         d \in {c \in Range(HexOf) : \E l \in ls : Reached(l, fence, c) # {}}}
  BY Zenon DEF ClosestAverageIsExact, ExactAt
<1> DEFINE cells == {c \in Range(HexOf) : \E l \in ls : Reached(l, fence, c) # {}}
           dests == {r.dest : r \in Grouped_nearest(ls, fence)}
<1>1. closest_average(ls, fence) = {AverageAt(ls, fence, d) : d \in dests}
  BY Zenon DEF closest_average, AverageAt, FirstWays, WaysFor, Grouped_nearest
<1>2. dests = cells
  <2>1. ASSUME NEW d \in dests PROVE d \in cells
    <3>1. PICK r \in Grouped_nearest(ls, fence) : d = r.dest
      OBVIOUS
    <3>2. PICK l \in ls, e \in Range(HexOf) : r \in WaysTo(l, fence, e)
      BY NearestAreGrouped
    <3>3. PICK f \in Reached(l, fence, e) : r = Way(NameOfNearest(l, f), e, TimeTo(l, fence, f, e))
      BY <3>2 DEF WaysTo
    <3>4. r.dest = e
      BY <3>3 DEF Way
    <3> QED BY <3>1, <3>3, <3>4
  <2>2. ASSUME NEW d \in cells PROVE d \in dests
    <3>1. PICK l \in ls : Reached(l, fence, d) # {}
      OBVIOUS
    <3>2. PICK f \in Reached(l, fence, d) : TRUE
      BY <3>1
    <3>3. PICK r : r = Way(NameOfNearest(l, f), d, TimeTo(l, fence, f, d))
      OBVIOUS
    <3>4. r \in WaysTo(l, fence, d) /\ r.dest = d
      BY <3>3 DEF WaysTo, Way
    <3>5. r \in Grouped_nearest(ls, fence)
      BY <3>4, NearestAreGrouped
    <3> QED BY <3>4, <3>5
  <2> HIDE DEF cells, dests
  <2> QED BY <2>1, <2>2
<1>3. \A d \in cells : AverageAt(ls, fence, d) = ExactAt(ls, fence, d)
  BY AverageIsExactAt
<1> HIDE DEF dests, cells
<1>4. closest_average(ls, fence) = {ExactAt(ls, fence, d) : d \in cells}
  BY <1>1, <1>2, <1>3
<1> QED BY <1>4 DEF cells

-----------------------------------------------------------------------------
(* Gravity.  What opportunities can be reached from a cell, which fill it, *)
(* and what each is worth.                                                 *)
NameOfGravity(x) == [id |-> x[2].id, sensitivity |-> x[1].sensitivity, potential |-> x[2].value]

NameOfFiller(x) == [row |-> x[2].row, sensitivity |-> x[1].sensitivity, potential |-> x[2].value]

ReachedOf(ls, fence, d) == {x \in OpportunitiesOf(ls) : x[2] \in Reached(x[1], fence, d)}

InsideOf(ls, fence, d) ==
  {x \in OpportunitiesOf(ls) : x[1].areas /\ d \in x[2].inside /\ x[2].whole \cap fence[x[1].max_traveltime] # {}}

TimeOf(x, fence, d) == TimeTo(x[1], fence, x[2], d)

Worth(ls, t, x) == Impedance(t, x[1].sensitivity, Longest(ls)) * x[2].value

WorthOfRow(ls, r) ==
  Impedance(r.traveltime, r.of.sensitivity, Longest(ls)) * r.of.potential

OfferOf(ls, fence, x, d) == Offer(ls, fence, x[1], x[2], d)

Grouped_gravity(ls, fence) ==
  Fastest({[r EXCEPT !.of = [id |-> r.of.id, sensitivity |-> r.of.sensitivity,
                             potential |-> r.of.potential]] :
             r \in sub_matrix(opportunity_table(ls, fence))})

RowsAt(those, d) == {r \in those : r.dest = d}

ReachedRows(ls, fence, d) ==
  {Way(NameOfGravity(x), d, TimeOf(x, fence, d)) : x \in ReachedOf(ls, fence, d)}

FillerRows(ls, fence, d) == {Way(NameOfFiller(x), d, 1) : x \in InsideOf(ls, fence, d)}

LEMMA OffersAre ==
  ASSUME NEW ls, NEW fence, NEW d, NEW x \in OpportunitiesOf(ls), NEW v
  PROVE  v \in OfferOf(ls, fence, x, d) <=>
           \/ x \in ReachedOf(ls, fence, d) /\ v = Worth(ls, TimeOf(x, fence, d), x)
           \/ x \in InsideOf(ls, fence, d) /\ v = Worth(ls, 1, x)
<1>1. v \in OfferOf(ls, fence, x, d) <=>
        \E t \in Minutes(x[1], fence, x[2], d) : v = Worth(ls, t, x)
  BY Zenon DEF OfferOf, Offer, Worth
<1>2. \A t : t \in Minutes(x[1], fence, x[2], d) <=>
        \/ x \in ReachedOf(ls, fence, d) /\ t = TimeOf(x, fence, d)
        \/ x \in InsideOf(ls, fence, d) /\ t = 1
  BY DEF Minutes, ReachedOf, InsideOf, TimeOf
<1> QED BY <1>1, <1>2

LEMMA ReachedAreGrouped ==
  ASSUME NEW ls, NEW fence, Known(ls), NEW r
  PROVE  r \in Grouped_gravity(ls, fence) <=>
           \E d \in Range(HexOf) : r \in ReachedRows(ls, fence, d)
<1> DEFINE table == opportunity_table(ls, fence)
           key == [o \in table |-> [id |-> o.id, sensitivity |-> o.sensitivity, potential |-> o.potential]]
           name == [x \in OpportunitiesOf(ls) |-> NameOfGravity(x)]
           ways == sub_matrix(table)
<1>1. NamesFor(ls, fence, key, name)
  <2>1. ASSUME NEW x \in OpportunitiesOf(ls), NEW p \in x[2].at \cap fence[x[1].max_traveltime]
        PROVE  key[RowOf(x[1], x[2], p)] = name[x]
    <3>1. PICK o : o = RowOf(x[1], x[2], p)
      OBVIOUS
    <3>2. o \in table
      BY <3>1, RowsAreOfPlaces
    <3>3. o.id = x[2].id /\ o.sensitivity = x[1].sensitivity /\ o.potential = x[2].value
      BY <3>1 DEF RowOf
    <3>4. key[o] = [id |-> o.id, sensitivity |-> o.sensitivity, potential |-> o.potential]
      BY <3>2
    <3> HIDE DEF key
    <3> QED BY <3>1, <3>3, <3>4 DEF NameOfGravity
  <2>2. ASSUME NEW x \in OpportunitiesOf(ls), NEW y \in OpportunitiesOf(ls), name[x] = name[y]
        PROVE  x = y
    <3>1. x[2].id = y[2].id
      BY <2>2 DEF NameOfGravity
    <3> QED BY <3>1, KnownApart
  <2> HIDE DEF key, name
  <2> QED BY <2>1, <2>2 DEF NamesFor
<1>2. Grouped_gravity(ls, fence) = Fastest(Regrouped(ways, key))
  <2>1. \A w \in ways : w.of \in table
    <3> TAKE w \in ways
    <3>1. PICK o \in table : \E m \in Matrix : \E d \in m.dests : w = Way(o, d, m.traveltime)
      BY WaysOfRows
    <3> HIDE DEF table, ways
    <3> QED BY <3>1 DEF Way
  <2>2. \A w \in ways :
          key[w.of] = [id |-> w.of.id, sensitivity |-> w.of.sensitivity, potential |-> w.of.potential]
    <3> HIDE DEF table, ways
    <3> QED BY <2>1
  <2>3. Regrouped(ways, key) =
          {[w EXCEPT !.of = [id |-> w.of.id, sensitivity |-> w.of.sensitivity,
                             potential |-> w.of.potential]] : w \in ways}
    <3> HIDE DEF key, ways, table
    <3> QED BY <2>2 DEF Regrouped
  <2> HIDE DEF key
  <2> QED BY <2>3 DEF Grouped_gravity
<1>3. \A x \in OpportunitiesOf(ls) : name[x] = NameOfGravity(x)
  OBVIOUS
<1>4. r \in Fastest(Regrouped(ways, key)) <=>
        \E x \in OpportunitiesOf(ls) : \E d \in Range(HexOf) :
          TimesOf(x, fence, d) # {} /\ r = Way(name[x], d, Min(TimesOf(x, fence, d)))
  <2> HIDE DEF key, name
  <2> QED BY <1>1, FastestWays
<1>5. ASSUME NEW x \in OpportunitiesOf(ls), NEW d
      PROVE  /\ TimesOf(x, fence, d) # {} <=> x \in ReachedOf(ls, fence, d)
             /\ Min(TimesOf(x, fence, d)) = TimeOf(x, fence, d)
  <2>1. x[2] \in Opportunities(x[1])
    BY OfLayers
  <2> QED BY <2>1 DEF TimesOf, TimeOf, TimeTo, ReachedOf, Reached
<1> HIDE DEF key, name, ways, table
<1>6. r \in Fastest(Regrouped(ways, key)) <=>
        \E d \in Range(HexOf) : \E x \in ReachedOf(ls, fence, d) :
          r = Way(NameOfGravity(x), d, TimeOf(x, fence, d))
  <2>1. \A d : \A x \in ReachedOf(ls, fence, d) : x \in OpportunitiesOf(ls)
    BY DEF ReachedOf
  <2> QED BY <1>3, <1>4, <1>5, <2>1
<1> QED BY <1>2, <1>6 DEF ReachedRows

LEMMA ReachedRowsAt ==
  ASSUME NEW ls, NEW fence, Known(ls), NEW d
  PROVE  RowsAt(Grouped_gravity(ls, fence), d) =
           IF d \in Range(HexOf) THEN ReachedRows(ls, fence, d) ELSE {}
<1>1. \A e, r : r \in ReachedRows(ls, fence, e) => r.dest = e
  BY DEF ReachedRows, Way
<1> QED BY <1>1, ReachedAreGrouped DEF RowsAt

LEMMA FillersAre ==
  ASSUME NEW ls, NEW fence, NEW r
  PROVE  r \in filler_cells(ls, fence) <=>
           \E d \in Range(HexOf) : r \in FillerRows(ls, fence, d)
<1> DEFINE MetBy(l) == {y \in Opportunities(l) \X Range(HexOf) :
                        y[2] \in y[1].inside /\ y[1].whole \cap fence[l.max_traveltime] # {}}
           row(l, y) == Way([row |-> y[1].row, sensitivity |-> l.sensitivity, potential |-> y[1].value], y[2], 1)
           of(l) == {row(l, y) : y \in MetBy(l)}
<1>1. filler_cells(ls, fence) = UNION {of(l) : l \in {k \in ls : k.areas}}
  BY DEF filler_cells, Way
<1>2. \A l : r \in of(l) <=> \E y \in MetBy(l) : r = row(l, y)
  OBVIOUS
<1>3. ASSUME NEW l \in ls, l.areas, NEW y \in MetBy(l), r = row(l, y)
      PROVE  \E d \in Range(HexOf) : r \in FillerRows(ls, fence, d)
  <2>1. /\ y[1] \in Opportunities(l) /\ y[2] \in Range(HexOf) /\ y[2] \in y[1].inside
        /\ y[1].whole \cap fence[l.max_traveltime] # {}
    OBVIOUS
  <2>2. PICK x : x = <<l, y[1]>>
    OBVIOUS
  <2> HIDE DEF MetBy
  <2>3. x \in OpportunitiesOf(ls) /\ x[1] = l /\ x[2] = y[1]
    BY <2>1, <2>2, OfLayers
  <2>4. x \in InsideOf(ls, fence, y[2])
    BY <1>3, <2>1, <2>3 DEF InsideOf
  <2>5. r = Way(NameOfFiller(x), y[2], 1)
    BY <1>3, <2>3 DEF NameOfFiller
  <2> QED BY <2>1, <2>4, <2>5 DEF FillerRows
<1>4. ASSUME NEW d \in Range(HexOf), r \in FillerRows(ls, fence, d)
      PROVE  \E l \in {k \in ls : k.areas} : \E y \in MetBy(l) : r = row(l, y)
  <2>1. PICK x \in InsideOf(ls, fence, d) : r = Way(NameOfFiller(x), d, 1)
    BY <1>4 DEF FillerRows
  <2>2. /\ x \in OpportunitiesOf(ls) /\ x[1].areas /\ d \in x[2].inside
        /\ x[2].whole \cap fence[x[1].max_traveltime] # {}
    BY DEF InsideOf
  <2>3. x[1] \in ls /\ x[2] \in Opportunities(x[1])
    BY <2>2, OfLayers
  <2>4. PICK y : y = <<x[2], d>>
    OBVIOUS
  <2>5. y \in MetBy(x[1]) /\ y[1] = x[2] /\ y[2] = d
    BY <2>2, <2>3, <2>4
  <2>6. r = row(x[1], y)
    BY <2>1, <2>5 DEF NameOfFiller
  <2> HIDE DEF MetBy, row
  <2> QED BY <2>2, <2>3, <2>5, <2>6
<1> HIDE DEF MetBy, row, of
<1> QED BY <1>1, <1>2, <1>3, <1>4

LEMMA FillerRowsAt ==
  ASSUME NEW ls, NEW fence, NEW d
  PROVE  RowsAt(filler_cells(ls, fence), d) =
           IF d \in Range(HexOf) THEN FillerRows(ls, fence, d) ELSE {}
<1>1. \A e, r : r \in FillerRows(ls, fence, e) => r.dest = e
  BY DEF FillerRows, Way
<1> QED BY <1>1, FillersAre DEF RowsAt

(* What rows are worth together is at most what the things they stand for  *)
(* are worth, at least what each is, and no less if the rows are as many.  *)
StandFor(those, ls, S, way, worth) ==
  /\ IsFiniteSet(S) /\ those = {way[x] : x \in S}
  /\ \A x \in S : worth[x] = WorthOfRow(ls, way[x]) /\ worth[x] \in Nat

LEMMA WorthTogether ==
  ASSUME NEW ls, NEW S, NEW way, NEW worth, NEW those, StandFor(those, ls, S, way, worth)
  PROVE  /\ Accessibility(ls, those) \in Nat
         /\ Accessibility(ls, those) <= SumOver(worth, S)
         /\ \A x \in S : worth[x] <= Accessibility(ls, those)
         /\ (\A x, y \in S : way[x] = way[y] => x = y) => Accessibility(ls, those) = SumOver(worth, S)
<1> DEFINE h == [r \in those |-> WorthOfRow(ls, r)]
<1>0. /\ IsFiniteSet(S) /\ those = {way[x] : x \in S}
      /\ \A x \in S : worth[x] = WorthOfRow(ls, way[x]) /\ worth[x] \in Nat
  BY DEF StandFor
<1>1. Accessibility(ls, those) = SumOver(h, those)
  <2>1. Accessibility(ls, those) = SumFunction(h) /\ DOMAIN h = those
    BY DEF Accessibility, WorthOfRow
  <2> HIDE DEF h
  <2> QED BY <2>1, SumOfFunction
<1>2. \A x \in S : way[x] \in those /\ worth[x] = h[way[x]] /\ worth[x] \in Nat /\ worth[x] \in Int
  BY <1>0
<1>3. \A r \in those : \E x \in S : r = way[x]
  BY <1>0
<1>4. IsFiniteSet(those)
  BY <1>0, ImageIsFinite
<1> HIDE DEF h
<1>5. \A r \in those : h[r] \in Nat /\ h[r] \in Int
  BY <1>2, <1>3
<1>6. SumOver(h, those) \in Nat
  <2>1. Nat \in {Nat, Int}
    OBVIOUS
  <2> QED BY <1>4, <1>5, <2>1, SumIsNumber
<1>7. SumOver(h, {way[x] : x \in S}) <= SumOver(worth, S)
  BY <1>0, <1>2, SumOfNames
<1>8. (\A x, y \in S : way[x] = way[y] => x = y) => SumOver(h, {way[x] : x \in S}) = SumOver(worth, S)
  <2> HAVE \A x, y \in S : way[x] = way[y] => x = y
  <2> QED BY <1>0, <1>2, SumOfImage
<1>9. ASSUME NEW x \in S PROVE worth[x] <= SumOver(h, those)
  <2>1. PICK r \in those : r = way[x]
    BY <1>2
  <2>2. SumOver(h, those) = h[r] + SumOver(h, those \ {r})
    BY <1>4, <1>5, SumOfOne
  <2>3. SumOver(h, those \ {r}) \in Nat
    <3>1. IsFiniteSet(those \ {r}) /\ Nat \in {Nat, Int}
      BY <1>4, FS_Difference
    <3> QED BY <1>5, <3>1, SumIsNumber
  <2>4. h[r] \in Nat /\ worth[x] = h[r]
    BY <1>2, <1>5, <2>1
  <2> QED BY <2>2, <2>3, <2>4
<1> QED BY <1>0, <1>1, <1>6, <1>7, <1>8, <1>9

ValuesAt(ls, fence, d) ==
  {Accessibility(ls, RowsAt(those, d)) :
     those \in {r \in {Grouped_gravity(ls, fence), filler_cells(ls, fence)} : RowsAt(r, d) # {}}}

OffersFit(ls, fence) ==
  \A d \in Range(HexOf) : \A x \in OpportunitiesOf(ls) :
    \A v \in Offer(ls, fence, x[1], x[2], d) : v \in Nat

LEMMA OpportunitiesAreFinite ==
  ASSUME NEW ls, LayersFit(ls)
  PROVE  IsFiniteSet(OpportunitiesOf(ls))
<1> DEFINE of == [l \in ls |-> {<<l, f>> : f \in Opportunities(l)}]
<1>1. OpportunitiesOf(ls) = UNION {of[l] : l \in ls}
  BY DEF OpportunitiesOf
<1>2. ASSUME NEW l \in ls PROVE IsFiniteSet(of[l])
  <2> DEFINE O == Opportunities(l)
             pair == [f \in O |-> <<l, f>>]
  <2>1. of[l] = {pair[f] : f \in O} /\ IsFiniteSet(O)
    BY DEF LayersFit
  <2> HIDE DEF pair, O, of
  <2> QED BY <2>1, ImageIsFinite
<1> HIDE DEF of
<1>3. IsFiniteSet({of[l] : l \in ls})
  BY ImageIsFinite DEF LayersFit
<1> QED BY <1>1, <1>2, <1>3, FS_UNION

(* Of what an opportunity offers a cell, the best.                         *)
LEMMA BestIs ==
  ASSUME NEW ls, NEW fence, OffersFit(ls, fence), NEW d \in Range(HexOf),
         NEW x \in Offered(ls, fence, d)
  PROVE  /\ Best(ls, fence, x, d) \in Nat
         /\ Best(ls, fence, x, d) \in OfferOf(ls, fence, x, d)
         /\ \A v \in OfferOf(ls, fence, x, d) : v \in Nat /\ v <= Best(ls, fence, x, d)
<1>1. PICK S : S = OfferOf(ls, fence, x, d)
  OBVIOUS
<1>2. x \in OpportunitiesOf(ls) /\ S # {} /\ S \in SUBSET Nat
  BY <1>1 DEF Offered, OffersFit, OfferOf
<1>3. IsFiniteSet(S)
  <2>1. S \in SUBSET {Worth(ls, TimeOf(x, fence, d), x), Worth(ls, 1, x)}
    BY <1>1, <1>2, OffersAre
  <2> QED BY <2>1, TwoAreFinite, FS_Subset, Zenon
<1>4. Best(ls, fence, x, d) = Max(S)
  BY <1>1 DEF Best, OfferOf
<1>5. Max(S) \in S /\ \A y \in S : y <= Max(S)
  <2>1. S \in SUBSET Int
    BY <1>2
  <2> QED BY <1>2, <1>3, <2>1, GreatestIs
<1> QED BY <1>1, <1>2, <1>4, <1>5

LEMMA OfferedAre ==
  ASSUME NEW ls, NEW fence, NEW d
  PROVE  Offered(ls, fence, d) = ReachedOf(ls, fence, d) \cup InsideOf(ls, fence, d)
<1>1. \A x \in OpportunitiesOf(ls) :
        OfferOf(ls, fence, x, d) # {} <=>
          x \in ReachedOf(ls, fence, d) \/ x \in InsideOf(ls, fence, d)
  <2> TAKE x \in OpportunitiesOf(ls)
  <2> QED BY OffersAre, Zenon
<1>2. /\ ReachedOf(ls, fence, d) \in SUBSET OpportunitiesOf(ls)
      /\ InsideOf(ls, fence, d) \in SUBSET OpportunitiesOf(ls)
  BY DEF ReachedOf, InsideOf
<1> QED BY <1>1, <1>2 DEF Offered, OfferOf

LEMMA GravityAt ==
  ASSUME NEW ls, NEW fence, LayersFit(ls), OffersFit(ls, fence), Known(ls),
         NEW d \in Range(HexOf), Offered(ls, fence, d) # {},
         NEW best, \A x \in Offered(ls, fence, d) : best[x] = Best(ls, fence, x, d)
  PROVE  LET value == Max(ValuesAt(ls, fence, d))
         IN /\ \A x \in Offered(ls, fence, d) : best[x] <= value
            /\ value <= SumOver(best, Offered(ls, fence, d))
            /\ (\A l \in ls : ~l.areas) => value = SumOver(best, Offered(ls, fence, d))
<1> DEFINE way == [x \in ReachedOf(ls, fence, d) |-> Way(NameOfGravity(x), d, TimeOf(x, fence, d))]
           worth == [x \in ReachedOf(ls, fence, d) |-> Worth(ls, TimeOf(x, fence, d), x)]
           fill == [x \in InsideOf(ls, fence, d) |-> Way(NameOfFiller(x), d, 1)]
           filled == [x \in InsideOf(ls, fence, d) |-> Worth(ls, 1, x)]
<1>1. PICK A, B, O : /\ A = ReachedOf(ls, fence, d) /\ B = InsideOf(ls, fence, d)
                     /\ O = Offered(ls, fence, d)
  OBVIOUS
<1>2. O = A \cup B /\ IsFiniteSet(O) /\ IsFiniteSet(A) /\ IsFiniteSet(B) /\ O \in SUBSET OpportunitiesOf(ls)
  <2>1. O = A \cup B
    BY <1>1, OfferedAre
  <2>2. O \in SUBSET OpportunitiesOf(ls)
    BY <1>1 DEF Offered
  <2>3. IsFiniteSet(O)
    BY <2>2, OpportunitiesAreFinite, FS_Subset
  <2>4. A \in SUBSET O /\ B \in SUBSET O
    BY <2>1
  <2> QED BY <2>1, <2>2, <2>3, <2>4, FS_Subset
<1>3. \A x \in O : best[x] \in Nat /\ best[x] \in Int
  BY <1>1, BestIs
<1>4. \A x \in A : /\ worth[x] = WorthOfRow(ls, way[x])
                   /\ worth[x] = Worth(ls, TimeOf(x, fence, d), x)
  <2> TAKE x \in A
  <2>1. PICK w : w = Way(NameOfGravity(x), d, TimeOf(x, fence, d)) /\ w = way[x]
    BY <1>1
  <2>2. w.traveltime = TimeOf(x, fence, d) /\ w.of.sensitivity = x[1].sensitivity /\ w.of.potential = x[2].value
    BY <2>1 DEF Way, NameOfGravity
  <2>3. worth[x] = Worth(ls, TimeOf(x, fence, d), x)
    BY <1>1
  <2> HIDE DEF way, worth
  <2> QED BY <2>1, <2>2, <2>3 DEF Worth, WorthOfRow
<1>5. \A x \in B : /\ filled[x] = WorthOfRow(ls, fill[x])
                   /\ filled[x] = Worth(ls, 1, x)
  <2> TAKE x \in B
  <2>1. PICK w : w = Way(NameOfFiller(x), d, 1) /\ w = fill[x]
    BY <1>1
  <2>2. w.traveltime = 1 /\ w.of.sensitivity = x[1].sensitivity /\ w.of.potential = x[2].value
    BY <2>1 DEF Way, NameOfFiller
  <2>3. filled[x] = Worth(ls, 1, x)
    BY <1>1
  <2> HIDE DEF fill, filled
  <2> QED BY <2>1, <2>2, <2>3 DEF Worth, WorthOfRow
<1>6. \A x, y \in A : way[x] = way[y] => x = y
  <2> TAKE x, y \in A
  <2> HAVE way[x] = way[y]
  <2>1. NameOfGravity(x) = NameOfGravity(y)
    BY <1>1 DEF Way
  <2>2. x[2].id = y[2].id
    BY <2>1 DEF NameOfGravity
  <2> QED BY <1>2, <2>2, KnownApart
<1>7. /\ ReachedRows(ls, fence, d) = {way[x] : x \in A}
      /\ FillerRows(ls, fence, d) = {fill[x] : x \in B}
  BY <1>1 DEF ReachedRows, FillerRows
<1> HIDE DEF way, worth, fill, filled
<1>8. \A x \in A : worth[x] \in Nat /\ worth[x] \in Int /\ worth[x] <= best[x]
  <2> TAKE x \in A
  <2>1. x \in O /\ x \in OpportunitiesOf(ls)
    BY <1>2
  <2>2. worth[x] \in OfferOf(ls, fence, x, d)
    BY <1>1, <1>4, <2>1, OffersAre
  <2> QED BY <1>1, <2>1, <2>2, BestIs
<1>9. \A x \in B : filled[x] \in Nat /\ filled[x] \in Int /\ filled[x] <= best[x]
  <2> TAKE x \in B
  <2>1. x \in O /\ x \in OpportunitiesOf(ls)
    BY <1>2
  <2>2. filled[x] \in OfferOf(ls, fence, x, d)
    BY <1>1, <1>5, <2>1, OffersAre
  <2> QED BY <1>1, <2>1, <2>2, BestIs
<1>10. \A x \in O : \/ x \in A /\ best[x] = worth[x]
                    \/ x \in B /\ best[x] = filled[x]
  <2> TAKE x \in O
  <2>1. best[x] \in OfferOf(ls, fence, x, d) /\ x \in OpportunitiesOf(ls)
    BY <1>1, <1>2, BestIs
  <2> QED BY <1>1, <1>4, <1>5, <2>1, OffersAre
<1>11. PICK a : a = Accessibility(ls, ReachedRows(ls, fence, d))
  OBVIOUS
<1>12. PICK b : b = Accessibility(ls, FillerRows(ls, fence, d))
  OBVIOUS
<1>13. /\ a \in Nat /\ a = SumOver(worth, A) /\ \A x \in A : worth[x] <= a
  <2>1. \A x \in A : worth[x] = WorthOfRow(ls, way[x]) /\ worth[x] \in Nat
    BY <1>4, <1>8
  <2>2. PICK those : those = {way[x] : x \in A} /\ a = Accessibility(ls, those)
    BY <1>7, <1>11
  <2>3. /\ Accessibility(ls, those) \in Nat
        /\ \A x \in A : worth[x] <= Accessibility(ls, those)
        /\ (\A x, y \in A : way[x] = way[y] => x = y) => Accessibility(ls, those) = SumOver(worth, A)
    <3>1. StandFor(those, ls, A, way, worth)
      BY <1>2, <2>1, <2>2 DEF StandFor
    <3> QED BY <3>1, WorthTogether
  <2> QED BY <1>6, <2>2, <2>3
<1>14. /\ b \in Nat /\ b <= SumOver(filled, B) /\ \A x \in B : filled[x] <= b
  <2>1. \A x \in B : filled[x] = WorthOfRow(ls, fill[x]) /\ filled[x] \in Nat
    BY <1>5, <1>9
  <2>2. PICK those : those = {fill[x] : x \in B} /\ b = Accessibility(ls, those)
    BY <1>7, <1>12
  <2>3. /\ Accessibility(ls, those) \in Nat
        /\ Accessibility(ls, those) <= SumOver(filled, B)
        /\ \A x \in B : filled[x] <= Accessibility(ls, those)
    <3>1. StandFor(those, ls, B, fill, filled)
      BY <1>2, <2>1, <2>2 DEF StandFor
    <3> QED BY <3>1, WorthTogether
  <2> QED BY <2>2, <2>3
<1>15. SumOver(best, A) <= SumOver(best, O) /\ SumOver(best, B) <= SumOver(best, O)
  <2>1. A \in SUBSET O /\ B \in SUBSET O
    BY <1>2
  <2> QED BY <1>2, <1>3, <2>1, SumOfPart
<1>16. SumOver(worth, A) <= SumOver(best, A) /\ SumOver(filled, B) <= SumOver(best, B)
  <2>1. \A x \in A : worth[x] \in Int /\ best[x] \in Int /\ worth[x] <= best[x]
    BY <1>2, <1>3, <1>8
  <2>2. \A x \in B : filled[x] \in Int /\ best[x] \in Int /\ filled[x] <= best[x]
    BY <1>2, <1>3, <1>9
  <2>3. SumOver(worth, A) <= SumOver(best, A)
    BY <1>2, <2>1, SumGrows
  <2>4. SumOver(filled, B) <= SumOver(best, B)
    BY <1>2, <2>2, SumGrows
  <2> QED BY <2>3, <2>4
<1>17. /\ SumOver(worth, A) \in Nat /\ SumOver(filled, B) \in Nat /\ SumOver(best, A) \in Nat
       /\ SumOver(best, B) \in Nat /\ SumOver(best, O) \in Nat
  <2>1. Nat \in {Nat, Int}
    OBVIOUS
  <2>2. /\ \A x \in A : worth[x] \in Nat /\ best[x] \in Nat
        /\ \A x \in B : filled[x] \in Nat /\ best[x] \in Nat
    BY <1>2, <1>3, <1>8, <1>9
  <2> QED BY <1>2, <1>3, <2>1, <2>2, SumIsNumber
<1>18. PICK V : V = ValuesAt(ls, fence, d)
  OBVIOUS
<1>19. \A v : v \in V <=> (A # {} /\ v = a) \/ (B # {} /\ v = b)
  <2>1. /\ RowsAt(Grouped_gravity(ls, fence), d) = ReachedRows(ls, fence, d)
        /\ RowsAt(filler_cells(ls, fence), d) = FillerRows(ls, fence, d)
    BY ReachedRowsAt, FillerRowsAt
  <2>2. (ReachedRows(ls, fence, d) # {} <=> A # {}) /\ (FillerRows(ls, fence, d) # {} <=> B # {})
    BY <1>7
  <2>3. PICK G, F : G = Grouped_gravity(ls, fence) /\ F = filler_cells(ls, fence)
    OBVIOUS
  <2>4. \A v : v \in V <=> \E those \in {G, F} : RowsAt(those, d) # {} /\ v = Accessibility(ls, RowsAt(those, d))
    BY <1>18, <2>3 DEF ValuesAt
  <2> QED BY <1>11, <1>12, <2>1, <2>2, <2>3, <2>4
<1>20. Max(V) \in V /\ \A v \in V : v <= Max(V)
  <2>1. V \in SUBSET {a, b} /\ V \in SUBSET Int /\ V # {}
    BY <1>1, <1>2, <1>13, <1>14, <1>19
  <2>2. IsFiniteSet(V)
    BY <2>1, TwoAreFinite, FS_Subset, Zenon
  <2> QED BY <2>1, <2>2, GreatestIs
<1>21. PICK value : value = Max(V)
  OBVIOUS
<1>22. value \in Nat /\ (A # {} => a <= value) /\ (B # {} => b <= value)
  BY <1>13, <1>14, <1>19, <1>20, <1>21
<1>23. \A x \in O : best[x] <= value
  <2> TAKE x \in O
  <2>1. CASE x \in A /\ best[x] = worth[x]
    <3>1. worth[x] <= a /\ a <= value /\ worth[x] \in Nat
      BY <1>8, <1>13, <1>22, <2>1
    <3> QED BY <1>13, <1>22, <2>1, <3>1
  <2>2. CASE x \in B /\ best[x] = filled[x]
    <3>1. filled[x] <= b /\ b <= value /\ filled[x] \in Nat
      BY <1>9, <1>14, <1>22, <2>2
    <3> QED BY <1>14, <1>22, <2>2, <3>1
  <2> QED BY <1>10, <2>1, <2>2
<1>24. value <= SumOver(best, O)
  <2>1. value = a \/ value = b
    BY <1>19, <1>20, <1>21
  <2>2. a <= SumOver(best, O)
    BY <1>13, <1>15, <1>16, <1>17
  <2>3. b <= SumOver(best, O)
    BY <1>14, <1>15, <1>16, <1>17
  <2> QED BY <2>1, <2>2, <2>3
<1>25. ASSUME \A l \in ls : ~l.areas PROVE value = SumOver(best, O)
  <2>1. B = {}
    <3>1. \A x \in B : x \in OpportunitiesOf(ls) /\ x[1].areas
      BY <1>1 DEF InsideOf
    <3>2. \A x \in B : x[1] \in ls
      BY <3>1, OfLayers
    <3> QED BY <1>25, <3>1, <3>2
  <2>2. value = a
    BY <1>19, <1>20, <1>21, <2>1
  <2>3. O = A /\ \A x \in A : best[x] = worth[x]
    BY <1>2, <1>10, <2>1
  <2>4. SumOver(best, A) = SumOver(worth, A)
    BY <1>2, <2>3, SumAgrees
  <2> QED BY <1>13, <2>2, <2>3, <2>4
<1> QED BY <1>1, <1>18, <1>21, <1>23, <1>24, <1>25

(* crud_heatmap_gravity.py: a cell is worth at least what any opportunity  *)
(* offers it and at most what all do, of points exactly that, whatever the *)
(* impedance, wherever what is offered are natural numbers.                *)
THEOREM AnyGravityIsBounded ==
  ASSUME NEW ls, NEW fence, LayersFit(ls), OffersFit(ls, fence)
  PROVE  GravityIsBounded(ls, fence)
<1> DEFINE dests == {r.dest : r \in Grouped_gravity(ls, fence) \cup filler_cells(ls, fence)}
           cells == {d \in Range(HexOf) : Offered(ls, fence, d) # {}}
<1> SUFFICES ASSUME Known(ls)
             PROVE  LET result == gravity(ls, fence)
                    IN /\ {r.cell : r \in result} = cells
                       /\ \A r \in result :
                            LET offered == Offered(ls, fence, r.cell)
                                together == SumFunction([x \in offered |-> Best(ls, fence, x, r.cell)])
                            IN /\ \A x \in offered : Best(ls, fence, x, r.cell) <= r.accessibility
                               /\ r.accessibility <= together
                               /\ (\A l \in ls : ~l.areas) => r.accessibility = together
  BY DEF GravityIsBounded
<1>1. gravity(ls, fence) = {[cell |-> d, accessibility |-> Max(ValuesAt(ls, fence, d))] : d \in dests}
  BY Zenon DEF gravity, Grouped_gravity, ValuesAt, RowsAt
<1>2. dests = cells
  <2>1. ASSUME NEW d PROVE d \in dests <=> d \in cells
    <3>1. d \in dests <=> RowsAt(Grouped_gravity(ls, fence), d) # {} \/ RowsAt(filler_cells(ls, fence), d) # {}
      BY DEF RowsAt
    <3>2. /\ ReachedRows(ls, fence, d) # {} <=> ReachedOf(ls, fence, d) # {}
          /\ FillerRows(ls, fence, d) # {} <=> InsideOf(ls, fence, d) # {}
      BY DEF ReachedRows, FillerRows
    <3>3. d \in cells <=> d \in Range(HexOf) /\ Offered(ls, fence, d) # {}
      OBVIOUS
    <3> HIDE DEF dests, cells
    <3> QED BY <3>1, <3>2, <3>3, OfferedAre, ReachedRowsAt, FillerRowsAt
  <2> HIDE DEF dests, cells
  <2> QED BY <2>1
<1>3. {r.cell : r \in gravity(ls, fence)} = cells
  <2> HIDE DEF dests, cells
  <2> DEFINE of(d) == [cell |-> d, accessibility |-> Max(ValuesAt(ls, fence, d))]
  <2>1. \A d : of(d).cell = d
    OBVIOUS
  <2>2. gravity(ls, fence) = {of(d) : d \in cells}
    BY <1>1, <1>2
  <2> HIDE DEF of
  <2> QED BY <2>1, <2>2
<1>4. ASSUME NEW r \in gravity(ls, fence), NEW offered, offered = Offered(ls, fence, r.cell),
             NEW best, best = [x \in offered |-> Best(ls, fence, x, r.cell)],
             NEW together, together = SumFunction(best)
      PROVE  /\ \A x \in offered : Best(ls, fence, x, r.cell) <= r.accessibility
             /\ r.accessibility <= together
             /\ (\A l \in ls : ~l.areas) => r.accessibility = together
  <2>1. PICK d \in dests : r = [cell |-> d, accessibility |-> Max(ValuesAt(ls, fence, d))]
    <3> HIDE DEF dests
    <3> QED BY <1>1
  <2>2. r.cell = d /\ r.accessibility = Max(ValuesAt(ls, fence, d))
    BY <2>1
  <2>3. d \in Range(HexOf) /\ Offered(ls, fence, d) # {}
    <3>1. d \in cells
      <4> HIDE DEF dests, cells
      <4> QED BY <1>2
    <3> QED BY <3>1
  <2>4. \A x \in Offered(ls, fence, d) : best[x] = Best(ls, fence, x, d)
    BY <1>4, <2>2
  <2>5. DOMAIN best = offered
    BY <1>4
  <2>6. together = SumOver(best, offered)
    BY <1>4, <2>5, SumOfFunction
  <2>7. PICK value : value = Max(ValuesAt(ls, fence, d))
    OBVIOUS
  <2>8. /\ \A x \in Offered(ls, fence, d) : best[x] <= value
        /\ value <= SumOver(best, Offered(ls, fence, d))
        /\ (\A l \in ls : ~l.areas) => value = SumOver(best, Offered(ls, fence, d))
    BY <2>3, <2>4, <2>7, GravityAt
  <2> HIDE DEF dests, cells
  <2> QED BY <1>4, <2>2, <2>4, <2>6, <2>7, <2>8
<1> HIDE DEF cells
<1> QED BY <1>3, <1>4

=============================================================================
